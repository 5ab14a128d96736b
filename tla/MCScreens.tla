------------------------------ MODULE MCScreens ------------------------------
(* The owner and a biller of a second shop, and one more shop. *)
EXTENDS Screens
CONSTANTS s1, s2, s3
MCShops == {s1, s2, s3}
MCStaff == {"ADMIN", "BILLER"}
MCTypes == {"SALE_INVOICE", "SALE_ORDER", "PAYMENT_OUT", "EXPENSE"}
=============================================================================

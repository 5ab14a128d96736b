-------------------------------- MODULE MCTill --------------------------------
(* A taxed item priced with its tax (101 paise, 25 %: 80.8 without) and one  *)
(* priced without (two rupees, 10 %).                                        *)
EXTENDS Till
CONSTANTS i1, i2
MCCatalog ==
  (i1 :> [salePrice |-> 101 * Paisa, taxRate |-> 25, inclusive |-> TRUE])
  @@ (i2 :> [salePrice |-> 2 * Rupee, taxRate |-> 10, inclusive |-> FALSE])
MCPercents == {20}
MCRupees == {50 * Paisa}
MCExtras == {Rupee}
=============================================================================

------------------------------ MODULE Postings ------------------------------
(***************************************************************************)
(* The pure rules of the transaction engine (txns/txn.constants.ts and the *)
(* helpers of txns/txn-core.service.ts): the kinds of business document    *)
(* and what one of them does to stock, to its party and to money.          *)
(***************************************************************************)
EXTENDS Integers, Functions

OrderTypes == {"SALE_ORDER", "PURCHASE_ORDER", "ESTIMATE", "DELIVERY_CHALLAN"}
PaymentTypes == {"PAYMENT_IN", "PAYMENT_OUT"}
LineTypes == OrderTypes \cup
    {"SALE_INVOICE", "CREDIT_NOTE", "PURCHASE_BILL", "DEBIT_NOTE"}
TxnTypes == LineTypes \cup PaymentTypes \cup {"EXPENSE", "P2P_TRANSFER"}

(* What the members of a finite set add up to, each counting F of it. *)
Sum(F(_), S) == SumFunctionOnSet([x \in S |-> F(x)], S)

Signed(x, invert) == IF invert THEN -x ELSE x

(* A posted line takes the item out of stock or puts it in. *)
StockEffect(t, i) ==
    IF t.item # i THEN 0
    ELSE CASE t.type \in {"SALE_INVOICE", "DEBIT_NOTE"} -> -t.qty
           [] t.type \in {"CREDIT_NOTE", "PURCHASE_BILL"} -> t.qty
           [] OTHER -> 0

PartyDelta(type, total, balance) ==
    CASE type \in {"SALE_INVOICE", "DEBIT_NOTE"} -> balance
      [] type \in {"CREDIT_NOTE", "PURCHASE_BILL"} -> -balance
      [] type = "PAYMENT_IN" -> -total
      [] type = "PAYMENT_OUT" -> total
      [] OTHER -> 0

Inbound(type) == type \in {"SALE_INVOICE", "SALE_ORDER", "PAYMENT_IN", "DEBIT_NOTE"}

Settlement(total, paid) ==
    IF total - paid <= 0 THEN "PAID" ELSE IF paid > 0 THEN "PARTIAL" ELSE "OPEN"
=============================================================================

----------------------------- MODULE MCTxnCore -----------------------------
(* Small instances of TxnCore and TxnReports: the request sets the runs    *)
(* choose from.                                                            *)
EXTENDS TxnReports, TLC

CONSTANTS s1, s2, i1, i2, p1, p2, t1

(* The first shop has the first item and party, unless it is the only one. *)
AtHome ==
    [x \in Items \cup Parties |-> IF s2 \in Shops /\ x \in {i2, p2} THEN s2 ELSE s1]

Req(type, party, to, qty, total, method, own, hold) ==
    [type |-> type, shop |-> s1, party |-> party, to |-> to,
     item |-> IF qty > 0 THEN i1 ELSE None, qty |-> qty, total |-> total,
     method |-> method, own |-> own, pick |-> None, hold |-> hold]

Bill(type, qty, method, own) == Req(type, p1, None, qty, qty, method, own, FALSE)

(* An item is sold at 3 with a tax of 1 in it and a cost of 1. *)
Priced(inputs) == {[in EXCEPT !.total = 3 * in.total, !.own = 3 * in.own] : in \in inputs}

(* Every way a document is paid, sales and purchases on credit and the     *)
(* payments that settle them, a held bill, a bill with a discount that     *)
(* leaves a customer without a name in debt, an expense half paid, and     *)
(* both kinds of return.                                                   *)
CounterInputs ==
    {[Req("SALE_INVOICE", None, None, 2, 2, "CASH", 2, FALSE) EXCEPT !.total = 4]} \cup
    Priced({Bill("SALE_INVOICE", 2, "UPI", 1),
            Req("SALE_INVOICE", p1, None, 2, 2, "CASH", 0, TRUE),
            Bill("PURCHASE_BILL", 2, "CASH", 1),
            Bill("DEBIT_NOTE", 1, "CHEQUE", 1),
            Req("EXPENSE", None, None, 0, 2, "UPI", 1, FALSE),
            Req("P2P_TRANSFER", p1, p2, 0, 1, "CASH", 0, FALSE),
            Req("PAYMENT_IN", p1, None, 0, 2, "CASH", 2, FALSE),
            Req("PAYMENT_OUT", p1, None, 0, 1, "CHEQUE", 1, FALSE)})

(* Orders and estimates in two shops, bills and a held one beside them. *)
Elsewhere(in) == [in EXCEPT !.shop = s2, !.item = i2, !.party = p2]
ShopInputs ==
    {Bill("SALE_ORDER", 2, "CASH", 0),
     Elsewhere(Bill("PURCHASE_ORDER", 2, "CASH", 0)),
     Bill("ESTIMATE", 1, "CASH", 0),
     Elsewhere(Bill("PURCHASE_BILL", 1, "UPI", 0)),
     Bill("SALE_INVOICE", 1, "UPI", 1),
     Req("SALE_INVOICE", p1, None, 1, 1, "UPI", 0, TRUE)}

UnitPrice == [i \in Items |-> 1]
CounterPrice == [i \in Items |-> 3]
Nothing == [i \in Items |-> 0]
FewInStock == [i \in Items |-> 2]
ThreeInStock == [i \in Items |-> 3]
NoLimit == [p \in Parties |-> None]
LimitThree == [p \in Parties |-> 3]

(* The owner puts money in, or borrows: into an account, or as on the      *)
(* loans page, which names none.                                           *)
Cash(s) == [shop |-> s, kind |-> "CASH"]
Upi(s) == [shop |-> s, kind |-> "UPI"]
Row(kind, from, to) == [kind |-> kind, from |-> from, to |-> to, amount |-> 2]
CounterMoves == {Row("TRANSFER", None, Cash(s1)), Row("LOAN", None, Cash(s1)),
                 Row("LOAN", None, None)}
ShopMoves == {Row("TRANSFER", Cash(s1), Upi(s2))}

Floats == [a \in AccountIds |-> IF a = Cash(s1) THEN 1 ELSE 0]

ShopAccounts == [shop : Shops, kind : Kinds]
CashOnly == {[shop |-> s1, kind |-> "CASH"]}
=============================================================================

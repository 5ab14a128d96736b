----------------------------- MODULE MCTxnRows -----------------------------
(* Small instances of TxnRows: the documents at hand and what is asked.    *)
EXTENDS TxnRows

CONSTANTS s1, s2, p1

Text(type, qty, total, own) ==
    [type |-> type, shop |-> s1, party |-> p1, item |-> qty > 0, qty |-> qty,
     total |-> total, own |-> own, cheque |-> FALSE, source |-> None,
     against |-> None, pays |-> None]

Row(is, status) ==
    [is |-> is, status |-> status, deleted |-> FALSE, paid |-> is.own,
     allocated |-> 0, cheque |-> "NONE"]

Invoice == 1
Payment == 2
HeldBill == 3
Estimate == 4
Order == 5
InBin == 6
ByCheque == 7
Cashed == 8
Converted == 9
ItsInvoice == 10

Documents ==
    <<[Row(Text("SALE_INVOICE", 2, 3, 0), "PARTIAL") EXCEPT !.paid = 1],
      [Row([Text("PAYMENT_IN", 0, 1, 1) EXCEPT !.pays = Invoice], "PAID") EXCEPT !.allocated = 1],
      Row(Text("SALE_INVOICE", 1, 1, 1), "HELD"),
      Row(Text("ESTIMATE", 1, 1, 0), "ORDER_OPEN"),
      Row(Text("PURCHASE_ORDER", 2, 2, 0), "ORDER_OPEN"),
      [Row(Text("SALE_INVOICE", 2, 2, 0), "OPEN") EXCEPT !.deleted = TRUE],
      [Row([Text("SALE_INVOICE", 1, 1, 1) EXCEPT !.cheque = TRUE], "PAID")
         EXCEPT !.cheque = "OPEN"],
      [Row([Text("PAYMENT_IN", 0, 1, 1) EXCEPT !.cheque = TRUE], "PAID")
         EXCEPT !.cheque = "CLOSED"],
      Row(Text("ESTIMATE", 1, 1, 0), "CONVERTED"),
      Row([Text("SALE_INVOICE", 1, 1, 0) EXCEPT !.source = Converted], "OPEN")>>

Ask(op, doc, qty) ==
    [op |-> op, doc |-> doc, in |-> None, shop |-> s1, to |-> None, qty |-> qty, part |-> FALSE]

New(in) == [Ask("create", None, 0) EXCEPT !.in = in]

Pay(n) == New([Text("PAYMENT_IN", 0, n, n) EXCEPT !.pays = Invoice])

AllRequests ==
    {New(Text("SALE_INVOICE", 2, 2, 2)), New(Text("SALE_INVOICE", 2, 2, 0)),
     New(Text("DEBIT_NOTE", 2, 2, 2)),
     Pay(1), Pay(2),
     Ask("resume", HeldBill, 0), Ask("delete", HeldBill, 0),
     Ask("delete", Invoice, 0), Ask("delete", Payment, 0), Ask("restore", InBin, 0),
     Ask("delete", InBin, 0), Ask("delete", ByCheque, 0),
     Ask("deposit", ByCheque, 0), Ask("reopen", Cashed, 0), Ask("delete", Cashed, 0),
     [Ask("transfer", None, 1) EXCEPT !.to = s2],
     [Ask("transfer", None, 1) EXCEPT !.shop = s2, !.to = s1],
     Ask("borrow", None, 2), Ask("loan", None, -1), Ask("loan", None, 1),
     Ask("openLoan", None, 2), Ask("loanEntry", None, -1),
     Ask("refund", Invoice, 1), Ask("convert", Estimate, 1),
     Ask("delete", ItsInvoice, 0), Ask("convert", Converted, 1),
     [Ask("convert", Order, 1) EXCEPT !.part = TRUE],
     Ask("adjust", None, 1), Ask("count", None, 1),
     [Ask("move", None, 1) EXCEPT !.to = s2],
     [Ask("move", None, 1) EXCEPT !.shop = s2, !.to = s1]}
=============================================================================

----------------------------- MODULE TxnReports -----------------------------
(***************************************************************************)
(* What the screens read out of the books that TxnCore keeps:              *)
(* reports.service.ts, the list, statement and summary queries of          *)
(* txn-core, cash-bank, parties and insights.  None of them changes state; *)
(* the properties compare what they say with one another and with the      *)
(* running balances, in every state the engine reaches.                    *)
(*                                                                         *)
(* Abstractions: every report covers all dates; a unit of an item carries  *)
(* the same tax and cost at every sale; Wide asks for the whole business.  *)
(***************************************************************************)
EXTENDS TxnCore

CONSTANTS
    UnitTax,        \* tax in the price of a unit of an item
    UnitCost        \* cost of a unit, copied to the line when it is sold

ASSUME UnitsAssumption == UnitTax \in [Items -> Nat] /\ UnitCost \in [Items -> Nat]

Seen(d, shop) == shop = Wide \/ docs[d].shop = shop

(* Fault: bills on hold are counted with the others.                       *)
TxnWhereHeld(types, shop) ==
    {d \in Docs : Live(d) /\ docs[d].type \in types /\ Seen(d, shop)}

(* The documents a report is made of: no deleted ones, none on hold. *)
TxnWhere(types, shop) ==
    {d \in Docs : /\ Live(d) /\ docs[d].status # "HELD"
                  /\ docs[d].type \in types /\ Seen(d, shop)}

Total(d) == docs[d].total
Paid(d) == docs[d].paid
Due(d) == docs[d].total - docs[d].paid

(* What the lines of a document add up to; a discount on the bill makes    *)
(* its total smaller.                                                      *)
LineTotal(d) == docs[d].qty * Price[docs[d].item]
LineTax(d) == docs[d].qty * UnitTax[docs[d].item]
LineCost(d) == docs[d].qty * UnitCost[docs[d].item]

BackTypes == {"CREDIT_NOTE", "DEBIT_NOTE"}
Sign(d) == IF docs[d].type \in BackTypes THEN -1 ELSE 1

Sales == {"SALE_INVOICE", "CREDIT_NOTE"}
Purchases == {"PURCHASE_BILL", "DEBIT_NOTE"}

-----------------------------------------------------------------------------
(* Lists and totals of documents.                                          *)

SaleReport(shop) ==
    [totalSale |-> Sum(Total, TxnWhere({"SALE_INVOICE"}, shop)),
     totalReturns |-> Sum(Total, TxnWhere({"CREDIT_NOTE"}, shop)),
     totalBalance |-> Sum(Due, TxnWhere({"SALE_INVOICE"}, shop)),
     count |-> Cardinality(TxnWhere({"SALE_INVOICE"}, shop))]

PurchaseReport(shop) ==
    [totalPurchase |-> Sum(Total, TxnWhere({"PURCHASE_BILL"}, shop)),
     totalReturns |-> Sum(Total, TxnWhere({"DEBIT_NOTE"}, shop)),
     totalBalance |-> Sum(Due, TxnWhere({"PURCHASE_BILL"}, shop)),
     count |-> Cardinality(TxnWhere({"PURCHASE_BILL"}, shop))]

(* listTxns: the rows are all that are not deleted, the summary above them *)
(* leaves out what is on hold.                                             *)
ListTxns(types, shop) ==
    LET data == {d \in Docs : Live(d) /\ docs[d].type \in types /\ Seen(d, shop)}
        counted == {d \in data : docs[d].status # "HELD"}
    IN  [data |-> data, totalAmount |-> Sum(Total, counted),
         totalBalance |-> Sum(Due, counted), totalPaid |-> Sum(Paid, counted)]

(* The part of the dashboard that is about sales. *)
DashboardSales(shop) ==
    LET sale == Sum(Total, TxnWhere({"SALE_INVOICE"}, shop))
        returns == Sum(Total, TxnWhere({"CREDIT_NOTE"}, shop))
        expense == Sum(Total, TxnWhere({"EXPENSE"}, shop))
    IN  [monthSale |-> sale, monthInvoices |-> Cardinality(TxnWhere({"SALE_INVOICE"}, shop)),
         netRevenue |-> sale - returns - expense]

(* insights.dailyLocal: what a desktop sends up of its own sales. *)
DailyLocal(shop) ==
    [salesRevenue |-> Sum(Total, TxnWhere({"SALE_INVOICE"}, shop)),
     taxCollected |-> Sum(LineTax, TxnWhere({"SALE_INVOICE"}, shop)),
     invoiceCount |-> Cardinality(TxnWhere({"SALE_INVOICE"}, shop)),
     purchaseTotal |-> Sum(Total, TxnWhere({"PURCHASE_BILL"}, shop)),
     expenseTotal |-> Sum(Total, TxnWhere({"EXPENSE"}, shop))]

(* exportTxns, which filters by itself. *)
ExportTxns(types) ==
    {d \in Docs : Live(d) /\ docs[d].status # "HELD" /\ docs[d].type \in types}

-----------------------------------------------------------------------------
(* Money.                                                                  *)

(* The day book lists what a document has been paid, whenever that was. *)
DayBook ==
    LET moneyIn == {"SALE_INVOICE", "PAYMENT_IN", "DEBIT_NOTE"}
        moneyOut == {"CREDIT_NOTE", "PURCHASE_BILL", "PAYMENT_OUT", "EXPENSE"}
    IN  [moneyIn |-> Sum(Paid, TxnWhere(moneyIn, Wide)),
         moneyOut |-> Sum(Paid, TxnWhere(moneyOut, Wide))]

(* Fault: the payments of deleted documents are listed.                    *)
PaymentRowsAll(shop) ==
    {d \in Docs : Seen(d, shop) /\ docs[d].own > 0}

(* Payment rows of documents that are not deleted. *)
PaymentRows(shop) ==
    {d \in Docs : Live(d) /\ docs[d].status # "HELD" /\ Seen(d, shop) /\ docs[d].own > 0}

Flow(d) == MoneyEffect(docs[d])

(* Cash flow: every payment but the cheques. *)
CashFlow(shop) ==
    LET rows == {d \in PaymentRows(shop) : docs[d].method # "CHEQUE"}
    IN  [totalIn |-> Sum(Flow, {d \in rows : Inbound(docs[d].type)}),
         totalOut |-> -Sum(Flow, {d \in rows : ~Inbound(docs[d].type)})]

RowsOf(kinds) == {m \in Transfers : transfers[m].kind \in kinds}

(* What transfers or loans added to an account. *)
MovedBy(kinds, a) == Sum(LAMBDA m : TransferEffect(transfers[m], a), RowsOf(kinds))

Loans == {"LOAN", "REPAYMENT"}

(* What is in an account that no document brought there. *)
OtherMoney(a) == Opening0[a] + MovedBy({"TRANSFER"} \cup Loans, a)

(* The entries of an account: payments that name it, transfers, and        *)
(* cheques deposited in it.                                                *)
AccountStatement(a) ==
    Sum(Flow, {d \in PaymentRows(Wide) : docs[d].acct = a})
    + MovedBy({"TRANSFER"}, a)
    + Sum(Flow, {d \in Docs : cheques[d].status = "CLOSED" /\ cheques[d].account = a})

(* LoanAccount.currentBalance, over the loans of the business. *)
LoanBalance ==
    LET Amount(m) == transfers[m].amount
    IN  Sum(Amount, RowsOf({"LOAN"})) - Sum(Amount, RowsOf({"REPAYMENT"}))

(* The items or parties a shop sees. *)
OwnedBy(shop, things) == {x \in things : shop = Wide \/ Home[x] = shop}

(* cash-bank summary, which is also what the dashboard and the trial       *)
(* balance show: accounts by kind, dues, cheques not yet deposited; the    *)
(* loans are left to LoanBalance.                                          *)
CashBankSummary(shop) ==
    LET mine == {a \in accounts : shop = Wide \/ a.shop = shop}
        Balance(a) == accountBalance[a]
        Positive(p) == IF partyBalance[p] > 0 THEN partyBalance[p] ELSE 0
        Negative(p) == IF partyBalance[p] < 0 THEN -partyBalance[p] ELSE 0
        open == {d \in Docs : cheques[d].status = "OPEN" /\ Seen(d, shop)}
        In(d) == IF Flow(d) > 0 THEN Flow(d) ELSE 0
        Out(d) == IF Flow(d) < 0 THEN -Flow(d) ELSE 0
    IN  [totalBalance |-> Sum(Balance, mine),
         totalReceivable |-> Sum(Positive, OwnedBy(shop, Parties)),
         totalPayable |-> Sum(Negative, OwnedBy(shop, Parties)),
         openChequesReceived |-> Sum(In, open),
         openChequesPaid |-> Sum(Out, open)]

-----------------------------------------------------------------------------
(* Profit and tax.                                                         *)

BillWiseProfit(shop) ==
    LET Profit(d) == Sign(d) * (Total(d) - LineTax(d)) - Sign(d) * LineCost(d)
    IN  Sum(Profit, TxnWhere(Sales, shop))

PartyWiseProfit(shop, p) ==
    LET Profit(d) == Sign(d) * (Total(d) - LineTax(d)) - Sign(d) * LineCost(d)
    IN  Sum(Profit, {d \in TxnWhere(Sales, shop) : docs[d].party = p})

(* From the lines: a discount on the bill is not seen. *)
ItemWiseProfit(shop, i) ==
    LET Profit(d) == Sign(d) * (LineTotal(d) - LineTax(d)) - Sign(d) * LineCost(d)
    IN  Sum(Profit, {d \in TxnWhere(Sales, shop) : docs[d].item = i})

(* What profitAndLoss shows for a cost of the goods sold. *)
Profits(shop, cogs) ==
    LET sales == TxnWhere({"SALE_INVOICE"}, shop)
        returns == TxnWhere({"CREDIT_NOTE"}, shop)
        gross == Sum(Total, sales) - Sum(Total, returns) - Sum(LineTax, sales) - cogs
    IN  [grossSales |-> Sum(Total, sales), saleReturns |-> Sum(Total, returns),
         grossProfit |-> gross,
         netProfit |-> gross - Sum(Total, TxnWhere({"EXPENSE"}, shop))]

(* Fault: goods that came back stay in the cost of the goods sold.         *)
ProfitAndLossSoldForGood(shop) ==
    Profits(shop, Sum(LineCost, TxnWhere({"SALE_INVOICE"}, shop)))

(* The tax of the sales is taken off, that of the returns is not. *)
ProfitAndLoss(shop) ==
    Profits(shop, Sum(LineCost, TxnWhere({"SALE_INVOICE"}, shop))
                  - Sum(LineCost, TxnWhere({"CREDIT_NOTE"}, shop)))

(* gstr1 over the sales, gstr2 over the purchases. *)
Gst(types, shop) ==
    LET Tax(d) == Sign(d) * LineTax(d)
        Taxable(d) == Sign(d) * (Total(d) - LineTax(d))
    IN  [taxable |-> Sum(Taxable, TxnWhere(types, shop)),
         totalTax |-> Sum(Tax, TxnWhere(types, shop))]

(* hsnSummary and taxRateReport, from the lines. *)
HsnSummary(types, shop) ==
    LET Tax(d) == Sign(d) * LineTax(d)
        Taxable(d) == Sign(d) * (LineTotal(d) - LineTax(d))
    IN  [taxable |-> Sum(Taxable, TxnWhere(types, shop)),
         totalTax |-> Sum(Tax, TxnWhere(types, shop))]

StockSummary(shop) ==
    LET Everywhere(i) == currentStock[i]
        Here(i) == stockLevel[<<shop, i>>]
    IN  IF shop = Wide THEN Sum(Everywhere, Items) ELSE Sum(Here, OwnedBy(shop, Items))

(* salePurchaseByParty and byItemCategory: bills only, no returns. *)
SalePurchaseByParty(shop, p) ==
    [sale |-> Sum(Total, {d \in TxnWhere({"SALE_INVOICE"}, shop) : docs[d].party = p}),
     purchase |-> Sum(Total, {d \in TxnWhere({"PURCHASE_BILL"}, shop) : docs[d].party = p})]

ByItemCategory(type, shop, category) ==
    Sum(LineTotal, {d \in TxnWhere({type}, shop) : docs[d].item \in category})

(* The value of what is on the shelves, at what it costs now. *)
StockValue == LET Value(i) == currentStock[i] * UnitCost[i] IN Sum(Value, Items)

(* The closing stock is among the accounts. *)
TrialBalance ==
    LET book == CashBankSummary(Wide)
        Of(type) == Sum(Total, TxnWhere({type}, Wide))
        Above(n) == IF n > 0 THEN n ELSE 0
    IN  [totalDebit |-> Above(book.totalBalance) + book.totalReceivable + StockValue
                        + Of("CREDIT_NOTE") + Of("PURCHASE_BILL") + Of("EXPENSE"),
         totalCredit |-> Above(-book.totalBalance) + book.totalPayable
                         + LoanBalance + Of("SALE_INVOICE") + Of("DEBIT_NOTE")]

(* The owner's capital is what is left of the equity. *)
BalanceSheet ==
    LET book == CashBankSummary(Wide)
        equity == book.totalBalance + book.totalReceivable + StockValue
                  - book.totalPayable - LoanBalance
        retained == ProfitAndLoss(Wide).netProfit
    IN  [equity |-> equity, retainedEarnings |-> retained, ownersCapital |-> equity - retained]

-----------------------------------------------------------------------------
(* Properties.                                                             *)

Views == Shops \cup {Wide}

(* What a discount on the bills takes off the lines, returns included. *)
BillDiscounts(types, shop) ==
    LET Off(d) == Sign(d) * (LineTotal(d) - Total(d))
    IN  Sum(Off, TxnWhere(types, shop))

(* Nine screens show the sales of a shop and filter them on their own;    *)
(* they agree ("otherwise the POS Today's Sales header ... disagrees with  *)
(* the dashboard/reports", listTxns).  The profit reports agree up to two  *)
(* known gaps: discounts on bills, which no line carries, and the tax of   *)
(* returns, which profitAndLoss leaves in.                                 *)
SurfacesAgree ==
    \A shop \in Views :
        LET sale == SaleReport(shop).totalSale
            returned == TxnWhere({"CREDIT_NOTE"}, shop)
            OfParty(p) == PartyWiseProfit(shop, p)
            OfItem(i) == ItemWiseProfit(shop, i)
            profit == BillWiseProfit(shop)
        IN  /\ sale = ListTxns({"SALE_INVOICE"}, shop).totalAmount
            /\ sale = DashboardSales(shop).monthSale
            /\ sale = DailyLocal(shop).salesRevenue
            /\ sale = ProfitAndLoss(shop).grossSales
            /\ sale = Sum(LAMBDA p : SalePurchaseByParty(shop, p).sale, Parties \cup {None})
            /\ sale = ByItemCategory("SALE_INVOICE", shop, Items)
                      - BillDiscounts({"SALE_INVOICE"}, shop)
            /\ shop = Wide => sale = Sum(Total, ExportTxns({"SALE_INVOICE"}))
            /\ profit = Sum(OfParty, Parties \cup {None})
            /\ profit = Sum(OfItem, Items) - BillDiscounts(Sales, shop)
            /\ profit = ProfitAndLoss(shop).grossProfit + Sum(LineTax, returned)
            /\ Gst(Sales, shop).totalTax = HsnSummary(Sales, shop).totalTax
            /\ Gst(Sales, shop).taxable
                 = HsnSummary(Sales, shop).taxable - BillDiscounts(Sales, shop)

(* What an invoice or a note leaves due when nobody is down for it: no     *)
(* party owes it, or is owed it.                                           *)
UnnamedDues ==
    LET Claim(d) == IF docs[d].type \in {"SALE_INVOICE", "DEBIT_NOTE"} THEN Due(d) ELSE -Due(d)
    IN  Sum(Claim, {d \in TxnWhere(Sales \cup Purchases, Wide) : docs[d].party = None})

(* Goods on paper that did not reach the shelf, or did not leave it: what  *)
(* applyStock counted a line for is not its quantity.                      *)
Miscounts ==
    LET Off(d) == UnitCost[docs[d].item]
                  * (StockMove(docs[d], docs[d].item) - StockEffect(docs[d], docs[d].item))
    IN  Sum(Off, TxnWhere(Sales \cup Purchases, Wide))

(* Money the owner or a lender moved, less what is still lent: openings,   *)
(* adjustments, and loans that went to no account or were paid from none.  *)
NotTraded == Sum(OtherMoney, accounts) - LoanBalance

(* Trading leaves the owner's capital alone, but for what the sheet does   *)
(* not know: tax that is owed on the sales, purchases above or below the   *)
(* cost price, cheques not yet deposited, dues without a party, expenses   *)
(* not yet paid, lines that were not counted as they are, and money that   *)
(* is not traded.  The trial balance is off by the money among these and   *)
(* by the closing stock, which does not belong in it.  A deletion that     *)
(* takes back another quantity than was posted breaks the sheet for good.  *)
FinancialsAddUp ==
    LET opening == Sum(LAMBDA i : Stock0[i] * UnitCost[i], Items)
        Surplus(d) == Sign(d) * (LineCost(d) - Total(d))
        book == CashBankSummary(Wide)
        unknown == Sum(Due, TxnWhere({"EXPENSE"}, Wide)) - UnnamedDues
                   - (book.openChequesReceived - book.openChequesPaid) + NotTraded
    IN  /\ miscounted = {} =>
             BalanceSheet.ownersCapital
               = opening + Sum(LineTax, TxnWhere({"SALE_INVOICE"}, Wide))
                 + Sum(Surplus, TxnWhere(Purchases, Wide)) + Miscounts + unknown
        /\ TrialBalance.totalDebit - TrialBalance.totalCredit = StockValue + unknown

(* The statement of an account adds up to its balance, through deposits,   *)
(* reopened cheques, deletes, restores and transfers ("so the account's    *)
(* Statement shows this payment", applyPayments), but for what it does not *)
(* list: the opening balance and the loans.                                *)
StatementsAddUp ==
    \A a \in AccountIds :
        AccountStatement(a) + Opening0[a] + MovedBy(Loans, a) = accountBalance[a]

(* The cash flow of a shop, the cheques deposited with it and the money    *)
(* that was not traded are what is in the accounts of the shop, and the    *)
(* stock and dues the shops see are those of the business: nothing leaks   *)
(* into another shop, whatever an edit makes of an item.                   *)
ShopsAddUp ==
    /\ \A s \in Shops :
         CashFlow(s).totalIn - CashFlow(s).totalOut
         + Sum(Flow, {d \in Docs : cheques[d].status = "CLOSED" /\ cheques[d].account.shop = s})
         + Sum(OtherMoney, {a \in accounts : a.shop = s})
           = CashBankSummary(s).totalBalance
    /\ StockSummary(Wide) = Sum(StockSummary, Shops)
    /\ CashBankSummary(Wide).totalReceivable
         = Sum(LAMBDA s : CashBankSummary(s).totalReceivable, Shops)

(* The day book counts a settled bill twice: once at the bill, whose paid  *)
(* amount has grown, and once at the payment.  Beyond what the cash flow   *)
(* and the cheques show it has exactly the allocations of live payments.   *)
DayBookCountsSettlements ==
    LET Settled(types) ==
          Sum(LAMBDA p : Sum(LAMBDA e : IF docs[e].type \in types THEN alloc[p][e] ELSE 0,
                             Docs), {p \in Docs : Live(p)})
        ByCheque(inbound) ==
          Sum(LAMBDA d : docs[d].own,
              {d \in PaymentRows(Wide) : docs[d].method = "CHEQUE"
                                         /\ Inbound(docs[d].type) = inbound})
    IN  /\ DayBook.moneyIn = CashFlow(Wide).totalIn + ByCheque(TRUE)
                             + Settled({"SALE_INVOICE"})
        /\ DayBook.moneyOut = CashFlow(Wide).totalOut + ByCheque(FALSE)
                              + Settled({"PURCHASE_BILL"})

(* Receivables less payables are the unpaid parts of bills and notes less  *)
(* what payments have not settled, but for the dues nobody is down for:    *)
(* the party list, the bill reports and the payment rows tell one story.   *)
DuesAreExplained ==
    LET loose(types) ==
          Sum(LAMBDA p : Total(p) - Sum(LAMBDA e : alloc[p][e], Docs), TxnWhere(types, Wide))
        book == CashBankSummary(Wide)
    IN  book.totalReceivable - book.totalPayable
          = SaleReport(Wide).totalBalance + Sum(Due, TxnWhere({"DEBIT_NOTE"}, Wide))
            - PurchaseReport(Wide).totalBalance - Sum(Due, TxnWhere({"CREDIT_NOTE"}, Wide))
            - loose({"PAYMENT_IN"}) + loose({"PAYMENT_OUT"}) - UnnamedDues
=============================================================================

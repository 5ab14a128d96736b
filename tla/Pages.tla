------------------------------- MODULE Pages -------------------------------
(***************************************************************************)
(* The screens of the web app, each as the queries it subscribes to and    *)
(* the mutations it offers, with the query keys each mutation invalidates  *)
(* when it succeeds.  Layout, forms and wording are left out.              *)
(***************************************************************************)
EXTENDS Routes

\* A query under a key that does not name the active shop, one under a key
\* that does, and one under a key that names an entity picked on the page.
Query(key, route)       == [key |-> key, route |-> route, names |-> "nothing"]
ShopQuery(key, route)   == [key |-> key, route |-> route, names |-> "shop"]
EntityQuery(key, route) == [key |-> key, route |-> route, names |-> "entity"]

\* A mutation: the keys it invalidates ({Everything} stands for a bare
\* invalidateQueries()), the keys whose data it is made from, those whose
\* dialog it closes, and those of an entity that is no more.
Everything == "everything"
Act(route, keys) ==
  [route |-> route, keys |-> keys, uses |-> {}, closes |-> {}, ends |-> {}]
ActAll(route) == Act(route, {Everything})
ActOn(route, keys, uses, closes) ==
  [route |-> route, keys |-> keys, uses |-> uses, closes |-> closes,
   ends |-> {}]
Removal(route, keys, uses, ends) ==
  [ActOn(route, keys, uses, ends) EXCEPT !.ends = ends]

\* A page: what it always shows, the panes it can open over that, its
\* mutations.
Page(always, panes, acts) ==
  [always |-> always, panes |-> panes \union {{}}, acts |-> acts]

\* Every query a page may make, and those it makes with a dialog open that
\* subscribes to the keys given.
Queries(page) == page.always \union UNION page.panes
Displayed(page, keys) ==
  page.always \union {q \in UNION page.panes : q.key \in keys}

-----------------------------------------------------------------------------
(* The frame around every page: the shop switcher and the bell.            *)

ShopSwitcher == {Query("shops", BranchRoutes.findAll)}
NotificationBell == {Query("notifications", NotificationRoutes.findAll)}
MarkRead == Act(NotificationRoutes.markRead, {"notifications"})
Frame == ShopSwitcher \union NotificationBell

-----------------------------------------------------------------------------
(* The lists and forms of documents, driven by TXN_META.                   *)

Meta(list, create, convert, hasLines) ==
  [list |-> list, create |-> create, convert |-> convert, hasLines |-> hasLines]

TXN_META ==
  [SALE_INVOICE     |-> Meta(SaleInvoiceRoutes.listInvoices,
                             SaleInvoiceRoutes.createInvoice, {}, TRUE),
   CREDIT_NOTE      |-> Meta(SaleInvoiceRoutes.listCreditNotes,
                             SaleInvoiceRoutes.createCreditNote, {}, TRUE),
   ESTIMATE         |-> Meta(SaleDocumentRoutes.listEstimates,
                             SaleDocumentRoutes.createEstimate,
                             {SaleDocumentRoutes.convertEstimate}, TRUE),
   SALE_ORDER       |-> Meta(SaleDocumentRoutes.listSaleOrders,
                             SaleDocumentRoutes.createSaleOrder,
                             {SaleDocumentRoutes.convertSaleOrder}, TRUE),
   DELIVERY_CHALLAN |-> Meta(SaleDocumentRoutes.listChallans,
                             SaleDocumentRoutes.createChallan,
                             {SaleDocumentRoutes.convertChallan}, TRUE),
   PAYMENT_IN       |-> Meta(SaleDocumentRoutes.listPaymentsIn,
                             SaleDocumentRoutes.createPaymentIn, {}, FALSE),
   PURCHASE_BILL    |-> Meta(PurchaseRoutes.listBills,
                             PurchaseRoutes.createBill, {}, TRUE),
   DEBIT_NOTE       |-> Meta(PurchaseRoutes.listDebitNotes,
                             PurchaseRoutes.createDebitNote, {}, TRUE),
   PURCHASE_ORDER   |-> Meta(PurchaseRoutes.listOrders,
                             PurchaseRoutes.createOrder,
                             {PurchaseRoutes.receiveOrder}, TRUE),
   PAYMENT_OUT      |-> Meta(PurchaseRoutes.listPaymentsOut,
                             PurchaseRoutes.createPaymentOut, {}, FALSE),
   EXPENSE          |-> Meta(ExpenseRoutes.list, ExpenseRoutes.create, {},
                             FALSE)]

ReturnDialog == {Query("invoice-detail", TxnRoutes.get)}
ReplaceStep == {Query("exchange-catalog", ItemRoutes.list)}
Returns(keys) ==
  {ActOn(SaleInvoiceRoutes.refund, keys, {"invoice-detail"},
         {"invoice-detail", "exchange-catalog"}),
   ActOn(SaleInvoiceRoutes.exchange, keys,
         {"invoice-detail", "exchange-catalog"},
         {"invoice-detail", "exchange-catalog", "recent-invoices"})}

TxnListPage(meta, returnable) ==
  Page({Query("txns", meta.list)},
       IF returnable
         THEN {ReturnDialog, ReturnDialog \union ReplaceStep} ELSE {},
       {ActAll(TxnRoutes.remove)}
         \union {ActAll(r) : r \in meta.convert}
         \union IF returnable THEN Returns({Everything}) ELSE {})

\* A new document, or the one its source document becomes.
saveMutation(meta) == {ActAll(r) : r \in {meta.create} \union meta.convert}
addExpenseCategory ==
  Act(ExpenseRoutes.createCategory, {"expense-categories"})

TxnForm(meta, isExpense) ==
  LET items == Query("items-all", ItemRoutes.list)
      categories == Query("expense-categories", ExpenseRoutes.listCategories)
  IN  Page({Query("parties-all", PartyRoutes.list),
            Query("bank-accounts", CashBankRoutes.listAccounts)}
             \union (IF meta.hasLines THEN {items} ELSE {})
             \union (IF isExpense THEN {categories} ELSE {}),
           {},
           saveMutation(meta)
             \union IF isExpense THEN {addExpenseCategory} ELSE {})

ExpensesPage ==
  Page({Query("expenses", ExpenseRoutes.list)}, {},
       {Act(TxnRoutes.remove, {"expenses"})})

-----------------------------------------------------------------------------
(* Items and parties.                                                      *)

\* Mutated form: the open item is forgotten.
invalidateItemLists == {"items", "items-summary"}

invalidateItems == {"items", "items-summary", "item"}

addCategory == Act(CategoryRoutes.create, {"categories"})

\* The image of the open item's barcode, when it has one.
BarcodeTagPanel == EntityQuery("barcode-image", ItemRoutes.barcodeImage)
ItemDetail == {Query("item", ItemRoutes.get), BarcodeTagPanel}

ItemsPage ==
  Page({Query("items", ItemRoutes.list),
        Query("items-summary", ItemRoutes.summary)},
       {ItemDetail,
        ItemDetail \union {Query("item-txns", ItemRoutes.transactions)},
        {Query("item-units", ItemRoutes.listUnits),
         Query("categories", CategoryRoutes.findAll)}},
       {Act(ItemRoutes.create, invalidateItems),
        ActOn(ItemRoutes.update, invalidateItems, {"item"}, {}),
        Removal(ItemRoutes.remove, invalidateItems, {"item"},
                {"item", "item-txns", "barcode-image"}),
        ActOn(ItemRoutes.adjust, invalidateItems, {"item"}, {}),
        ActOn(ItemRoutes.assignBarcode, invalidateItems, {"item"}, {}),
        addCategory})

\* A payment in or out for the party on display, by the sign of its balance.
submitPayment ==
  {ActOn(r, {Everything}, {"party"}, {}) :
     r \in {SaleDocumentRoutes.createPaymentIn, PurchaseRoutes.createPaymentOut}}

PartiesPage ==
  Page({Query("parties", PartyRoutes.list),
        Query("parties-summary", PartyRoutes.summary),
        Query("bank-accounts", CashBankRoutes.listAccounts)},
       {{Query("party", PartyRoutes.get)},
        {Query("party", PartyRoutes.get),
         Query("party-txns", PartyRoutes.transactions)},
        {Query("party", PartyRoutes.get),
         Query("party-ledger", PartyRoutes.ledger)}},
       {Act(PartyRoutes.create, {"parties", "parties-summary", "party"}),
        ActOn(PartyRoutes.update, {"parties", "parties-summary", "party"},
              {"party"}, {}),
        Removal(PartyRoutes.remove, {"parties", "parties-summary"}, {"party"},
                {"party", "party-txns", "party-ledger"})}
         \union submitPayment)

-----------------------------------------------------------------------------
(* Money, payroll, reminders.                                              *)

CashBankPage ==
  Page({ShopQuery("cash-bank-summary", CashBankRoutes.summary)},
       {{ShopQuery("cash-bank-transfers", CashBankRoutes.listTransfers)},
        {ShopQuery("cash-bank-statement", CashBankRoutes.statement)}},
       {Act(CashBankRoutes.createAccount, {"cash-bank-summary"}),
        Act(CashBankRoutes.createTransfer,
            {"cash-bank-summary", "cash-bank-transfers"})})

LoansPage ==
  Page({Query("loans", CashBankRoutes.listLoans)}, {},
       {Act(CashBankRoutes.createLoan, {"loans", "cash-bank-summary"})})

ChequesPage ==
  Page({Query("cheques", CashBankRoutes.listCheques),
        Query("cash-bank-accounts", CashBankRoutes.listAccounts)}, {},
       {Act(CashBankRoutes.settleCheque, {"cheques", "cash-bank-summary"}),
        Act(CashBankRoutes.reopenCheque, {"cheques"})})

PayrollPage ==
  Page({Query("branches", BranchRoutes.findAll),
        EntityQuery("employees", PayrollRoutes.employees),
        EntityQuery("payrolls", PayrollRoutes.list),
        EntityQuery("payroll-summary", PayrollRoutes.summary)},
       {{Query("bank-accounts-payroll", CashBankRoutes.listAccounts)}},
       {Act(PayrollRoutes.createEmployee, {"employees"}),
        Act(PayrollRoutes.generate, {"payrolls"}),
        Act(PayrollRoutes.pay, {"payrolls", "payroll-summary", "dashboard",
                                "cash-bank-summary"}),
        Act(PayrollRoutes.updateLine, {"payrolls"}),
        Act(PayrollRoutes.recordAdvance, {"employees"})})

RemindersPage ==
  Page({ShopQuery("payment-reminders", ReminderRoutes.list)}, {},
       {Act(ReminderRoutes.generate, {"payment-reminders"}),
        Act(ReminderRoutes.reschedule, {"payment-reminders"}),
        Act(ReminderRoutes.send, {"payment-reminders"})})

-----------------------------------------------------------------------------
(* The till.                                                               *)

usePosCatalog == ShopQuery("pos-catalog", ItemRoutes.posCatalog)
HeldOrdersPanel == ShopQuery("held-invoices", SaleInvoiceRoutes.listHeld)
RecentOrdersPanel ==
  {ShopQuery("recent-invoices", SaleInvoiceRoutes.listInvoices)}
CustomerPicker == {Query("parties-search", PartyRoutes.list),
                   Query("party", PartyRoutes.get)}
CreateCustomer == Act(PartyRoutes.create, {"parties", "parties-search"})

Checkout ==
  {Act(r, {"held-invoices", "recent-invoices", "pos-catalog"}) :
     r \in {SaleInvoiceRoutes.createInvoice, SaleInvoiceRoutes.resumeHeld}}

PosPage ==
  Page({Query("business-me", BusinessRoutes.getProfile),
        ShopQuery("pos-today-sales", SaleInvoiceRoutes.listInvoices),
        usePosCatalog, HeldOrdersPanel},
       {RecentOrdersPanel, RecentOrdersPanel \union ReturnDialog,
        RecentOrdersPanel \union ReturnDialog \union ReplaceStep,
        CustomerPicker},
       Checkout \union Returns({"recent-invoices"}) \union {CreateCustomer})

-----------------------------------------------------------------------------
(* Overview, reports, settings, staff, shops, utilities.                   *)

DashboardPage == Page({Query("dashboard", ReportRoutes.dashboard)}, {}, {})

\* Files: what the screen holds in its cache is not touched.
downloads(types) == {Act(ExportRoutes[t], {}) : t \in types}

ReportsPage ==
  Page({}, {{Query("report", ReportRoutes.dashboard)},
            {Query("report sale", ReportRoutes.sale)},
            {Query("report day-book", ReportRoutes.dayBook)},
            {Query("report stock-summary", ReportRoutes.ofStock)},
            {Query("report pnl", ReportRoutes.financial)}},
       downloads({"sales", "parties", "inventory", "gstr1Json"}))

\* The bill designer reads and saves the same settings as the page it is on.
ThermalFormatCard ==
  Page({Query("firm-settings", SettingsRoutes.getFirm)}, {},
       {Act(SettingsRoutes.updateFirm, {"firm-settings"})})

SettingsPage ==
  Page(ThermalFormatCard.always, {},
       ThermalFormatCard.acts \union
       {Act(SettingsRoutes.updateFirm, {"firm-settings"}),
        Act(BusinessRoutes.update, {"firm-settings"}),
        Act(SettingsRoutes.updateNumbering, {"firm-settings"})})

UsersPage ==
  Page({Query("users", UserRoutes.findAll),
        Query("branches", BranchRoutes.findAll)}, {},
       {Act(r, {"users"}) :
          r \in {UserRoutes.create, UserRoutes.setStatus, UserRoutes.remove,
                 UserRoutes.approve, UserRoutes.purgeOthers}}
         \union {Act(UserRoutes.setPassword, {})})

AccountPage ==
  Page({Query("verify-email-status", AuthRoutes.verificationStatus)}, {},
       {Act(AuthRoutes.resendVerification, {"verify-email-status"}),
        Act(AuthRoutes.changePassword, {})})

ShopsPage ==
  Page({Query("shops", BranchRoutes.findAll),
        EntityQuery("shop-metrics", BranchRoutes.getMetrics)}, {},
       {ActAll(BranchRoutes.create), ActAll(BranchRoutes.remove)})

handleImport == {Act(PartyRoutes.import, {"parties"}),
                 Act(ItemRoutes.import, {"items"})}

UtilitiesPage ==
  Page({Query("recycle-bin", TxnRoutes.recycleBin)}, {},
       {Act(UtilityRoutes.verifyData, {}),
        Act(TxnRoutes.restore, {"recycle-bin"})} \union handleImport
       \union downloads({"parties", "items", "expenses", "inventory"}))

-----------------------------------------------------------------------------
(* The pages by address, and who is offered them.                          *)

SalePapers == {"SALE_INVOICE", "CREDIT_NOTE", "PAYMENT_IN", "ESTIMATE",
               "SALE_ORDER", "DELIVERY_CHALLAN"}
PurchasePapers == {"PURCHASE_BILL", "DEBIT_NOTE", "PAYMENT_OUT",
                   "PURCHASE_ORDER"}

Single ==
  [dashboard |-> DashboardPage, parties |-> PartiesPage, items |-> ItemsPage,
   expenses |-> ExpensesPage, cashBank |-> CashBankPage,
   cheques |-> ChequesPage, loans |-> LoansPage, pos |-> PosPage,
   reports |-> ReportsPage, reminders |-> RemindersPage,
   utilities |-> UtilitiesPage, shops |-> ShopsPage, payroll |-> PayrollPage,
   users |-> UsersPage, settings |-> SettingsPage, account |-> AccountPage]

At(name) == <<"page", name>>
ListOf(type) == <<"list", type>>
FormOf(type) == <<"new", type>>
PageAt(a) ==
  CASE a[1] = "page" -> Single[a[2]]
    [] a[1] = "list" -> TxnListPage(TXN_META[a[2]], a[2] = "SALE_INVOICE")
    [] a[1] = "new"  -> TxnForm(TXN_META[a[2]], a[2] = "EXPENSE")

\* A menu entry: the permissions of which one opens it, the roles it is
\* hidden from all the same, the addresses it leads to.
Entry(needs, hideForRoles, addresses) ==
  [needs |-> needs, hideForRoles |-> hideForRoles, addresses |-> addresses]

NAV ==
  {Entry({}, {"BILLER"}, {At("dashboard")}),
   Entry({"pos:sell"}, {"BILLER"}, {At("parties")}),
   Entry({"inventory:view"}, {}, {At("items")}),
   Entry({"pos:sell"}, {"BILLER"},
         {ListOf("SALE_INVOICE"), ListOf("PAYMENT_IN"),
          ListOf("CREDIT_NOTE")}),
   Entry({"inventory:view"}, {},
         {ListOf("PURCHASE_BILL"), ListOf("PAYMENT_OUT"),
          ListOf("DEBIT_NOTE")}),
   Entry({"pos:sell"}, {"BILLER"},
         {ListOf("ESTIMATE"), ListOf("SALE_ORDER"), ListOf("PURCHASE_ORDER"),
          ListOf("DELIVERY_CHALLAN")}),
   Entry({"expense:view"}, {}, {At("expenses")}),
   Entry({"reports:view"}, {},
         {At("cashBank"), At("cheques"), At("loans")}),
   Entry({"pos:sell"}, {}, {At("pos")}),
   Entry({"reports:sales_view"}, {}, {At("reports")}),
   Entry({"reports:view"}, {}, {At("reminders")}),
   Entry({"settings:manage"}, {}, {At("utilities")})}

MORE_NAV ==
  {Entry({"branch:manage"}, {}, {At("shops")}),
   Entry({"payroll:view"}, {}, {At("payroll")}),
   Entry({"user:manage"}, {"ADMIN"}, {At("users")}),
   Entry({"settings:manage"}, {}, {At("settings")})}

QUICK_ACTIONS ==
  {Entry({"pos:sell"}, {"BILLER"}, {FormOf("SALE_INVOICE")}),
   Entry({"inventory:manage"}, {}, {FormOf("PURCHASE_BILL")}),
   Entry({"pos:sell"}, {"BILLER"}, {FormOf("PAYMENT_IN")}),
   Entry({"expense:manage"}, {}, {FormOf("PAYMENT_OUT")})}

\* usePermissions().has: one of the entry's permissions is enough.
has(role, needs) == needs \intersect ROLE_PERMISSIONS[role] # {}
visible(role, entry) ==
  /\ entry.needs = {} \/ has(role, entry.needs)
  /\ role \notin entry.hideForRoles

\* The lockdown: a biller whose address is outside the till, the reports and
\* the sale pages is sent back to the till.
billerShopAllowed ==
  {At("pos"), At("reports")}
    \union {ListOf(t) : t \in SalePapers} \union {FormOf(t) : t \in SalePapers}

\* Every list links to its form; a biller also reaches the sale pages by
\* their address.
Offered(role) ==
  LET listed == UNION {e.addresses :
                         e \in {n \in NAV \union MORE_NAV \union QUICK_ACTIONS :
                                  visible(role, n)}}
      linked == {FormOf(t) : t \in {u \in SalePapers \union PurchasePapers :
                                      ListOf(u) \in listed}}
                  \union IF At("expenses") \in listed
                           THEN {FormOf("EXPENSE")} ELSE {}
  IN  IF role = "BILLER" THEN billerShopAllowed
      ELSE listed \union linked
             \union IF At("settings") \in listed THEN {At("account")} ELSE {}
=============================================================================

------------------------------ MODULE Routes ------------------------------
(***************************************************************************)
(* The API as its callers meet it: for every handler of the controllers,   *)
(* the permissions it demands, the tables its answer is read from, the     *)
(* tables it writes and whether the answer is limited to the shop of the   *)
(* request.  A service's method is its effect on the tables; the           *)
(* controllers' handlers are those effects behind permissions.  Tables are *)
(* named coarsely: "txn" is a document with its lines, payments and        *)
(* allocations, "held" the sales put aside, "deleted txn" the recycle bin, *)
(* "ledger" the entries documents make in the party ledger, "opening" the  *)
(* entry a party starts with, "stock" levels and movements, "numbering"    *)
(* the sequences document numbers are drawn from.                          *)
(***************************************************************************)
EXTENDS FiniteSets

\* What a method does: it reads what belongs to the shop of the request, reads
\* of the whole business, or writes.
ShopRead(tables) == [reads |-> tables, writes |-> {}, perShop |-> TRUE]
Read(tables) == [reads |-> tables, writes |-> {}, perShop |-> FALSE]
Write(tables) == [reads |-> {}, writes |-> tables, perShop |-> FALSE]

\* A handler: an effect for those who hold the permissions.
Route(needs, effect) ==
  [needs |-> needs, reads |-> effect.reads, writes |-> effect.writes,
   perShop |-> effect.perShop]
ShopGet(needs, tables) == Route(needs, ShopRead(tables))
Get(needs, tables) == Route(needs, Read(tables))
Do(needs, tables) == Route(needs, Write(tables))

-----------------------------------------------------------------------------
(* What a role may do (ROLE_PERMISSIONS).                                  *)

CounterWork == {"pos:sell", "pos:refund", "pos:discount", "pos:hold_order"}
ShopWork ==
  CounterWork \union
    {"branch:manage", "user:manage", "pos:price_override", "inventory:view",
     "inventory:manage", "inventory:adjust", "expense:view", "expense:manage",
     "expense:approve", "reports:sales_view", "reports:view", "reports:export",
     "audit:view", "settings:manage"}
PayrollWork == {"payroll:view", "payroll:manage"}

ROLE_PERMISSIONS ==
  [ADMIN          |-> ShopWork \union PayrollWork \union {"business:manage"},
   BRANCH_MANAGER |-> ShopWork,
   BILLER         |-> CounterWork \union {"reports:sales_view"},
   ACCOUNTANT     |-> PayrollWork \union
                        {"expense:view", "expense:manage", "expense:approve",
                         "reports:sales_view", "reports:view",
                         "reports:export"}]

Roles == DOMAIN ROLE_PERMISSIONS

\* PermissionsGuard: every permission the handler names must be held.
Admits(role, route) == route.needs \subseteq ROLE_PERMISSIONS[role]

\* BranchScopeGuard: only those who manage the business choose the shop by
\* their header; everyone else works in the shop of the account.
MaySwitch(role) == "business:manage" \in ROLE_PERMISSIONS[role]
ResolvedShop(role, header, home) == IF MaySwitch(role) THEN header ELSE home

-----------------------------------------------------------------------------
(* The tables moved by posting a document, and by one that is only         *)
(* recorded (an estimate, an order, a challan: an advance is still banked).*)

Moved == {"txn", "party", "ledger", "stock", "account", "cheque"}
Posted == Moved \union {"numbering"}
Recorded == {"txn", "account", "cheque", "numbering"}

SaleInvoiceRoutes ==
  [listInvoices     |-> ShopGet({"pos:sell"}, {"txn"}),
   createInvoice    |-> Do({"pos:sell"}, Posted \union {"held"}),
   listHeld         |-> ShopGet({"pos:hold_order"}, {"held"}),
   resumeHeld       |-> Do({"pos:hold_order"}, Posted \union {"held"}),
   refund           |-> Do({"pos:refund"}, Posted),
   exchange         |-> Do({"pos:refund"}, Posted),
   listCreditNotes  |-> ShopGet({"pos:sell"}, {"txn"}),
   createCreditNote |-> Do({"pos:refund"}, Posted)]

SaleDocumentRoutes ==
  [listEstimates    |-> ShopGet({"pos:sell"}, {"txn"}),
   createEstimate   |-> Do({"pos:sell"}, Recorded),
   convertEstimate  |-> Do({"pos:sell"}, Posted),
   listSaleOrders   |-> ShopGet({"pos:sell"}, {"txn"}),
   createSaleOrder  |-> Do({"pos:sell"}, Recorded),
   convertSaleOrder |-> Do({"pos:sell"}, Posted),
   listChallans     |-> ShopGet({"pos:sell"}, {"txn"}),
   createChallan    |-> Do({"pos:sell"}, Recorded),
   convertChallan   |-> Do({"pos:sell"}, Posted),
   listPaymentsIn   |-> ShopGet({"pos:sell"}, {"txn"}),
   createPaymentIn  |-> Do({"pos:sell"}, Posted)]

\* A bill also moves the cost of the items on it (syncItemPurchasePrices).
PurchaseService ==
  [createBill       |-> Write(Posted \union {"item"}),
   list             |-> ShopRead({"txn"}),
   createDebitNote  |-> Write(Posted),
   createOrder      |-> Write(Recorded),
   receiveOrder     |-> Write(Posted \union {"item"}),
   createPaymentOut |-> Write(Posted)]

PurchaseController(purchase) ==
  [listBills        |-> Route({"inventory:view"}, purchase.list),
   createBill       |-> Route({"inventory:manage"}, purchase.createBill),
   listDebitNotes   |-> Route({"inventory:view"}, purchase.list),
   createDebitNote  |-> Route({"inventory:manage"}, purchase.createDebitNote),
   listOrders       |-> Route({"inventory:view"}, purchase.list),
   createOrder      |-> Route({"inventory:manage"}, purchase.createOrder),
   receiveOrder     |-> Route({"inventory:manage"}, purchase.receiveOrder),
   listPaymentsOut  |-> Route({"expense:view"}, purchase.list),
   createPaymentOut |-> Route({"expense:manage"}, purchase.createPaymentOut)]
PurchaseRoutes == PurchaseController(PurchaseService)

TxnRoutes ==
  [list       |-> ShopGet({"reports:view"}, {"txn"}),
   recycleBin |-> ShopGet({"settings:manage"}, {"deleted txn"}),
   get        |-> Get({"reports:view"}, {"txn"}),
   remove     |-> Do({"pos:sell"}, Moved \union {"deleted txn"}),
   restore    |-> Do({"settings:manage"}, Moved \union {"deleted txn"})]

ItemRoutes ==
  [list          |-> ShopGet({"inventory:view"}, {"item", "stock"}),
   summary       |-> ShopGet({"inventory:view"}, {"item", "stock"}),
   posCatalog    |-> ShopGet({"pos:sell"}, {"item", "stock", "category"}),
   listUnits     |-> Get({"inventory:view"}, {"unit"}),
   createUnit    |-> Do({"inventory:manage"}, {"unit"}),
   barcodeImage  |-> Get({"inventory:view"}, {}),
   byBarcode     |-> ShopGet({"pos:sell"}, {"item"}),
   bulkBarcodes  |-> Do({"inventory:manage"}, {"item"}),
   import        |-> Do({"inventory:manage"}, {"item", "stock"}),
   get           |-> ShopGet({"inventory:view"}, {"item", "stock"}),
   transactions  |-> Get({"inventory:view"}, {"txn"}),
   create        |-> Do({"inventory:manage"}, {"item", "stock"}),
   adjust        |-> Do({"inventory:adjust"}, {"item", "stock"}),
   assignBarcode |-> Do({"inventory:manage"}, {"item"}),
   update        |-> Do({"inventory:manage"}, {"item"}),
   remove        |-> Do({"inventory:manage"}, {"item"})]

CategoryService ==
  [findAll |-> ShopRead({"category"}),
   create  |-> Write({"category"}),
   remove  |-> Write({"category"})]

CategoryController(categories) ==
  [findAll |-> Route({"inventory:view", "pos:sell"}, categories.findAll),
   create  |-> Route({"inventory:manage"}, categories.create),
   remove  |-> Route({"inventory:manage"}, categories.remove)]
CategoryRoutes == CategoryController(CategoryService)

\* The party's own row is part of the ledger's answer; what is made of it
\* there is the opening balance alone, which nothing updates.
PartyReads ==
  [list         |-> ShopRead({"party", "group"}),
   summary      |-> ShopRead({"party"}),
   get          |-> Read({"party", "group"}),
   transactions |-> ShopRead({"txn"}),
   ledger       |-> ShopRead({"ledger"}),
   listGroups   |-> ShopRead({"group"})]

PartyWrites ==
  [create      |-> Write({"party", "opening"}),
   update      |-> Write({"party"}),
   remove      |-> Write({"party"}),
   createGroup |-> Write({"group"}),
   import      |-> Write({"party", "opening"})]

PartyController(reads, writes) ==
  [list         |-> Route({"pos:sell"}, reads.list),
   summary      |-> Route({"pos:sell"}, reads.summary),
   listGroups   |-> Route({"pos:sell"}, reads.listGroups),
   createGroup  |-> Route({"pos:sell"}, writes.createGroup),
   import       |-> Route({"settings:manage"}, writes.import),
   get          |-> Route({"pos:sell"}, reads.get),
   transactions |-> Route({"pos:sell"}, reads.transactions),
   ledger       |-> Route({"pos:sell"}, reads.ledger),
   create       |-> Route({"pos:sell"}, writes.create),
   update       |-> Route({"pos:sell"}, writes.update),
   remove       |-> Route({"settings:manage"}, writes.remove)]
PartyRoutes == PartyController(PartyReads, PartyWrites)

CashBankRoutes ==
  [listAccounts   |-> ShopGet({"reports:view"}, {"account"}),
   summary        |-> ShopGet({"reports:view"},
                              {"account", "party", "cheque", "loan"}),
   createAccount  |-> Do({"expense:manage"}, {"account"}),
   updateAccount  |-> Do({"expense:manage"}, {"account"}),
   statement      |-> Get({"reports:view"},
                          {"account", "transfer", "cheque", "txn"}),
   listTransfers  |-> ShopGet({"reports:view"}, {"transfer"}),
   createTransfer |-> Do({"expense:manage"}, {"transfer", "account"}),
   listCheques    |-> ShopGet({"reports:view"}, {"cheque"}),
   settleCheque   |-> Do({"expense:manage"}, {"cheque", "account"}),
   reopenCheque   |-> Do({"expense:manage"}, {"cheque", "account"}),
   listLoans      |-> ShopGet({"reports:view"}, {"loan"}),
   createLoan     |-> Do({"expense:manage"}, {"loan", "account"}),
   createLoanTxn  |-> Do({"expense:manage"}, {"loan", "account"})]

ExpenseService ==
  [list           |-> ShopRead({"txn"}),
   create         |-> Write(Posted),
   listCategories |-> ShopRead({"expense category", "txn"}),
   createCategory |-> Write({"expense category"}),
   byCategory     |-> ShopRead({"expense category", "txn"})]

ExpenseController(expense) ==
  [list           |-> Route({"expense:view"}, expense.list),
   create         |-> Route({"expense:manage"}, expense.create),
   listCategories |-> Route({"expense:view"}, expense.listCategories),
   createCategory |-> Route({"expense:manage"}, expense.createCategory),
   byCategory     |-> Route({"expense:view"}, expense.byCategory)]
ExpenseRoutes == ExpenseController(ExpenseService)

PayrollRoutes ==
  [employees      |-> ShopGet({"payroll:view"}, {"employee"}),
   createEmployee |-> Do({"payroll:manage"}, {"employee"}),
   updateEmployee |-> Do({"payroll:manage"}, {"employee"}),
   recordAdvance  |-> Do({"payroll:manage"}, {"employee"}),
   summary        |-> ShopGet({"payroll:view"}, {"payroll"}),
   list           |-> ShopGet({"payroll:view"}, {"payroll"}),
   generate       |-> Do({"payroll:manage"}, {"payroll", "employee"}),
   updateLine     |-> Do({"payroll:manage"}, {"payroll"}),
   pay            |-> Do({"payroll:manage"}, Posted \union {"payroll"}),
   attendance     |-> Do({"payroll:manage"}, {"attendance"}),
   getAttendance  |-> Get({"payroll:view"}, {"attendance"})]

ReportRoutes ==
  [dashboard |-> ShopGet({"reports:view"},
                         {"txn", "party", "account", "item", "stock",
                          "payroll"}),
   sale      |-> ShopGet({"reports:sales_view"}, {"txn"}),
   dayBook   |-> ShopGet({"reports:sales_view"}, {"txn"}),
   ofTxns    |-> ShopGet({"reports:view"}, {"txn"}),
   ofParties |-> ShopGet({"reports:view"}, {"party", "txn"}),
   ofStock   |-> ShopGet({"reports:view"}, {"item", "stock", "txn"}),
   financial |-> ShopGet({"reports:view"},
                         {"txn", "party", "account", "item", "stock", "loan",
                          "payroll"}),
   gst       |-> ShopGet({"reports:view"}, {"txn"}),
   orders    |-> ShopGet({"reports:view"}, {"txn"})]

\* An export is of the whole business, whichever shop asks for it.  (The
\* file of the stock is the file of the items.)
ExportService ==
  [exportTxns      |-> Read({"txn", "party"}),
   exportParties   |-> Read({"party"}),
   exportItems     |-> Read({"item", "stock", "category"}),
   exportPayroll   |-> Read({"payroll", "employee"}),
   exportExpenses  |-> Read({"txn", "expense category"}),
   exportGstr1Json |-> Read({"txn", "party", "business"})]

ExportController(exports) ==
  [txns       |-> Route({"reports:export"}, exports.exportTxns),
   parties    |-> Route({"reports:export"}, exports.exportParties),
   items      |-> Route({"reports:export"}, exports.exportItems),
   gstr1Json  |-> Route({"reports:export"}, exports.exportGstr1Json),
   sales      |-> Route({"reports:export"}, exports.exportTxns),
   inventory  |-> Route({"reports:export"}, exports.exportItems),
   payroll    |-> Route({"reports:export"}, exports.exportPayroll),
   expenses   |-> Route({"reports:export"}, exports.exportExpenses)]
ExportRoutes == ExportController(ExportService)

UserRoutes ==
  [findAll     |-> ShopGet({"user:manage"}, {"user"}),
   create      |-> Do({"user:manage"}, {"user"}),
   purgeOthers |-> Do({"business:manage"}, {"user"}),
   update      |-> Do({"user:manage"}, {"user"}),
   setStatus   |-> Do({"user:manage"}, {"user"}),
   approve     |-> Do({"business:manage"}, {"user"}),
   setPassword |-> Do({"user:manage"}, {"password"}),
   remove      |-> Do({"user:manage"}, {"user"})]

AuthRoutes ==
  [verificationStatus |-> Get({}, {"user"}),
   resendVerification |-> Do({}, {}),
   changePassword     |-> Do({}, {"password"}),
   sessions           |-> Get({}, {"user"}),
   revokeSession      |-> Do({}, {"user"})]

\* What a shop starts with: an account for its cash, categories of expenses
\* and of items, and its own numbering.
bootstrapShopDefaults ==
  {"account", "expense category", "category", "numbering"}

BranchService ==
  [findAll          |-> Read({"branch"}),
   create           |-> Write({"branch", "warehouse"}
                                \union bootstrapShopDefaults),
   getBranchMetrics |-> Read({"txn", "stock", "item"}),
   remove           |-> Write({"branch"})]

BranchController(branches) ==
  [findAll    |-> Route({}, branches.findAll),
   create     |-> Route({"branch:manage"}, branches.create),
   getMetrics |-> Route({"inventory:view"}, branches.getBranchMetrics),
   remove     |-> Route({"branch:manage"}, branches.remove)]
BranchRoutes == BranchController(BranchService)

\* The firm's settings come with the numbering of the shop.  (Asked for the
\* first time they are created, which no answer differs by.)
SettingsService ==
  [getFirmSettings    |-> ShopRead({"firm", "numbering", "business"}),
   updateFirmSettings |-> Write({"firm"}),
   updateTxnNumbering |-> Write({"numbering"})]

SettingsController(settings) ==
  [getFirm         |-> Route({"settings:manage"}, settings.getFirmSettings),
   updateFirm      |-> Route({"settings:manage"}, settings.updateFirmSettings),
   updateNumbering |-> Route({"settings:manage"}, settings.updateTxnNumbering)]
SettingsRoutes == SettingsController(SettingsService)

BusinessService ==
  [getProfile |-> Read({"business", "branch"}),
   update     |-> Write({"business"})]

BusinessController(businesses) ==
  [getProfile |-> Route({}, businesses.getProfile),
   update     |-> Route({"business:manage"}, businesses.update)]
BusinessRoutes == BusinessController(BusinessService)

ReminderService ==
  [list       |-> ShopRead({"reminder", "party"}),
   generate   |-> Write({"reminder"}),
   reschedule |-> Write({"reminder"}),
   markSent   |-> Write({"reminder"})]

ReminderController(reminders) ==
  [list       |-> Route({"reports:view"}, reminders.list),
   generate   |-> Route({"expense:manage"}, reminders.generate),
   reschedule |-> Route({"expense:manage"}, reminders.reschedule),
   send       |-> Route({"expense:manage"}, reminders.markSent)]
ReminderRoutes == ReminderController(ReminderService)

\* Asked to fix, it rewrites what it finds wrong.
UtilityService ==
  [verifyData |-> Write({"item", "party", "txn"})]

UtilityController(utilities) ==
  [verifyData |-> Route({"settings:manage"}, utilities.verifyData)]
UtilityRoutes == UtilityController(UtilityService)

NotificationService ==
  [findForUser |-> Read({"notification"}),
   markRead    |-> Write({"notification"})]

NotificationController(notifications) ==
  [findAll  |-> Route({}, notifications.findForUser),
   markRead |-> Route({}, notifications.markRead)]
NotificationRoutes == NotificationController(NotificationService)
=============================================================================

# Verification of the Vyaapar platform

TLA+ models of the billing, stock and accounting platform Vyaapar, model-checked
with TLC and proved about with TLAPS. Paths below are relative to the
repository; `api/` stands for `src/apps/api/src/`, `web/` for `src/apps/web/src/`.

1. [The system](#1-the-system) - the inventory of its parts
2. [Plan](#2-plan) - what is modelled in which order, and what is left
3. [TxnCore, Books, TxnReports](#3-txncore-books-txnreports) - the transaction engine and what is read out of it
4. [TxnRows](#4-txnrows) - the same requests statement by statement
5. [Checkout](#5-checkout) - one till, its offline queue and the server
6. [TxnNumbering](#6-txnnumbering) - document numbers
7. [Till](#7-till) - the figures of a bill
8. [Payroll and Catalogue](#8-payroll-and-catalogue)
9. [Access](#9-access) - accounts and sessions
10. [Routes, Pages, Screens](#10-routes-pages-screens) - the web app's cache
11. [Runs](#11-runs) - what each one checks, its bounds
12. [Proofs](#12-proofs)
13. [Findings](#13-findings)
14. [Not modelled](#14-not-modelled)

## 1. The system

A NestJS API over PostgreSQL (Prisma), a Next.js web client whose POS page keeps
selling while it is offline, and an Electron shell around it. Several shops
(branches) of one business share parties and items; nearly every request is
scoped to a shop. Every business document (sale, bill, return, order, payment,
expense, transfer between parties) is a row of one table, `Txn`, and
`TxnCoreService` is the one place where documents move anything else. Prisma
transactions run at READ COMMITTED with the default limits: 2 s to get a
connection, 5 s to finish.

| Component | State it keeps | Operations | What is hard | What makes it correct | Module |
|---|---|---|---|---|---|
| **Transaction engine** `api/txns` | `Txn`, `TxnLine`, `TxnPayment`, `Cheque`, `BillWiseAllocation`; writes `Item.currentStock`, `StockLevel`, `Party.currentBalance`, `BankAccount.balance`, `TxnNumberSequence` | `createTxn`, `deleteTxn`, `restoreTxn`, `convertTxn`, `nextNumber` | reversals recompute what was posted from rows that have changed since, items included; checks before the transaction; values read and written back | totals equal the documents in force; reversals are exact; numbers are unique | `TxnCore`, `TxnRows`, `TxnNumbering` |
| **Sales** `api/sale` | none of its own | `createInvoice`, `resumeHeld`, `refundInvoice`, `exchangeInvoice`, `createPaymentIn` | idempotency by key under an advisory lock; earlier returns read outside the transaction; credit limit | one sale per key; limit and returns kept | `TxnCore`, `TxnRows`, `Checkout`, `Till` |
| **Purchases** `api/purchase` | none of its own | bills, orders, receipts, debit notes, `createPaymentOut` | partial receipts; prices copied to items | an order closes when it is received | `TxnCore`, `TxnRows`, `Catalogue` |
| **Cash and bank** `api/cash-bank` | `BankAccount`, `Cheque`, `BankTransfer`, `LoanAccount`, `LoanTxn` | `settleCheque`, `reopenCheque`, transfers, loans | a cheque is deposited between create and delete of its document; transfers and loans move the same accounts, a loan only if it names one | money is where a live document, a transfer or a loan put it | `TxnCore`, `TxnRows` |
| **Parties** `api/parties` | `Party` | records, groups, import | balance starts at an opening and is moved by the engine only | balance = what open bills owe | `TxnCore`, `TxnReports` |
| **Items, inventory** `api/items`, `api/inventory` | `Item`, `StockLevel`, `Warehouse` | create, import, edit, barcodes, `adjustStock`, `transferStock` | two tables hold one quantity; an edit changes what lines count for; barcodes are searched, then written | the tables agree; a scan finds one item | `Catalogue`, `TxnRows` |
| **Payroll** `api/payroll` | `Employee`, `Payroll`, `PayrollLine` | advance, generate, edit line, pay; un-link when the expense is deleted | reads before transactions, paying and editing at once | a run is paid once and an advance recovered once | `Payroll` |
| **Offline sync** `api/sync`, `web/lib/sync-manager.ts`, `offline-db.ts` | `syncQueue` (IndexedDB), an in-flight flag, `SyncQueue` | tick, push, dead letters | two loops, lost answers, poison rows | nothing dropped, nothing sold twice | `Checkout` |
| **Point of sale** `web/app/(app)/pos`, `web/stores/pos-store.ts` | cart, idempotency key (a ref of the page), pending checkout | ring up, discount, split, save, hold, resume, return, exchange | a request that timed out may still commit; one amount computed by four programs | what the screen says was sold was sold, at the price shown | `Checkout`, `Till` |
| **Reports, insights** `api/reports`, `api/insights` | none | some thirty queries | each filters and adds for itself | they agree with one another and the balances | `TxnReports` |
| **Authentication, users** `api/auth`, `api/users` | `User`, `Session`, `OtpCode` | sign up, in and out, refresh, reset, approve, disable, remove | a handler reads, hashes for 0.1 s, writes | a session lives with the password and account it was issued for | `Access` |
| **Web app** `web/app`, `web/components` | query cache, active shop | pages, dialogs, mutations, shop switch, token refresh | answers outlive the shop, write or user they were for; the switcher moves the tab by itself | what is shown is of this shop and current | `Routes`, `Pages`, `Screens` |
| **Settings** `api/settings` | firm, prefixes, counters | `updateTxnNumbering` | counters set by hand while sales go on | numbers stay unique | `TxnNumbering` |
| **Shops** `api/branches` | `Branch` with its warehouse, accounts, counters | open, close | the tabs of the web app work in a shop, which may be closed elsewhere | a tab shows one shop | `Screens` |
| **Utilities** `api/utilities` | | `verifyData` recomputes stock | runs beside live requests | repairs nothing that is right | `Catalogue` |
| **Shifts** `api/shifts` | `Shift` | open, close | look, then create | one open shift per user and shop | |
| **Expenses, businesses, categories, reminders, notifications, platform, filters** | CRUD records | | | | `Routes`, parts of others |
| **Receipts, mail, files, audit, health, desktop, deployment** | logs | formatting, delivery, window, build | | | |

How they interact. The POS page posts a checkout to `createInvoice`, which calls
`createTxn`; if the server cannot be reached the page writes the payload to
`syncQueue`, and two sync loops (one of the app layout, one of the page) post
batches to `pushOperations`, which calls `createInvoice` for each row. The back
office calls sales, purchases, expenses and cash-bank; all of them end in
`TxnCoreService`. `createInvoice` holds an advisory lock in a transaction of its
own while `createTxn` runs in another; `createTxn` holds the row of the shop's
counter from its first statement to its commit. Payroll pays a run by posting an
expense, and the engine un-links the run when that expense is deleted. Purchase
bills write prices into items. Every request carries the active shop of the tab,
which `BranchScopeGuard` takes over only for those who manage the business.

`PROJECT.json` lists every component, the hazards of the code at their lines, and
the properties that would catch each.

## 2. Plan

Done, in this order:

1. `TxnCore` - the engine, one request at a time, and `Books`, the abstract
   specification of a running total it implements four times; `TxnProofs`, all of
   its properties proved. `Postings` holds the rules that the engine's modules
   share.
2. `Checkout` - till, queue, sync loops and the idempotent `createInvoice`, step
   by step; `CheckoutProofs`.
3. `TxnNumbering` - `nextNumber` and the settings, step by step;
   `TxnNumberingProofs`.
4. `TxnRows` - the requests of the engine, of inventory and of cash and bank,
   statement by statement on locked rows, with rollbacks, deadlocks and crashes;
   `TxnRowsProofs` and `TxnRowsBooksProofs`, all of its properties proved.
5. `TxnReports` - what the reports say of the engine's state; its properties are
   proved in `TxnProofs`, from a theory of sums.
6. `Payroll`, `Catalogue` - their services, with requests that overlap;
   `PayrollProofs`, `CatalogueProofs`, all of their properties proved.
7. `Access` - accounts and sessions; `AccessProofs`.
8. `Till` - the arithmetic of bills in the till, the server, the return dialog and
   the paper form.
9. `Routes`, `Pages`, `Screens` - what each page reads and writes, and the cache.

Left, most important first:

10. Proofs for `Screens` and, as far as they go, `Till`.
11. Shops that have no account for a method of payment (section 13): what money
    does then, proved instead of assumed away.
12. Several lines and payment rows per document, and with them the deadlocks
    between bills that list items in different orders.
13. The connection pool: `createInvoice` holds one connection and waits for a
    second.
14. Opening balances of parties, as a constant of `TxnCore` like those of accounts;
    imports; shifts; reminders.

Runs are bounded to what a laptop finishes in minutes and kept to a dozen;
counterexamples worth knowing but without a run of their own stay described in
section 13. Theorems are aimed at the safety invariants of each module, and their
invariants are first checked by TLC.

## 3. TxnCore, Books, TxnReports

`TxnCore.tla` is `txn-core.service.ts` with the operations of sale, purchase and
cash-bank that go through it. One action is one request handled to its end, with
every effect it has; a request the code rejects is no step.

| State | Code |
|---|---|
| `docs` | `Txn` with its line (`item`, `qty`) and payment row (`method`, `own`, `acct`); `paid` is `paidAmount`, `source` is `sourceTxnId`, `against` is `returnAgainstTxnId`; status `NONE` is no row |
| `alloc` | `BillWiseAllocation`: payment, invoice, amount; rows survive a delete |
| `currentStock`, `stockLevel` | `Item.currentStock`; `StockLevel.quantity` of a shop's warehouse |
| `partyBalance`, `accounts`, `accountBalance` | `Party.currentBalance`, `BankAccount` rows and `balance`; an account is its shop (or `Wide`, of no shop) and kind |
| `cheques` | the `Cheque` of a document and the account it is deposited in |
| `transfers` | `BankTransfer`, `LoanAccount` and `LoanTxn` rows: the accounts they name, if any, and the amount |
| `counts` | what a unit of an item counts for: 0 for a service or an item not tracked, the conversion rate for a secondary unit; a document keeps in `moved` what its line was counted for when it was posted |
| `miscounted` | history: items of which a deletion has reversed another quantity than was posted |

| Action | Code |
|---|---|
| `CreateTxn`, `HoldBill` | `createTxn` with `postEffects`, and with status `HELD` |
| `CreatePaymentAuto`, `CreatePaymentManual` | `createPaymentIn` (with and without `autoAllocate`), `createPaymentOut` |
| `ResumeHeld` | `resumeHeld`: replaces lines and payment, credit limit, posts |
| `RefundInvoice` | `refundInvoice`, of a selection or of all that is left |
| `ConvertTxn` | `convertTxn`, whole or a part |
| `DeleteTxn`, `RestoreTxn` | `deleteTxn`, `restoreTxn` with the reversal and re-posting |
| `SettleCheque`, `ReopenCheque` | cash-bank |
| `MoveMoney` | `createTransfer` (between two accounts, or into or out of one), `createLoan` and `createLoanTxn`, with an account or without |
| `EditItem` | `update` of an item: type, `trackStock`, units |

`exchangeInvoice` is `RefundInvoice` followed by `CreateTxn`. A document has one
line and one payment; amounts are integers; an allocation carries no discount
(`discountAmount`, which no screen sends). A transfer names the accounts it moves;
`createTransfer` would also store an account that its kind does not move, which no
screen sends either. `Slips` is what a client with a stale
list may do and the code does not refuse (resume or return a deleted bill, return
a held one, allocate to one that is not listed). The runs and the theorems have
`Slips = {}`: the clients do what the lists of the web client allow. What slips
lead to is in section 13.

`IInv` is the inductive invariant: `CoreInv` (types, rows, what payments point
at, cheques) and on top of it `RowsFollowRequests` (what `createTxn` lets through
is still so of the row), `AllocationsMatch` (an allocation joins a payment and a
bill of one party and of the right kind), `PaidIsPayments`,
`ClosedOrdersAreReceived`, and `AccountsOfRows` (the account of every payment
exists and belongs to the shop of its document, so that a reversal finds it).

`Books.tla` says what the engine promises of one running total: each document
holds one entry; a step replaces the entry of one document and moves the totals
by exactly the difference, so that a total is always its opening value plus the
entries in force. The book of a key can be spoilt (`kept`): `applyStock` reads type,
tracking and units of the item as they are now (`txn-core.service.ts:214`), so that a
deletion after an edit reverses what was not posted, and the stock of that item follows
its documents no more. Up to there it does, through every edit. `StockFollowsDocs`, `LevelsFollowDocs`, `PartiesFollowDocs` and
`MoneyFollowsDocs` are the four refinements; the money book has transfers and loans beside the
documents, and opens with the openings of the accounts. The mappings give a document the
entry its *posting* had while it is neither held nor deleted: a reversal computed
from a row that changed in between breaks them. `PaidIsPayments` compares paid
amount and status with the live payments, `SettledInvoicesStay` says that a bill
does not disappear under a payment, `ClosedOrdersAreReceived` that a closed order
has conversions for all its goods.

`TxnReports.tla` extends `TxnCore` with the queries of `reports.service.ts`,
`listTxns`, statements, summaries and the insights' dues as operators over its
state, each with the filter the code has. In every state the engine reaches:

- `SurfacesAgree` - the sales of a shop or the business are one figure in the
  list, the dashboard, the daily summary, profit and loss, by party, by item
  category and in the export; profit by bill, party, item and in profit and loss
  is one figure up to bill discounts and the tax on returns; GST and HSN agree;
- `FinancialsAddUp` - the owner's capital of the balance sheet is the opening
  stock plus exactly the terms the sheet leaves out, and the trial balance is off
  by exactly the closing stock, undeposited cheques and money that is not traded
  (openings, adjustments, loans that name no account). Item costs are constant: an
  edit of a cost revalues the stock and is outside;
- `StatementsAddUp`, `ShopsAddUp`, `DuesAreExplained` - a statement lists payments,
  transfers and deposited cheques, and adds up to the balance less the opening and the
  loans, which it does not list; the cash flow of a shop, which lists documents
  only, differs from its accounts by cheques, openings, transfers and loans; the stock
  and dues of the shops add up to the business, receivables to open bills less loose
  payments;
- `DayBookCountsSettlements` - how far the day book differs from the cash flow.

Reports with different filters are right to differ; these properties say by what.

## 4. TxnRows

`TxnCore` handles one request after the other; `TxnRows.tla` runs several at once.
Each request is a script of statements (`Begin`, `Read`, `Check`, `Enough`, `Add`,
`Put`, `Claim`, `Commit`) computed from what it has read, in the order of the code,
and the database executes them at READ COMMITTED.

| State | Code |
|---|---|
| `db` | committed value of every row: stock, levels, party, money, sequences, and of each document its status, `deletedAt`, `paidAmount`, allocation and cheque |
| `open`, `buf` | clients in a transaction and what it wrote; a row in a buffer is locked |
| `seen`, `pc` | what a request has read, its next statement |
| `request`, `mode` | the request and whether it runs, undoes a claim, or how it ended: done, refused, crashed, victim of a deadlock |
| `together` | history: which requests overlapped |

`Start` picks a request, `Step` runs its next statement, unless it writes a row
another client has locked;
`BreakDeadlock` ends one transaction of a cycle of waits; `Crash` stops a process
between two statements and rolls its transaction back, leaving what earlier
transactions committed. `Claim` is `updateMany ... WHERE status = ...`, the
compare-and-swap of `resumeHeld` and `convertTxn`; `Add` an `increment`, `Put` a
value computed from a read. The scripts are `createTxn`, `resumeHeld`,
`deleteTxn`, `restoreTxn`, `refundInvoice`, `convertTxn`, `settleCheque`,
`reopenCheque`, `items.adjustStock`, `inventory.adjustStock`, `transferStock`,
`createTransfer`, `createLoan`, `createLoanTxn`.

The properties say which races are harmless and name those that are not:

- `BooksReconcile` - stock, party and money follow the documents after every
  commit, unless two requests delete, restore or rewrite one document at once
  (`Collided`: `deletedAt` is tested before the transaction only); loans are what was
  asked for, and move an account only when the request names one, which the page of
  loans never does;
- `LevelsAddUp` - levels are written back from a read, yet add up to the item's
  stock, because the item's row is locked first; inventory's own adjustment and
  transfer lock nothing and are the exception, as is a transfer of a shop to
  itself, which makes stock without any overlap;
- `PaidIsAllocated` - `applyAllocations` writes `paidAmount` from a read, yet
  loses nothing, because payments of a party meet at the party's row;
- `OversoldOnlyAcrossCounters` - stock is tested with a plain read, yet two
  invoices never sell one unit, because their numbers come from one locked row;
  a sale beside a request that takes no number may, and the deletion of goods
  received tests nothing;
- `ConvertedOnce`, `ClaimsAreReleased` - the comments of `convertTxn`, with the
  crash between claim and document as the only exception;

Nothing is claimed about which requests can deadlock: `applyStock` locks items in the
order of the lines (`txn-core.service.ts:212`), so that two bills with the same items
in opposite orders wait on each other. Documents here have one line and one payment;
what the database does about a cycle, of whatever length, is `BreakDeadlock`, and the
properties hold after it.

All six are proved in `TxnRowsProofs` and `TxnRowsBooksProofs`, for any number of
clients, requests, documents, shops and parties. What the proofs assume of the start
is named in `TxnRows`: `AtRest` says which documents a database holds that handled
its requests one by one, `Legal` what a handler finds when it looks a request up,
`Sound` what `createTxn` and `autoAllocate` let a document say.

## 5. Checkout

`Checkout.tla` follows one till: `checkout` of the POS page, the queue and the
loops of `sync-manager.ts`, `pushOperations` and `createInvoice`, as steps of
several actors.

| State | Code |
|---|---|
| `cart`, `key`, `waiting` | the cart in the store, `checkoutIdRef`, the pending mutation |
| `queue`, `syncInFlight`, `push` | rows of `syncQueue`, the module flag, what each loop has read and sent |
| `jobs` | requests on the server: the row in hand, the rest of a batch, and the stage: waiting for the lock, looking up, creating, committing |
| `lockOf` | `pg_advisory_xact_lock` of a key |
| `invoices`, `deadLetters` | committed sale invoices, held ones included, `SyncQueue` rows `FAILED` |
| `saved`, `offline`, `minted` | what the till has told the cashier; keys used |

`Send`, `Saved`, `Keep`, `QueueSale`, `EditCart` and `LeavePage` are the page;
`Tick`, `Unreachable`, `Push`, `Pushed` and `PushFailed` the loops; `NextOp`,
`BatchDone`, `Lock`, `Check`, `Create`, `Commit`, `Reject` the server.
A client may give up at any moment (`Keep`, `QueueSale`, `PushFailed`) while its
request goes on; a request may fail at any stage (`ServerFails`).

`Mishaps` is what else may happen: `slow_server` (the transaction that holds the
lock is timed out after five seconds while `createTxn` goes on in its own, then
`LockExpires` and `CreateLate`), `cart_edited` (the cart changes while a key is
kept for it), `page_left` (the page is left and its key is lost). The safety run
`checkout` has `cart_edited` and `page_left`, `checkout_live` has `slow_server` and
`page_left`. Failures, lost answers and abandoned requests are in both.

A cart that is edited, or cleared for the next customer, while its key is kept is the
next bill, remembered in `amended`; the server answers the kept key with the earlier
sale. `SavedBillsSold` says exactly that: what the till reports as saved was sold, or
took the place of what was sold while the key was kept (`VersionOf`) - the finding
`cart_edited` of section 13 and nothing else. A bill
whose page was left is `forgotten`, and the one exception of `OneSalePerBill`. Resuming a
held bill sends no key (`pos/page.tsx:164`); what guards it is in `TxnRows`.

Liveness. `OfflineBillsSettled` assumes that the server goes on with every request
it can go on with (Node runs ready callbacks; weak fairness of `Handle`), that the
loops run (timers of 15 s, an answer or a timeout for every push; weak fairness of
their steps), and that failures - a lost answer, a cut connection, a server error,
an expired lock - come to an end. Being refused is not a failure: poison bills are
refused for ever. Nothing is assumed of the cashier, nor of the order in which
PostgreSQL grants a lock to those who wait for it.

One till is enough: a second one has keys and rows of its own; what tills share,
stock and credit limits, belongs to the engine (`TxnCore`, `TxnRows`).

## 6. TxnNumbering

`TxnNumbering.tla` is `nextNumber` inside the transaction of `createTxn`, for one
document type. `NextNumber` is the upsert, which waits for the shop's row, locks
and increments it; `Skip`, `GiveUp` and `Allocate` are the loop over numbers in
use; `Commit` and `RollBack` end the transaction and free the row;
`UpdateTxnNumbering` is the settings page, which may set counter and prefix to
anything; `Delete` and `Restore` move documents to the recycle bin and back.
Initially any documents may be there with any of the numbers `Imported`, the
counters standing at 1: "seeded/imported data, a reset sequence, or a restored
backup". Documents of no shop are counted by the default shop and compared only
with each other, and the unique index does not cover them.

`NumbersUnique` must therefore come from the lock and the search alone; the index
is left out of the model and the property shows that it is never needed.
`NoGaps` says that a document passes over no free number from the counter on.

## 7. Till

`Till.tla` is the arithmetic of one bill in the four places that do it:
`pos-store.ts` (`till`: cart, discount, extra charges, round-off, split),
`buildLines` and `computeTotals` of the server (`Bill`), the return dialog and
`refundInvoice`/`exchangeInvoice`, and `txn-form.tsx`. Money is counted in
hundredths of a paisa, since both sides compute with fractions of one; a column
`Decimal(14,2)` is `Stored`, and the roundings are those of the code. `RingUp`
holds the actions of the cart, `Checkout` those that save, hold or resume it,
`Later` returns, exchanges and paper forms.

`TillMatchesBooks` has three parts: the total on the screen is the one the server
books (`TotalsMatch`), the printed rows add up to the printed total
(`PrintsAddUp`), and the refund a dialog promises is the one paid
(`RefundsMatch`, to two paisas a unit, the drift of unit prices stored rounded).
`Current` sets aside the carts whose screen is known to differ: a discount in rupees,
or in per cent of an earlier cart. `RupeeDiscountsKept` is the counterexample run.

## 8. Payroll and Catalogue

`Payroll.tla`: `staff` is `Employee`, `payroll` the run of a period and shop with
its lines, `expenses` the documents runs were paid with, `request` what each
client is in the middle of. `generatePayroll` is `Generate` (it reads all
employees once), `Pass`/`Start` (one look per shop for an existing run), and
`CreateRun` or `CreateRefused` (the unique index); `updateLine` is `EditLine`,
`SumLines`, `CommitLine`; `payPayroll` is `Pay`, `PostExpense`, `MarkPaid`.
`DeleteExpense` and `RestoreExpense` are the engine's part. `Stop` is a server that
stops anywhere. The histories are the exceptions the properties name: `torn` runs
(changed while paid, orphaned by a stop, restored), `crossed` (two edits summed
up each other's old line), `doubled` (one employee in two generations at once),
`waived` (an advance changed on a line). What the run shows is that there
are no others. `PayrollSummary` is of a month, by the `paidAt` of the runs, and
`SalaryHistory` of all time: `TotalsAreSums` compares the histories with the
summaries of all months, into which every paid run falls once, in whichever month it
is paid, unlinked and paid again.

`Catalogue.tla`: items with code, prices, barcode, `stock` and `level`. A handler
looks for a free barcode in one step and writes in the next: `Create`/`Insert`,
`Save`/`Write`, `AssignBarcode`/`Assign`, `BulkGenerateBarcodes`/`BulkWrite`;
`OpenEdit` keeps the form that `Save` sends back whole, item code included, which the
unique index may refuse (`WriteRefused`); `FindByBarcode` is what a scan matches, the
barcode of an item or its code (variants, which it looks at too, are never written);
`VerifyData` reads the
stocks, `Compare` the level of one item, `Fix` writes it. `BarcodesUnique`,
`BarcodeDecodesCost` and `VerifiedStockAgrees` name their exceptions as histories:
`rushed`, `spent`, `bulked`, `crossed`, `uncosted`, `fixed`; and `BarcodesUnique` the
items whose code is typed like a barcode (`CodedLikeBarcodes`), since a new barcode is
compared with barcodes only.

## 9. Access

`Access.tla` is one e-mail address: its row in `users`, its `sessions`, reset
codes and confirmation links. A handler reads, hashes, and writes in a later
statement; `req` holds what it read, so that a handler is two or three actions
(`Login`, `RightPassword` or `WrongPassword`, `IssueTokens`; `ResetPassword`,
`CodeSpent`; `Manage` and one action per command of the owner). `Crash` ends a
handler between statements. Removal frees the address for another account.

`SessionsFollowAccounts`: a session in the table belongs to the password in force
and to an open account. Its exception, `late`, is kept exact: a sign-in that read
the account before a change of password or a disabling overtook it, and a
revocation that died in a crash.

## 10. Routes, Pages, Screens

`Routes.tla` is every handler of the controllers with the permissions it demands,
the tables it reads and writes, and whether its answer is limited to a shop. The
smaller services (parties, expenses, categories, shops, settings, business,
reminders, notifications, utilities, purchases, exports) are there as what each of
their methods does to the tables; a handler is such an effect behind permissions,
and a controller is built from its service, as Nest injects it.
Exports read the whole business, whichever shop asks for them.
`Pages.tla` every page as the queries it subscribes to (with or without the shop
in the key) and the mutations it offers with the keys they invalidate.

`Screens.tla` is one tab on top: `cache` maps a slot (query key, shop if named) to
the shop its request named, the shops it lists if it is the list of shops, the writes
it misses (`misses`), whether it is within its minute (`fresh`), whether it is loading
or late, and whether it is from `before` the tab was moved without the cache being
told. A request goes out for the shop the tab is in when it is sent, whatever shop its
key names, but for the pages in `Carried`, which name the shop themselves. `Open` mounts queries and
fetches those that are missing or stale, `Work` performs a mutation and refetches
what it invalidates and is on display, `Switch` changes the shop as `onSwitch`
(`shop-switcher.tsx:48`) does: everything mounted is refetched under the keys of the old
shop for the new one, then the keys of the new shop are looked up. `Settles` is the
switcher's effect (`shop-switcher.tsx:38`), which follows every step: if the list
of shops the tab has lacks the shop it is in, the tab is sent to the default shop and
nothing is invalidated. It bites after `CreateShop` (the list does not have the new
shop yet), `RemoveShop` and `RemovedElsewhere`, when the list is fetched again. `Refresh` is the token refresh, `SignInAgain` another
user in the same tab, `Minute`, `Focus` and `Arrive` time, focus and slow answers.
A refetch is one step (a newer one cancels it), a first load two (nothing
cancels it). Any request may be lost.

`ShownIsActive`: what is displayed of a shop is of the active shop, unless the answer
is from `before` a token refresh, another user or the switcher's effect moved the tab,
or was in the air. Each exception is of one answer and ends when it is fetched again.
`OwnWritesShown`: a page shows the writes made on it, but for the eleven queries
in `Lagging`, which the pages' mutations do not invalidate.

## 11. Runs

| Run | Module, cfg | Bounds | Shows |
|---|---|---|---|
| `counter` | MCTxnCore, TxnCounter | 3 documents, 1 shop, 1 item, 2 parties with a credit limit, cash, UPI and cheques, held bills, discounts, returns, payments, all deletes and restores, an account with an opening, 1 row of money put in or lent, to an account or to none | inductive invariant; party and money books refined; paid amounts; reports agree |
| `shops` | MCTxnCore, TxnShops | 3 documents, 2 shops: orders and estimates converted whole or in parts, bills and a held one beside them, items edited to count for nothing, 1 transfer between the shops | stock and levels by shop, closed orders, shops add up |
| `rows` | MCTxnRows, TxnRows | 2 clients, any of 31 requests each on 10 given documents, 2 shops, 1 party; one process may crash | the six properties of section 4 |
| `checkout` | MCCheckout, CheckoutSafety | 2 keys, 2 bills (one poison), 2 loops, 2 requests at once; carts edited under their key, pages left | one sale per key and per bill, saved bills sold, nothing queued dropped |
| `checkout_live` | MCCheckout, CheckoutLive | 2 keys, 2 bills (one poison), 1 loop, slow server and page changes | every bill taken offline is settled |
| `numbering` | MCTxnNumbering, TxnNumbering | 3 documents, 2 shops and none, 2 prefixes, 2 imported numbers, 2 tries | unique and consecutive numbers |
| `payroll` | MCPayroll, Payroll | 2 employees, 2 shops, 2 periods, paid in 2 months, 2 clients, 5 requests, sums of 0 and 1 | a paid run has its expense, totals are sums, advances are recovered once |
| `catalog` | MCCatalogue, Catalogue | 2 items (one migrated), 3 codes, costs 0, 1 and 3, barcodes of 2 digits and a cost to 2, 3 attempts, 2 clients, 4 requests | barcodes unique and current, stocks agree |
| `access` | MCAccess, Access | 2 requests at a time, 2 accounts, 2 passwords, 2 sessions, 1 code, 3 commands | sessions follow accounts |
| `screens` | MCScreens, Screens | owner and biller, 3 shops (the account's is not the default one), 4 kinds of document and all other pages, 2 pages or dialogs opened, 2 events | shop and writes on display |
| `pos` | MCTill, Till | 2 items, 2 units of each, 1 bill rung up or written, 6 steps | screens, prints, refunds and books agree |
| `rupee_discount` | MCTill, RupeeDiscount | as `pos` | the counterexample of section 13 |

Why the bounds are enough. In `TxnCore` every hazard is between a document, the
one made from it or against it (return, payment, conversion) and one more that
changes a shared total; three documents allow each pair and a bystander, and an order with two partial
receipts. Deletes and restores are not bounded, so histories are
longer than the number of documents. A price of 3 with a tax and a cost of 1 tells
amounts, taxes and quantities apart; opening stock of 2 lets a sale be refused.
Opening, transfer and loan are told apart from documents by their amounts and by the
account they name or do not name; repayments, loans of the other sign, are left to
the theorems and to `rows`. In `TxnRows` the reads and writes that clash are those of two requests; longer
waits, a cycle of three clients, are left to the theorems. Every request meets each
of the ten documents (held, open, deleted, converted, partly received, with a
cheque) in the state in which it is accepted. In `Checkout` two requests and two loops give every
overlap of two; two keys let a bill be sent under a second one after its page was
left, two bills let a cart be edited under a kept key, into one the server refuses.
In `TxnNumbering` three requests contend for two rows; two tries reach both the skip
and giving up. In `Payroll` five requests reach advance, generate, edit, pay and a
delete or a stop; in `Catalogue` three codes share a prefix or a barcode and a cost
of 3 exceeds the suffix. In `Access` two passwords and two accounts tell old from
new; three commands reach disable, enable and password. In `Screens` a page, a
dialog and two of write, switch, minute, shop opened or closed and loss are what a stale
answer takes; three shops let the default, the account's and the one in view differ. In
`Till` the items' prices leave fractions of a paisa (80.8) and one has its tax
outside; a discount, charges, a split and a return take five of six steps. `pos`
explores bills of one cart because nothing in a figure depends on another bill,
except an exchange, which is allowed one more.

Symmetry is used for keys, loops, requests, documents to be numbered, prefixes,
employees, items and clients where they are interchangeable, and only in runs
without liveness. Deadlock is checked in the runs of `TxnCore`, `TxnRows` and
`TxnNumbering`: every state but the last, where all is done, has a step, a cycle of waits
included (the database ends one of them). The others may stop, when
bills and keys, requests, commands, events or steps are used up.

Definitions headed "Fault" or "Mutated form" are mistakes of one step (a lock not
taken, a reset left out, a stale read). Substituted for the definition that follows
them they make the property named in `PROJECT.json` fail: each property can see
the error it is there for.

## 12. Proofs

For every value of the constants:

- `TxnProofs`, its first part: `CoreSafety` (the part of the invariant that
  needs no arithmetic), `Typing`, `Settled`, `ChequeRows`. `SettledInvoicesStay` is not
  inductive alone: that a payment still points only at live bills after a resume or
  a restore needs that rows not there are blank, that only invoices are held,
  without a payment, and that documents are converted from orders only
  (`RowsWellFormed`). Along with it every action is shown to be a `BookStep`: at
  most one document comes into force and its effects are posted, or leaves force
  and they are taken back, and the other documents keep every field an effect
  depends on (`Frame`).
- `TxnProofs`, the books: `StockImplementsBooks`, `LevelsImplementBooks`,
  `PartiesImplementBooks` and `MoneyImplementsBooks` - one lemma per book turns a
  `BookStep` into `Move` or a stutter, in the stock books for items that are
`kept`: a deletion reverses what the line counts for now, and either that is what
was posted or the item is `miscounted` from then on; money needs `AccountsOfRows`, as the account
  that a reversal resolves must be the one the posting chose, and `Cheque` steps
  move a document's entry from undeposited to an account. `BooksSafety` and
  `Safety` are the inductive invariant; `PaidAmounts` (`PaidIsPayments`) follows
  how every action changes the sum of the allocations to a bill, `ClosedOrders`
  how it changes what has been received of an order. `TotalsAddUp` and
  `BalancesAddUp` take the refinements to their end: a total that is kept *is* its
  opening value and the sum of the entries in force, of documents and of transfers.
- `TxnProofs`, the reports: `Surfaces`, `Statements`, `DayBooks`, `ShopTotals`,
  `DuesStory`, `Financials` - the six properties of `TxnReports`. A report is a sum
  over the documents its filter lets through. The proof writes it as a sum over all
  documents of a column that is 0 where the filter rejects; reports then agree when
  their columns do, document by document (`TxnWhere` against status, type and
  shop), and running balances enter by `TotalsAddUp` and `BalancesAddUp`. The
  balance sheet is the longest: its capital is followed through six columns.
- The theory of sums, at the head of `TxnProofs`, `TxnRowsProofs` and
  `PayrollProofs`, each with the lemmas it needs. `SumFunctionOnSet` of the community
  modules is a fold, a recursive function on subsets; that it exists and unfolds is
  proved from the well-foundedness of the strict subset order, with a *set* of
  subsets as the induction hypothesis, because lemmas with operator parameters
  cannot be instantiated. Then: sums of sums, differences and multiples, the change of one
  member, sums by owner, tables.
- `TxnRowsProofs` and, from the paid amounts on, `TxnRowsBooksProofs`, which extends
  it: `RowsSane`, the invariant the others rest on, and one theorem for each of the
  six properties, in four parts.
  *Scripts.* A handler is a sequence computed from what it has read. The lemmas say
  which statement stands at which place (`Placed`, `EffectsLaid`) and that the
  statements still to come do not depend on the row at hand, so that a step of the
  script is a step of the handler.
  *The database.* `Sane` is `Kept` - every request is at a statement of its script
  (`Shapes`), a transaction has written exactly what its script says up to there
  (`Buffers`), and no two transactions keep one row (`Apart`) - with `SeenOpen`,
  `Papers` (what becomes of the status, `deletedAt` and allocation of a document),
  `Pairs` (requests under way at once are `together`) and `Numbers`.
  `ClaimsAreReleased` and `ConvertedOnce` follow from how `Claim` changes a status,
  `OversoldOnlyAcrossCounters` from the stock a seller has tested and still has
  while it keeps its counter's row (`Covered`).
  *Reads and writes back.* A level or a paid amount is computed from a read. That
  read is current because the item's, or the party's, row has been locked since
  before it: `LevelsAddUp` and `PaidIsAllocated` carry, for each client between
  its read and its commit, that nobody else has written the row.
  *Sums.* A commit changes a total by what its statements add, and the sums over
  documents and requests by the same: by the document that came into force or out
  of it (`Turning`), by the request that ended (`Working`), by a cheque that was
  cashed. What a request means to do still fits the row it does it to unless two
  of them collided (`Intent`). `Books` collects these with one equation for each
  book, and `BooksReconcile` follows.
- `CheckoutProofs`: `Safety` and `OneSale` (`OneSalePerKey`): the request a client
  waits for is its own (`RequestsOwned`) and from lock to commit a request holds
  its key's lock, and no finalised sale has that key until it creates one
  (`LocksHeld`). `TillSafety`, `SavedSold`, `OfflineKept`: a key stands for one bill
  and what took its place on the screen while the key was kept, wherever it is
  (`KeysStandForBills`: page, queue, pushes, requests, invoices), every answer on its way and all the till has reported is true (`AnswersAreTrue`),
  and a push accounts for each row it took (`PushesAccountFor`). `BillSafety` and
  `OneBill` (`OneSalePerBill`): every bill goes under one key unless its page was left
  (`BillsHaveOneKey`).
- `TxnNumberingProofs`: `Safety`, `Unique` (`NumbersUnique`) and `Consecutive`
  (`NoGaps`). A request holds its row's lock to the end, so the number it found
  free stays free and the counter stays where it was, whatever the settings do.
- `PayrollProofs`: `PaidRuns`, `Totals`, `Advances`. The invariant of `Payroll` has
  three parts: a run that is paid, or whose payment is under way, has the expense
  (`PaymentsFollowRuns`); a correction under way carries sums that are current
  unless another crossed it (`SumsAreCurrent`); and what a generation or an edit
  read of an advance is still owed unless one was disturbed (`EditsKeepAdvance`,
  `ReadingsAreOwed`), with the sum over lines and runs that equals what was given.
- `CatalogueProofs`: `OneItemPerBarcode` (`BarcodesUnique`), `CostDecoded`
  (`BarcodeDecodesCost`), `StockVerified` (`VerifiedStockAgrees`), for any length of
  a barcode and any number of attempts. The properties speak of rows at rest and
  hang on what requests carry from their look to their write. For barcodes, every
  step is a look (a barcode is found that no other item has, and if others are
  looking the item is rushed), a store of what was found, a write of the bulk run,
  or quiet; the invariant says that of two requests about to write one is rushed
  (`Apart`) and that what was found free still is (`Clear`). `CostsCarried` and
  `StockCarried` say of a request that its barcode is made from the cost it comes
  with and that a new item's stock and level are one figure; `Inserts` and `Refers`
  that what requests refer to is there and what they create is not.
- `AccessProofs`: `SessionsSafe` (`SessionsFollowAccounts`). The property alone is
  not inductive: a sign-in on its way hands out a session later. The invariant
  adds that the row of an account and the requests have their types (`Accounts`,
  `Requests`), that ids in requests and sessions are of accounts already made
  (`Rows`), and that a sign-in or refresh that is not marked late has read the
  password and the openness the account still has (`Overtaking`).

Assumptions. `TxnCore`: `Slips = {}` throughout; with a slip, a payment can be
allocated to a deleted bill, and a reversal can take back what was never posted.
What involves money accounts assumes besides `AccountsOfTheirOwn` - for each method
of payment every shop has an account, or there is one shop and all accounts are
its own - and `PicksOfTheirOwn` - the account picked on a form is one of the list,
which is the shop's. Both are needed: without the first `StatementsAddUp` is false,
which is the first finding of section 13. They are hypotheses of these theorems and not
assumptions of the module; the seed data and the configurations satisfy them.
`Checkout`: `Safety`, `OneSale`, `BillSafety` and `OneBill` need `"slow_server" \notin Mishaps`,
without which TLC finds them violated (section 13); the theorems of the till
(`TillSafety`, `SavedSold`, `OfflineKept`) hold with every mishap. `TxnNumbering`, `Payroll`, `Catalogue`, `Access`:
none. `TxnRows`: no hypotheses besides its named assumptions: the documents at the
start are those of a database at rest (`GivenAssumption`), requests are legal
(`RequestsAssumption`), opening stock is not negative (`StockAssumption`), names
are distinct and sets finite (`NamesAssumption`). The named `ASSUME`s of the other
modules say that null is no id, that constants have their types and sets are
finite, and (`InputsAssumption`) that requests ask for what the handlers'
validation lets through.

What the proofs found in the models: several `CASE` expressions had overlapping
guards, of which TLC takes the first and TLA+ any (`StockEffect`,
`StatusConverted` and the scripts of `TxnRows`); `TxnReports` looked up stock
levels of a shop that is none; `FinancialsAddUp` and `DuesAreExplained` held of
every instance checked, but only because documents of nobody were all paid in
full. They are now stated with a term for what is owed by documents that
name no party (`UnnamedDues`). A kept answer of the server was not known to
belong to a push (`AnswersAreTrue`). In `TxnRows` the database could end a request
that merely waited for a deadlocked pair without being part of it, which two
clients cannot show; `OversoldOnlyAcrossCounters` was false when a purchase bill is
deleted beside a sale, and `LevelsAddUp` when a shop transfers stock to itself, for
which no request of the run asked; and the credit note of an
order's invoice kept the order as its source, which counted it as a conversion.

Model-checked only: `Screens` (every step would have to be expanded over the
queries and mutations of all the pages) and `Till` (arithmetic over products and
roundings, which the SMT solver does not decide); and `OfflineBillsSettled`, liveness under fairness, which is
beyond the prover, as are `ENABLED` and recursive operators. No module declares a
recursive operator.

## 13. Findings

One has a run. `rupee_discount` (`pos/page.tsx:152`): the till sends the discount
both in per cent (0) and in rupees; `computeTotals` reads the rupees only when no
percentage is sent, as the comment at `txn-form.tsx:249` says ("send EITHER a
percentage OR a fixed amount"). The bill is stored without the discount shown on the screen, and
the amount paid is less than its total.

The others were met while modelling and have no run of their own. Around sales
(`slow_server`, `cart_edited` and `page_left` are elements of `Mishaps`; the run
`checkout` has the last two, and its properties name what they break):

- signup makes a cash account of no shop (`auth.service.ts:285`), and a shop opened
  later has a cash account only; a payment falls back on an account of the business
  or of another shop (`txn-core.service.ts:482`) and keeps its id, the
  reversal looks the id up with the shop as a filter (`txn-core.service.ts:476`),
  and the money of a deleted sale stays, although the id is kept so that
  "delete/restore reverses the exact same account" (`txn-core.service.ts:435`).
  With `Accounts0 = {[shop |-> Wide, kind |-> "CASH"]}` the second step of a
  history, the deletion, violates `StatementsAddUp`;
- a bill on hold can be returned by the API (`sale.service.ts:162`); stock comes in
  that never went out;
- a deleted credit note is restored after its units were returned again
  (`txn-core.service.ts:831`): more is returned than was sold;
- the credit limit is compared with a total no client sends (`sale.service.ts:48`);
  the comparison with `NaN` never refuses a sale;
- `slow_server`: the lock of a key expires with its five-second transaction while
  `createTxn` still runs (`sale.service.ts:30`); a retry makes a second sale with
  the same key;
- `cart_edited`: the key kept after a lost answer is not tied to the cart
  (`pos/page.tsx:123`); the next cart saved with it is answered with the earlier
  invoice, reported as saved and never sold;
- `page_left`: leaving the page after a lost answer and saving again sells twice;
- a queued *hold* pushed by both loops at once is stored twice.

Engine and books (the exceptions of `TxnRows` and `TxnReports`):

- delete and restore, or two deletes, of one document at once post or take back
  twice, although `README.md:47` says that a delete reverses everything; two
  refunds at once exceed the sale; two credit sales, or a resume beside a sale,
  exceed the limit;
- an item whose type, tracking or units are edited between a document and its
  deletion has other stock taken back than was posted (`txn-core.service.ts:214`
  reads the item as it is now);
- a statement lists neither the opening of an account nor its loans
  (`cash-bank.service.ts:100`), and cash flow lists no transfers: their rows do not
  add up to the balance. The loans page sends no account, so that its loans move
  none. A transfer of type `ADJUST_...` sent with both accounts is listed in the
  statement of the one it did not move (no screen sends it);
- two bills that list the same items in opposite orders
  (`txn-core.service.ts:212`), two transfers between the same two accounts or shops
  in opposite directions, and a cheque moved while its document is deleted,
  deadlock; one of them fails;
  `transferStock` and inventory's `adjustStock` write levels from old reads;
  a transfer of a shop to itself is not refused and makes stock
  (`inventory.service.ts:87`); deleting a purchase bill takes its goods back without a
  test of stock (`txn-core.service.ts:225`), although a sale is refused;
- deleting a credit note leaves its invoice `REFUNDED`; the allocation rows of a
  deleted payment keep its bill undeletable; a held bill deleted elsewhere can be
  resumed from a stale list;
- a crash between the claim of an order and its document leaves it `CONVERTED`
  without one;
- the dashboard's open orders include closed ones (`reports.service.ts:46`); the
  trial balance includes the closing stock; the day book counts a settled bill at
  the bill and at the payment; items and parties of no shop are missing from the
  views of a shop; insights once pushed are not taken back.

Payroll and items: a run edited or regenerated while it is paid; an advance edited
on a line is never given back to the employee; two generations at once recover an
advance twice; the barcode fallback after thirty clashes is not unique; a barcode
of an item whose cost is set to zero keeps the old cost; a new barcode may equal the
code of another item, and the scan, which compares both (`items.service.ts:142`),
may find either; `verifyData` writes an old stock over a sale in between.

Accounts: a sign-in overtaken by a change of password or a disabling keeps a live
session; a crash between the two statements of `setActive` leaves the sessions of
a disabled account.

Web app: a queued sale goes to the shop that is active when it is pushed; a token
refresh moves the owner to the shop of his account without refetching; a first
load in the air when the shop is switched is shown for the new shop; the switcher
refetches the queries of the old shop with the header of the new
(`shop-switcher.tsx:48`); after a shop is opened or closed the tab is moved to the
default shop, without refetching, for as long as its list lacks the active one
(`shop-switcher.tsx:38`), so that a shop just created may not be the one shown; a
session that ends leaves the cache
to the next user; `Lagging` lists eleven queries a page leaves behind its own
writes. Billers may return bills but `return-dialog.tsx:41` reads the bill from a
route that demands `reports:view`, which their role lacks (`permissions.ts:88`);
accountants are offered expense and payment forms whose party list demands
`pos:sell`. The create route of party-to-party transfers (`POST /txns`) does not
exist. The loans page sends `principalAmount`, which the API ignores, so that a loan
starts at 0; the cheques page filters `SETTLED` and `BOUNCED`, which the API never
stores. One key, `shops`, is shared by two queries.

Till: a percentage is not recomputed when the cart changes after it; a held bill's
discount comes back in rupees and is lost when it is resumed; its charges stay in
the row though the till no longer shows them; a selection of lines is refunded
without the bill's discount, so that all lines returned one by one pay back more
than the bill; an exchange of an item whose price includes tax adds the tax once
more, as do the barcode fallback and the paper form; an exchange is paid in paisas
rounded down and stays `PARTIAL`, though its comment calls it fully paid; split
payments survive going back; re-holding a resumed bill stores a second one;
converting a document drops its bill discount and charges.

## 14. Not modelled

- Several lines, payments or allocations per document, and with them the deadlock of
  two documents whose items come in opposite orders (`OnlyCrossedDeadlock` speaks of
  documents of one line), the discount of an allocation
  (`txn-core.service.ts:511`), and the connection pool: planned, section 2.
- Opening balances of parties: one more constant of `currentBalance`, 0 in the
  models; `DuesAreExplained` would have it as one more term. Imports of parties and
  items, which write many rows with openings like a creation each.
- Accounts created, renamed or made inactive by hand after the start: the accounts
  are those of `Accounts0` and those that payments make. Changes of an item's
  cost in `TxnCore`: outside `FinancialsAddUp` (`Catalogue` has them).
- Groups, categories, businesses, reminders and notifications: records on which no
  other state depends; their routes are in `Routes`. Loyalty points: no code
  grants any.
- Shifts: no screen of the web app opens one. Attendance: recorded, but pay is not computed from it.
- Receipts, labels and thermal printing, mail, files, exports, GST return files,
  audit trail, health: formatting and delivery.
- Layout, fields and keyboard handling of the pages, the scanner, the Hold button of
  the top bar, which stays enabled while a save is pending.
- In `Access`: expiry of tokens, hashing, throttling; the shop and the account that
  signup makes besides the user (`Accounts0` of `TxnCore` may be what it makes; the
  runs take a business whose shops have their accounts).
- The desktop shell, build files, seeds and one-off migrations.

------------------------------ MODULE TxnCore ------------------------------
(***************************************************************************)
(* The unified transaction engine of txns/txn-core.service.ts, with the    *)
(* operations of sale, purchase and cash-bank that go through it.          *)
(*                                                                         *)
(* Every business document is a Txn.  Creating one, resuming a held bill,  *)
(* deleting and restoring move the stock of its item, the stock level of   *)
(* its shop, the balance of its party, a money account or a cheque, and    *)
(* the paid amount of the invoices a payment is allocated to.  Transfers   *)
(* and loans move the same accounts without a Txn, and the item a line     *)
(* names can be edited between its posting and its reversal.               *)
(*                                                                         *)
(* One action is one request handled to its end; a request the code        *)
(* rejects changes nothing and is no step.  Requests are handled one after *)
(* the other here.                                                         *)
(*                                                                         *)
(* Abstractions: a document has one line and one payment; amounts are      *)
(* integers; documents are numbered in the order of their dates; an        *)
(* allocation carries no discount (no screen sends one).                   *)
(***************************************************************************)
EXTENDS Integers, FiniteSetsExt, Postings

CONSTANTS
    None,           \* a null column
    Docs,           \* ids of documents, in the order they are created
    Shops,          \* branches of the business
    Wide,           \* owner of a money account that belongs to no branch
    Items,
    Parties,
    Home,           \* the shop an item or a party belongs to
    Kinds,          \* kinds of money account: CASH, BANK, UPI, CARD
    Inputs,         \* the requests clients make of createTxn
    Price,          \* unit price of an item
    CreditLimit,    \* credit limit of a party, or None
    Stock0,         \* opening stock of an item
    Edits,          \* what an edit can make a unit of an item count for
    Accounts0,      \* money accounts that exist at the start
    Opening0,       \* the opening balance of a money account
    Transfers,      \* ids of BankTransfer, LoanAccount and LoanTxn rows
    Moves,          \* the transfers and loans clients ask for
    Slips           \* what clients do that the code does not refuse

AccountIds == [shop : Shops \cup {Wide}, kind : Kinds]

Methods == Kinds \cup {"CHEQUE"}

(* A request: the line (item, qty), the bill total, the part of it paid    *)
(* at once (own; a DEBT payment is own = 0) by a method, into an account   *)
(* picked by the client or the default one, and whether the bill is held.  *)
Request ==
    [type : TxnTypes, shop : Shops, party : Parties \cup {None},
     to : Parties \cup {None}, item : Items \cup {None}, qty : Nat,
     total : Nat, method : Methods, own : Nat,
     pick : AccountIds \cup {None}, hold : BOOLEAN]

(* A transfer between two accounts, or into or out of one; a loan, or what *)
(* is added to it; a repayment.  Loans name an account or none.            *)
Transfer ==
    [kind : {"NONE", "TRANSFER", "LOAN", "REPAYMENT"},
     from : AccountIds \cup {None}, to : AccountIds \cup {None}, amount : Nat]

SlipKinds ==
    {"resume_deleted",    \* resume a bill another terminal has deleted
     "return_held",       \* return a bill that is on hold
     "return_deleted",    \* return a bill another terminal has deleted
     "allocate_unlisted"} \* allocate a payment to a held or deleted bill

ASSUME DocsAssumption == Docs \subseteq Nat
ASSUME ShopsAssumption == Shops # {}
ASSUME FiniteAssumption ==      \* a table has finitely many rows
    /\ IsFiniteSet(Docs) /\ IsFiniteSet(Items) /\ IsFiniteSet(Parties)
    /\ IsFiniteSet(Shops) /\ IsFiniteSet(Kinds) /\ IsFiniteSet(Transfers)
ASSUME HomeAssumption == Home \in [Items \cup Parties -> Shops]
ASSUME InputsAssumption ==
    /\ Inputs \subseteq Request
    /\ \A in \in Inputs :       \* only POS bills are held, without a payment
         /\ in.hold => in.type = "SALE_INVOICE" /\ in.own = 0
         /\ in.type = "P2P_TRANSFER" => in.own = 0   \* no money changes hands
ASSUME KindsAssumption ==
    /\ "CHEQUE" \notin Kinds
    /\ "CASH" \in Kinds
ASSUME NoneAssumption ==
    /\ None \notin Docs
    /\ None \notin AccountIds
    /\ None \notin Items
    /\ None \notin Parties
    /\ Wide \notin Shops
ASSUME ItemsAssumption == Price \in [Items -> Nat] /\ Stock0 \in [Items -> Int]
ASSUME EditsAssumption == Edits \subseteq Nat
ASSUME AccountsAssumption ==
    /\ Accounts0 \subseteq AccountIds /\ Opening0 \in [AccountIds -> Int]
    /\ \A a \in AccountIds \ Accounts0 : Opening0[a] = 0
ASSUME TransfersAssumption ==
    /\ Transfers \cap Docs = {}
    /\ Moves \subseteq Transfer
    /\ \A m \in Moves :
         CASE m.kind = "TRANSFER" -> m.from # None \/ m.to # None
           [] m.kind = "LOAN" -> m.from = None
           [] m.kind = "REPAYMENT" -> m.to = None
           [] OTHER -> FALSE
ASSUME SlipsAssumption == Slips \subseteq SlipKinds

VARIABLES
    docs,           \* Txn rows with their line and payment row
    alloc,          \* BillWiseAllocation rows: payment, invoice, amount
    currentStock,   \* Item.currentStock
    stockLevel,     \* StockLevel.quantity of a shop's warehouse and an item
    partyBalance,   \* Party.currentBalance; positive: the party owes us
    accounts,       \* BankAccount rows that exist
    accountBalance, \* BankAccount.balance
    cheques,        \* status and deposit account of a document's cheque
    counts,         \* what a unit of an item counts for in stock now: nothing
                    \* for a service or without trackStock, else 1 or the
                    \* conversionRate of the unit it is sold in
    miscounted,     \* history: items of which a deletion took back something
                    \* else than was posted
    transfers       \* BankTransfer, LoanAccount and LoanTxn rows

vars == <<docs, alloc, currentStock, stockLevel, partyBalance, accounts,
          accountBalance, cheques, counts, miscounted, transfers>>

Statuses == {"NONE", "HELD", "OPEN", "PARTIAL", "PAID", "REFUNDED",
             "ORDER_OPEN", "ORDER_CLOSED", "CONVERTED"}

Doc ==
    [type : TxnTypes, shop : Shops, party : Parties \cup {None},
     to : Parties \cup {None}, item : Items \cup {None}, qty : Nat,
     total : Nat, method : Methods, own : Nat,
     moved : Nat,    \* StockMovement.quantity of its last posting
     acct : AccountIds \cup {None}, paid : Int, status : Statuses,
     deleted : BOOLEAN, source : Docs \cup {None},
     against : Docs \cup {None}]

Cheque == [status : {"NONE", "OPEN", "CLOSED"},
           account : AccountIds \cup {None}]

NoCheque == [status |-> "NONE", account |-> None]

-----------------------------------------------------------------------------
(* Helpers.                                                                *)

Exists(d) == docs[d].status # "NONE"

Live(d) == Exists(d) /\ ~docs[d].deleted

(* The next document: ids are given out in order. *)
IsNext(n) == ~Exists(n) /\ \A d \in Docs : d < n => Exists(d)

(* What applyStock counts the line of t for, as its item is now.           *)
Counted(t) == IF t.item = None THEN 0 ELSE counts[t.item] * t.qty

(* What the posting of t moved: the line, by what it was counted for.      *)
StockMove(t, i) == StockEffect([type |-> t.type, item |-> t.item, qty |-> t.moved], i)

LevelEffect(t, k) == IF t.shop = k[1] THEN StockMove(t, k[2]) ELSE 0

(* What a posted document adds to the balance of party p. *)
PartyEffect(t, p) ==
    IF t.type = "P2P_TRANSFER"
    THEN (IF t.party # None /\ t.to = p THEN t.total ELSE 0)
         - (IF t.party = p /\ t.to # None THEN t.total ELSE 0)
    ELSE IF t.party = p THEN PartyDelta(t.type, t.total, t.total - t.own) ELSE 0

(* What the payment of a document adds to the account it lands in. *)
MoneyEffect(t) == IF Inbound(t.type) THEN t.own ELSE -t.own

PaysInto(t) == t.own > 0 /\ t.method \in Kinds

PaysByCheque(t) == t.own > 0 /\ t.method = "CHEQUE"

(* A forward posting may not take an item below zero. *)
EnoughStock(t) ==
    \A i \in Items : StockMove(t, i) < 0 => currentStock[i] + StockMove(t, i) >= 0

(* Fault: an account of the kind in another shop is as good as the own.    *)
ResolveAnyAccount(shop, kind, pick) ==
    LET any == {a \in accounts : a.kind = kind}
    IN  IF pick # None THEN {pick}
        ELSE IF any = {} THEN {[shop |-> shop, kind |-> kind]} ELSE any

(* The account a payment is posted to: the one picked, if it belongs to    *)
(* the shop; else the shop's account of that kind, else any account of the *)
(* kind, else a new account of the shop.                                   *)
ResolveMoneyAccount(shop, kind, pick) ==
    LET own == [shop |-> shop, kind |-> kind]
        any == {a \in accounts : a.kind = kind}
    IN  IF pick # None
        THEN {IF pick \in accounts /\ pick.shop = shop THEN pick ELSE None}
        ELSE IF own \in accounts \/ any = {} THEN {own} ELSE any

(* The account found again by the id kept on the payment row. *)
AccountOfRow(t) ==
    IF t.acct # None /\ t.acct \in accounts /\ t.acct.shop = t.shop THEN t.acct ELSE None

-----------------------------------------------------------------------------
(* The effects of a document.                                              *)

(* Fault: a transfer between parties is not turned round by its reversal.  *)
PostTransferForward(t, invert) ==
    /\ currentStock' = [i \in Items |->
                          currentStock[i] + Signed(StockMove(t, i), invert)]
    /\ stockLevel' = [k \in Shops \X Items |->
                        stockLevel[k] + Signed(LevelEffect(t, k), invert)]
    /\ partyBalance' = [p \in Parties |->
                          partyBalance[p] + Signed(PartyEffect(t, p),
                                                   invert /\ t.type # "P2P_TRANSFER")]

(* Fault: the stock level moved is always that of the default warehouse.   *)
PostDefaultWarehouse(t, invert) ==
    /\ currentStock' = [i \in Items |->
                          currentStock[i] + Signed(StockMove(t, i), invert)]
    /\ stockLevel' = [k \in Shops \X Items |->
                        stockLevel[k] + (IF k[1] = CHOOSE s \in Shops : TRUE
                                         THEN Signed(StockMove(t, k[2]), invert) ELSE 0)]
    /\ partyBalance' = [p \in Parties |->
                          partyBalance[p] + Signed(PartyEffect(t, p), invert)]

PostStockAndParty(t, invert) ==
    /\ currentStock' = [i \in Items |->
                          currentStock[i] + Signed(StockMove(t, i), invert)]
    /\ stockLevel' = [k \in Shops \X Items |->
                        stockLevel[k] + Signed(LevelEffect(t, k), invert)]
    /\ partyBalance' = [p \in Parties |->
                          partyBalance[p] + Signed(PartyEffect(t, p), invert)]

(* The accounts after the payment of t moved into, or back out of, acct. *)
Moved(t, acct, invert) ==
    [a \in AccountIds |->
       accountBalance[a]
       + (IF PaysInto(t) /\ a = acct THEN Signed(MoneyEffect(t), invert) ELSE 0)]

(* applyPayments for the payment of a new posting: acct is the account     *)
(* that was resolved; a cheque moves no money until it is deposited.       *)
Pay(d, t, acct) ==
    /\ accountBalance' = Moved(t, acct, FALSE)
    /\ accounts' = IF PaysInto(t) /\ acct # None THEN accounts \cup {acct} ELSE accounts
    /\ cheques' = IF PaysByCheque(t)
                  THEN [cheques EXCEPT ![d] = [status |-> "OPEN", account |-> None]]
                  ELSE cheques

(* Fault: the reversal leaves the cheque row behind.                       *)
UnpayKeepsCheque(d, t) ==
    /\ accountBalance' =
         IF PaysByCheque(t) /\ cheques[d].status = "CLOSED"
         THEN [accountBalance EXCEPT ![cheques[d].account] = @ - MoneyEffect(t)]
         ELSE Moved(t, AccountOfRow(t), TRUE)
    /\ UNCHANGED <<accounts, cheques>>

(* Fault: the reversal leaves a deposited cheque in the account.           *)
UnpayKeepsDeposit(d, t) ==
    /\ accountBalance' = Moved(t, AccountOfRow(t), TRUE)
    /\ cheques' = IF PaysByCheque(t) THEN [cheques EXCEPT ![d] = NoCheque] ELSE cheques
    /\ UNCHANGED accounts

(* applyPayments with invert: a deposited cheque is taken back out of the  *)
(* account and the cheque is removed.                                      *)
Unpay(d, t) ==
    /\ accountBalance' =
         IF PaysByCheque(t) /\ cheques[d].status = "CLOSED"
         THEN [accountBalance EXCEPT ![cheques[d].account] = @ - MoneyEffect(t)]
         ELSE Moved(t, AccountOfRow(t), TRUE)
    /\ cheques' = IF PaysByCheque(t) THEN [cheques EXCEPT ![d] = NoCheque] ELSE cheques
    /\ UNCHANGED accounts

(* Fault: the status stays what it was before the allocation.              *)
AllocatedStaleStatus(rows, amounts, invert) ==
    [e \in Docs |->
       IF amounts[e] = 0 THEN rows[e]
       ELSE [rows[e] EXCEPT !.paid = @ + Signed(amounts[e], invert)]]

(* Fault: deleting a payment leaves the invoices it settled paid.          *)
AllocatedForGood(rows, amounts, invert) ==
    [e \in Docs |->
       IF amounts[e] = 0 \/ invert THEN rows[e]
       ELSE LET paid == rows[e].paid + amounts[e]
            IN  [rows[e] EXCEPT !.paid = paid,
                                !.status = Settlement(rows[e].total, paid)]]

(* applyAllocations: every invoice named in the rows gets its amount. *)
Allocated(rows, amounts, invert) ==
    [e \in Docs |->
       IF amounts[e] = 0 THEN rows[e]
       ELSE LET paid == rows[e].paid + Signed(amounts[e], invert)
            IN  [rows[e] EXCEPT !.paid = paid,
                                !.status = Settlement(rows[e].total, paid)]]

NoAmounts == [e \in Docs |-> 0]

-----------------------------------------------------------------------------
(* Operations.                                                             *)

(* The row a request makes.  Orders and estimates drop the payments a      *)
(* client sends; acct is what is kept of the account the payment is posted *)
(* to.                                                                     *)
NewDoc(in, acct, source, against) ==
    LET own == IF in.type \in OrderTypes THEN 0 ELSE in.own
    IN  [type |-> in.type, shop |-> in.shop, party |-> in.party, to |-> in.to,
         item |-> in.item, qty |-> in.qty, total |-> in.total,
         method |-> in.method, own |-> own, moved |-> Counted(in),
         acct |-> IF own > 0 /\ in.method \in Kinds
                  THEN IF acct # None THEN acct ELSE in.pick
                  ELSE None,
         paid |-> IF in.type \in PaymentTypes THEN in.total ELSE own,
         status |-> IF in.hold THEN "HELD"
                    ELSE IF in.type \in OrderTypes THEN "ORDER_OPEN"
                    ELSE IF in.type \in PaymentTypes THEN "PAID"
                    ELSE Settlement(in.total, own),
         deleted |-> FALSE, source |-> source, against |-> against]

(* The checks of createTxn before its transaction; items and parties are   *)
(* looked for in the shop only.                                            *)
Acceptable(in) ==
    /\ in.item # None => Home[in.item] = in.shop
    /\ in.party # None => Home[in.party] = in.shop
    /\ in.type \in LineTypes => in.item # None /\ in.qty > 0
    /\ IF in.type \in PaymentTypes THEN in.own = in.total
       ELSE in.type \in OrderTypes \/ in.own <= in.total

(* createTxn for a document that posts at once, with the rest of docs and  *)
(* alloc left to the caller.                                               *)
PostNew(n, in, t, acct) ==
    /\ Acceptable(in)
    /\ EnoughStock(t)
    /\ PostStockAndParty(t, FALSE)
    /\ Pay(n, t, acct)

(* Credit sales come here through createInvoice, whose credit limit is     *)
(* compared with the total of the request body: no client sends one, and   *)
(* a comparison with NaN rejects nothing.                                  *)
CreateTxn(n, in) ==
    /\ IsNext(n)
    /\ ~in.hold
    /\ in.type \notin PaymentTypes
    /\ \E acct \in ResolveMoneyAccount(in.shop, in.method, in.pick) :
         LET t == NewDoc(in, acct, None, None)
         IN  /\ PostNew(n, in, t, acct)
             /\ docs' = [docs EXCEPT ![n] = t]
    /\ UNCHANGED <<alloc, counts, miscounted, transfers>>

(* A parked POS bill: the row is made and nothing is posted. *)
HoldBill(n, in) ==
    /\ IsNext(n)
    /\ in.hold
    /\ Acceptable(in)
    /\ docs' = [docs EXCEPT ![n] = NewDoc(in, None, None, None)]
    /\ UNCHANGED <<alloc, currentStock, stockLevel, partyBalance, accounts,
                   accountBalance, cheques, counts, miscounted, transfers>>

(* What a payment settles: the sale invoices, or the purchase bills, of    *)
(* its party.                                                              *)
SettledBy(type) == IF type = "PAYMENT_IN" THEN "SALE_INVOICE" ELSE "PURCHASE_BILL"

Owing(in) ==
    {e \in Docs : /\ Live(e)
                  /\ docs[e].type = SettledBy(in.type)
                  /\ docs[e].party = in.party
                  /\ docs[e].status \in {"OPEN", "PARTIAL"}
                  /\ docs[e].total - docs[e].paid > 0}

(* autoAllocate: oldest first, each invoice up to its balance; the set has *)
(* one member.                                                             *)
AutoAllocations(in) ==
    LET Owed(e) == docs[e].total - docs[e].paid
        before(e) == Sum(Owed, {f \in Owing(in) : f < e})
        left(e) == IF in.total > before(e) THEN in.total - before(e) ELSE 0
    IN  {al \in [Docs -> 0 .. in.total] :
           \A e \in Docs : al[e] = IF e \notin Owing(in) THEN 0
                                  ELSE IF left(e) < Owed(e) THEN left(e) ELSE Owed(e)}

(* The allocations a client can send: of a payment in they add up to the   *)
(* amount unless there are none; nothing caps them at what an invoice      *)
(* still owes, and whether it is on hold or deleted is left to the client. *)
ManualAllocations(in) ==
    {al \in [Docs -> 0 .. in.total] :
       /\ \A e \in Docs : al[e] > 0 =>
            /\ Exists(e)
            /\ docs[e].type = SettledBy(in.type)
            /\ docs[e].party = in.party
            /\ docs[e].deleted \/ docs[e].status = "HELD" =>
                 "allocate_unlisted" \in Slips
       /\ in.type = "PAYMENT_IN" =>
            Sum(LAMBDA e : al[e], Docs) \in {0, in.total}}

(* createPaymentIn and createPaymentOut: the posting and the allocations. *)
CreatePayment(n, in, al) ==
    /\ ~in.hold
    /\ in.party # None
    /\ in.total > 0
    /\ \E acct \in ResolveMoneyAccount(in.shop, in.method, in.pick) :
         LET t == NewDoc(in, acct, None, None)
         IN  /\ PostNew(n, in, t, acct)
             /\ docs' = [Allocated(docs, al, FALSE) EXCEPT ![n] = t]
    /\ alloc' = [alloc EXCEPT ![n] = al]
    /\ UNCHANGED <<counts, miscounted, transfers>>

CreatePaymentAuto(n, in) ==
    /\ IsNext(n)
    /\ in.type \in PaymentTypes
    /\ \E al \in AutoAllocations(in) : CreatePayment(n, in, al)

CreatePaymentManual(n, in) ==
    /\ IsNext(n)
    /\ in.type \in PaymentTypes
    /\ \E al \in ManualAllocations(in) : CreatePayment(n, in, al)

(* resumeHeld: the bill is finalised with the lines and payment of the     *)
(* request, within the party's credit limit.  Deleted bills are not        *)
(* excluded by the code; a client does not list them.                      *)
ResumeHeld(d, in) ==
    LET txn == docs[d]
        limit == CreditLimit[txn.party]
    IN  /\ txn.status = "HELD"
        /\ txn.deleted => "resume_deleted" \in Slips
        /\ in.type = txn.type /\ in.shop = txn.shop /\ ~in.hold
        /\ Acceptable(in)
        /\ txn.party # None /\ limit # None =>
             partyBalance[txn.party] + in.total - in.own <= limit
        /\ \E acct \in ResolveMoneyAccount(in.shop, in.method, in.pick) :
             LET t == [NewDoc([in EXCEPT !.party = txn.party], acct, txn.source, txn.against)
                         EXCEPT !.deleted = txn.deleted]
             IN  /\ EnoughStock(t)
                 /\ PostStockAndParty(t, FALSE)
                 /\ Pay(d, t, acct)
                 /\ docs' = [docs EXCEPT ![d] = t]
        /\ UNCHANGED <<alloc, counts, miscounted, transfers>>

(* What the credit notes in force have taken back of an invoice. *)
Returned(d) ==
    LET notes == {c \in Docs : Live(c) /\ docs[c].type = "CREDIT_NOTE"
                                        /\ docs[c].against = d}
    IN  Sum(LAMBDA c : docs[c].qty, notes)

HasReturns(d) ==
    \E c \in Docs : Live(c) /\ docs[c].type = "CREDIT_NOTE" /\ docs[c].against = d

(* refundInvoice for qty units of the line; full is a return without a     *)
(* selection, which refunds the bill total if nothing was returned before. *)
(* Held and deleted invoices are not excluded by the code.                 *)
RefundInvoice(n, d, qty, full, cash) ==
    LET txn == docs[d]
        total == IF full /\ ~HasReturns(d) THEN txn.total ELSE qty * Price[txn.item]
        in == [type |-> "CREDIT_NOTE", shop |-> txn.shop, party |-> txn.party,
               to |-> None, item |-> txn.item, qty |-> qty, total |-> total,
               method |-> "CASH", own |-> IF cash THEN total ELSE 0,
               pick |-> None, hold |-> FALSE]
    IN  /\ IsNext(n)
        /\ Exists(d) /\ txn.type = "SALE_INVOICE"
        /\ txn.status = "HELD" => "return_held" \in Slips
        /\ txn.deleted => "return_deleted" \in Slips
        /\ qty <= txn.qty - Returned(d)
        /\ full => qty = txn.qty - Returned(d)
        /\ \E acct \in ResolveMoneyAccount(in.shop, in.method, in.pick) :
             LET t == NewDoc(in, acct, None, d)
             IN  /\ PostNew(n, in, t, acct)
                 /\ docs' = [e \in Docs |->
                       IF e = n THEN t
                       ELSE IF e = d /\ Returned(d) + qty >= txn.qty
                       THEN [txn EXCEPT !.status = "REFUNDED"]
                       ELSE docs[e]]
        /\ UNCHANGED <<alloc, counts, miscounted, transfers>>

(* What the live conversions of an order have received of its line. *)
Received(d) ==
    Sum(LAMBDA e : docs[e].qty,
                  {e \in Docs : Live(e) /\ docs[e].source = d /\ docs[e].item = docs[d].item})

(* Fault: a partial receipt closes the order.                              *)
StatusConvertedEarly(d, qty, part) ==
    IF docs[d].type \in {"ESTIMATE", "DELIVERY_CHALLAN"} THEN "CONVERTED"
    ELSE "ORDER_CLOSED"

(* The status of a source after qty units of it are converted. *)
StatusConverted(d, qty, part) ==
    IF docs[d].type \in {"ESTIMATE", "DELIVERY_CHALLAN"} THEN "CONVERTED"
    ELSE IF part /\ Received(d) + qty < docs[d].qty THEN docs[d].status
    ELSE "ORDER_CLOSED"

(* convertTxn: all of the source (part = FALSE), or qty units of it.  The  *)
(* claim of the source and the new document stand or fall together.        *)
ConvertTxn(n, d, qty, part, cash) ==
    LET src == docs[d]
        total == IF part THEN qty * Price[src.item] ELSE src.total
        in == [type |-> IF src.type = "PURCHASE_ORDER" THEN "PURCHASE_BILL"
                        ELSE "SALE_INVOICE",
               shop |-> src.shop, party |-> src.party, to |-> None,
               item |-> src.item, qty |-> qty, total |-> total,
               method |-> "CASH", own |-> IF cash THEN total ELSE 0,
               pick |-> None, hold |-> FALSE]
    IN  /\ IsNext(n)
        /\ Exists(d) /\ src.type \in OrderTypes
        /\ src.status \notin {"CONVERTED", "ORDER_CLOSED"}
        /\ ~part => qty = src.qty
        /\ \E acct \in ResolveMoneyAccount(in.shop, in.method, in.pick) :
             LET t == NewDoc(in, acct, d, None)
             IN  /\ PostNew(n, in, t, acct)
                 /\ docs' = [docs EXCEPT ![n] = t,
                                      ![d].status = StatusConverted(d, qty, part)]
        /\ UNCHANGED <<alloc, counts, miscounted, transfers>>

(* Fault: a bill on hold is taken for a posted one.                        *)
PostedOrHeld(t) == TRUE

Posted(t) == t.status # "HELD"

(* Fault: payments allocated to the bill are not looked for.               *)
UndeletableConverted(d) ==
    \E e \in Docs : Exists(e) /\ docs[e].source = d

(* deleteTxn: refused while a conversion of d exists, deleted or not, or a *)
(* payment was allocated to it.  The effects are reversed, the stock by    *)
(* what its item counts for now, and the order it came from is open again. *)
Undeletable(d) ==
    \E e \in Docs : (Exists(e) /\ docs[e].source = d) \/ alloc[e][d] > 0

DeleteTxn(d) ==
    LET txn == docs[d]
        back == [txn EXCEPT !.moved = Counted(txn)]
        released == IF Posted(txn) THEN Allocated(docs, alloc[d], TRUE) ELSE docs
    IN  /\ Live(d)
        /\ ~Undeletable(d)
        /\ IF Posted(txn)
           THEN /\ PostStockAndParty(back, TRUE)
                /\ Unpay(d, txn)
                /\ miscounted' = miscounted \cup
                     {i \in Items : StockMove(back, i) # StockMove(txn, i)}
           ELSE UNCHANGED <<currentStock, stockLevel, partyBalance, accounts,
                            accountBalance, cheques, miscounted>>
        /\ docs' = [e \in Docs |->
                      IF e = d THEN [txn EXCEPT !.deleted = TRUE]
                      ELSE IF e = txn.source THEN [docs[e] EXCEPT !.status = "ORDER_OPEN"]
                      ELSE released[e]]
        /\ UNCHANGED <<alloc, counts, transfers>>

(* restoreTxn: the effects are posted again, on the kept payment row and   *)
(* by what the item counts for now.                                        *)
RestoreTxn(d) ==
    LET txn == docs[d]
        again == [txn EXCEPT !.moved = IF Posted(txn) THEN Counted(txn) ELSE @]
        applied == IF Posted(txn) THEN Allocated(docs, alloc[d], FALSE) ELSE docs
    IN  /\ Exists(d) /\ txn.deleted
        /\ IF Posted(txn)
           THEN /\ EnoughStock(again)
                /\ PostStockAndParty(again, FALSE)
                /\ Pay(d, txn, AccountOfRow(txn))
           ELSE UNCHANGED <<currentStock, stockLevel, partyBalance, accounts,
                            accountBalance, cheques>>
        /\ docs' = [applied EXCEPT ![d] = [again EXCEPT !.deleted = FALSE]]
        /\ UNCHANGED <<alloc, counts, miscounted, transfers>>

(* settleCheque and reopenCheque. *)
SettleCheque(d, a) ==
    /\ cheques[d].status = "OPEN"
    /\ a \in accounts
    /\ cheques' = [cheques EXCEPT ![d] = [status |-> "CLOSED", account |-> a]]
    /\ accountBalance' = [accountBalance EXCEPT ![a] = @ + MoneyEffect(docs[d])]
    /\ UNCHANGED <<docs, alloc, currentStock, stockLevel, partyBalance, accounts,
                   counts, miscounted, transfers>>

ReopenCheque(d) ==
    /\ cheques[d].status = "CLOSED"
    /\ cheques' = [cheques EXCEPT ![d] = [status |-> "OPEN", account |-> None]]
    /\ accountBalance' =
         [accountBalance EXCEPT ![cheques[d].account] = @ - MoneyEffect(docs[d])]
    /\ UNCHANGED <<docs, alloc, currentStock, stockLevel, partyBalance, accounts,
                   counts, miscounted, transfers>>

(* updateItem: the type, trackStock or the units of an item are changed in *)
(* its form; its stock is left as it is.                                   *)
EditItem(i, n) ==
    /\ n # counts[i]
    /\ counts' = [counts EXCEPT ![i] = n]
    /\ UNCHANGED <<docs, alloc, currentStock, stockLevel, partyBalance, accounts,
                   accountBalance, cheques, miscounted, transfers>>

NoTransfer == [kind |-> "NONE", from |-> None, to |-> None, amount |-> 0]

(* What a transfer or a loan adds to account a. *)
TransferEffect(m, a) ==
    (IF m.to = a THEN m.amount ELSE 0) - (IF m.from = a THEN m.amount ELSE 0)

(* createTransfer, createLoan and createLoanTxn: a row that moves the      *)
(* accounts it names; a loan that is repaid is there.                      *)
MoveMoney(id, m) ==
    /\ transfers[id] = NoTransfer
    /\ {m.from, m.to} \subseteq accounts \cup {None}
    /\ m.kind = "REPAYMENT" => \E l \in Transfers : transfers[l].kind = "LOAN"
    /\ transfers' = [transfers EXCEPT ![id] = m]
    /\ accountBalance' = [a \in AccountIds |-> accountBalance[a] + TransferEffect(m, a)]
    /\ UNCHANGED <<docs, alloc, currentStock, stockLevel, partyBalance, accounts,
                   cheques, counts, miscounted>>

-----------------------------------------------------------------------------
HomeShop == CHOOSE s \in Shops : TRUE

BlankDoc ==
    [type |-> "SALE_INVOICE", shop |-> HomeShop, party |-> None, to |-> None,
     item |-> None, qty |-> 0, total |-> 0, method |-> "CASH", own |-> 0,
     moved |-> 0, acct |-> None, paid |-> 0, status |-> "NONE", deleted |-> FALSE,
     source |-> None, against |-> None]

(* Opening stock is kept in the warehouse of the item's shop. *)
Level0 == [k \in Shops \X Items |-> IF k[1] = Home[k[2]] THEN Stock0[k[2]] ELSE 0]

Init ==
    /\ docs = [d \in Docs |-> BlankDoc]
    /\ alloc = [d \in Docs |-> NoAmounts]
    /\ currentStock = Stock0
    /\ stockLevel = Level0
    /\ partyBalance = [p \in Parties |-> 0]
    /\ accounts = Accounts0
    /\ accountBalance = Opening0
    /\ cheques = [d \in Docs |-> NoCheque]
    /\ counts = [i \in Items |-> 1]
    /\ miscounted = {}
    /\ transfers = [m \in Transfers |-> NoTransfer]

Quantities == UNION {1 .. docs[d].qty : d \in Docs}

Next ==
    \/ \E n \in Docs, in \in Inputs : \/ CreateTxn(n, in)
                                       \/ HoldBill(n, in)
                                       \/ CreatePaymentAuto(n, in)
                                       \/ CreatePaymentManual(n, in)
                                       \/ ResumeHeld(n, in)
    \/ \E n, d \in Docs, b, cash \in BOOLEAN, qty \in Quantities :
                                       \/ RefundInvoice(n, d, qty, b, cash)
                                       \/ ConvertTxn(n, d, qty, b, cash)
    \/ \E d \in Docs : \/ DeleteTxn(d)
                       \/ RestoreTxn(d)
                       \/ ReopenCheque(d)
                       \/ \E a \in AccountIds : SettleCheque(d, a)
    \/ \E i \in Items, n \in Edits : EditItem(i, n)
    \/ \E id \in Transfers, m \in Moves : MoveMoney(id, m)

Spec == Init /\ [][Next]_vars

-----------------------------------------------------------------------------
(* Properties.                                                             *)

TypeOK ==
    /\ docs \in [Docs -> Doc]
    /\ alloc \in [Docs -> [Docs -> Nat]]
    /\ currentStock \in [Items -> Int]
    /\ stockLevel \in [Shops \X Items -> Int]
    /\ partyBalance \in [Parties -> Int]
    /\ accounts \subseteq AccountIds
    /\ accountBalance \in [AccountIds -> Int]
    /\ cheques \in [Docs -> Cheque]
    /\ counts \in [Items -> Nat]
    /\ miscounted \subseteq Items
    /\ transfers \in [Transfers -> Moves \cup {NoTransfer}]

(* A document counts in the books while it is neither held nor deleted. *)
InForce(d) == Live(d) /\ Posted(docs[d])

StockEntries ==
    [d \in Docs |-> [i \in Items |-> IF InForce(d) THEN StockMove(docs[d], i) ELSE 0]]

LevelEntries ==
    [d \in Docs |-> [k \in Shops \X Items |->
                       IF InForce(d) THEN LevelEffect(docs[d], k) ELSE 0]]

PartyEntries ==
    [d \in Docs |-> [p \in Parties |-> IF InForce(d) THEN PartyEffect(docs[d], p) ELSE 0]]

(* Money is where the payment row says, or where the cheque was deposited. *)
DocMoney(d, a) ==
    IF InForce(d) /\ \/ PaysInto(docs[d]) /\ docs[d].acct = a
                     \/ cheques[d].status = "CLOSED" /\ cheques[d].account = a
    THEN MoneyEffect(docs[d]) ELSE 0

MoneyEntries ==
    [x \in Docs \cup Transfers |-> [a \in AccountIds |->
       IF x \in Docs THEN DocMoney(x, a) ELSE TransferEffect(transfers[x], a)]]

(* The book of an item is spoilt by the deletion of a document whose line  *)
(* counted for something else when it was posted.                          *)
StockBook == INSTANCE Books WITH Keys <- Items, Opening <- Stock0,
                                 kept <- Items \ miscounted,
                                 total <- currentStock, entry <- StockEntries
LevelBook == INSTANCE Books WITH Keys <- Shops \X Items, Opening <- Level0,
                                 kept <- Shops \X (Items \ miscounted),
                                 total <- stockLevel, entry <- LevelEntries
PartyBook == INSTANCE Books WITH Keys <- Parties, Opening <- [p \in Parties |-> 0],
                                 kept <- Parties,
                                 total <- partyBalance, entry <- PartyEntries
MoneyBook == INSTANCE Books WITH Docs <- Docs \cup Transfers, Keys <- AccountIds,
                                 Opening <- Opening0, kept <- AccountIds,
                                 total <- accountBalance, entry <- MoneyEntries

(* README "Each transaction atomically updates stock, party balance,       *)
(* cash/bank balances": currentStock follows the documents in force, one   *)
(* document a step, through every create, resume, delete, restore and edit *)
(* of an item, until a deletion of a document reverses another quantity    *)
(* than it posted (applyStock reads the item as it is now).                *)
StockFollowsDocs == StockBook!Spec

(* The same of the stock level of every shop, which applyStock keeps       *)
(* beside currentStock.                                                    *)
LevelsFollowDocs == LevelBook!Spec

(* The same of party balances: the reversal takes back what was posted     *)
(* when the document was made, whatever payments were allocated since.     *)
PartiesFollowDocs == PartyBook!Spec

(* The same of money accounts, with cheques that count only while they are *)
(* deposited, and transfers and loans beside the documents: a reversal     *)
(* finds the very account the posting used.                                *)
MoneyFollowsDocs == MoneyBook!Spec

(* The paid amount of a document is its own payment and what the live      *)
(* payments have allocated to it, and its status says as much              *)
(* (applyAllocations writes both from what it read).                       *)
PaidIsPayments ==
    \A d \in Docs : Exists(d) =>
        LET live == {p \in Docs : Live(p)}
        IN  /\ docs[d].paid = Sum(LAMBDA p : alloc[p][d], live)
               + docs[d].own
            /\ docs[d].status \in {"OPEN", "PARTIAL", "PAID"} =>
                 docs[d].status = Settlement(docs[d].total, docs[d].paid)

(* A closed order is covered by live documents made from it, and a         *)
(* converted estimate has one ("only close the order once the cumulative   *)
(* received quantity covers every ordered line", convertTxn).              *)
ClosedOrdersAreReceived ==
    \A d \in Docs :
        /\ docs[d].status = "ORDER_CLOSED" => Received(d) >= docs[d].qty
        /\ docs[d].status = "CONVERTED" => \E e \in Docs : Live(e) /\ docs[e].source = d

(* No payment row settles an invoice in the recycle bin, so that a payment *)
(* can be deleted and restored at any time (deleteTxn: "would leave that   *)
(* payment posted against a deleted document").                            *)
SettledInvoicesStay ==
    \A p, e \in Docs : alloc[p][e] > 0 => Live(e) /\ Posted(docs[e])

(* A cheque row exists exactly while the document it pays is in force, and *)
(* names an account exactly while it is deposited.                         *)
ChequesFollowDocs ==
    \A d \in Docs :
        /\ cheques[d].status # "NONE" <=> InForce(d) /\ PaysByCheque(docs[d])
        /\ cheques[d].status = "CLOSED" <=> cheques[d].account # None

-----------------------------------------------------------------------------
(* The inductive invariant, of which TypeOK, SettledInvoicesStay and       *)
(* ChequesFollowDocs are parts.                                            *)

(* What createTxn and convertTxn write and nothing changes: a row that is  *)
(* not there is blank, lines name an item, only invoices are held and they *)
(* have no payment, and documents are converted from orders.               *)
RowsWellFormed ==
    \A d \in Docs :
        /\ ~Exists(d) => docs[d] = BlankDoc
        /\ Exists(d) /\ docs[d].type \in LineTypes => docs[d].item # None
        /\ docs[d].status = "HELD" => docs[d].type = "SALE_INVOICE" /\ docs[d].own = 0
        /\ docs[d].source # None => /\ docs[d].type \notin OrderTypes
                                    /\ docs[docs[d].source].type \in OrderTypes

(* The invariant that needs no other. *)
CoreInv == TypeOK /\ RowsWellFormed /\ SettledInvoicesStay /\ ChequesFollowDocs

(* What createTxn lets through: items and parties are those of the shop,   *)
(* orders and transfers are not paid, payments are paid in full by a       *)
(* party, the account of a row is that of a payment, and what is made from *)
(* an order has the item of the order.                                     *)
FollowsRequest(t) ==
    /\ t.type \in PaymentTypes => t.own = t.total /\ t.party # None
    /\ t.type \in OrderTypes \cup {"P2P_TRANSFER"} => t.own = 0
    /\ t.item # None => Home[t.item] = t.shop
    /\ t.party # None => Home[t.party] = t.shop
    /\ t.acct # None => PaysInto(t)
    /\ t.status = "HELD" => t.source = None
    /\ t.source # None => t.item = docs[t.source].item

RowsFollowRequests == \A d \in Docs : Exists(d) => FollowsRequest(docs[d])

(* Payments settle bills of their own side and party. *)
AllocationsMatch ==
    \A p, e \in Docs : alloc[p][e] > 0 =>
        /\ Exists(p) /\ docs[p].type \in PaymentTypes
        /\ docs[e].type = SettledBy(docs[p].type)
        /\ docs[e].party = docs[p].party

(* The account a payment or a cheque went to is there for good, and that   *)
(* of a payment belongs to the shop of its document.                       *)
AccountsOfRows ==
    /\ Accounts0 \subseteq accounts
    /\ \A a \in accounts \ Accounts0 : a.shop \in Shops
    /\ \A d \in Docs : PaysInto(docs[d]) => /\ docs[d].acct \in accounts
                                           /\ docs[d].acct.shop = docs[d].shop
    /\ \A d \in Docs : cheques[d].account # None => cheques[d].account \in accounts

(* The inductive invariant of the documents and what they settle.          *)
BooksInv ==
    /\ CoreInv
    /\ RowsFollowRequests
    /\ AllocationsMatch
    /\ PaidIsPayments
    /\ ClosedOrdersAreReceived

(* The whole inductive invariant. *)
IInv == BooksInv /\ AccountsOfRows

(* What AccountsOfRows needs of a business.  Every shop has an account for *)
(* a method of payment, or there is one shop and no account without a      *)
(* shop: else resolveMoneyAccount falls back on an account that a reversal *)
(* does not find (the branch filter is on its lookup by id).  And clients  *)
(* pick accounts of their shop.                                            *)
AccountsOfTheirOwn ==
    \A k \in Kinds :
        \/ \A s \in Shops : [shop |-> s, kind |-> k] \in Accounts0
        \/ \E s \in Shops : /\ Shops = {s}
                            /\ \A a \in Accounts0 : a.kind = k => a.shop = s

PicksOfTheirOwn ==
    \A in \in Inputs : in.pick # None => in.pick \in Accounts0 /\ in.pick.shop = in.shop
=============================================================================

------------------------------ MODULE TxnRows ------------------------------
(***************************************************************************)
(* The requests of the transaction engine, of inventory and of cash and    *)
(* bank, statement by statement, on the rows of the database.              *)
(*                                                                         *)
(* TxnCore handles one request after the other.  Here several are under    *)
(* way at once: each is a script of statements, and the database runs them *)
(* at READ COMMITTED.  A read sees what is committed and what its own      *)
(* transaction wrote; a write waits for the transaction that wrote the row *)
(* before and keeps the row until its own ends.  Outside a transaction     *)
(* every statement commits by itself.  A process may stop between any two  *)
(* statements, and its open transaction is rolled back.                    *)
(*                                                                         *)
(* Abstractions: one item, so that a document is one line and locks one    *)
(* level; lines and payments as in TxnCore; one payment allocated to at    *)
(* most one invoice.  The code takes the lines of a document in their      *)
(* order, and nothing is claimed here about deadlocks between documents    *)
(* that list two items in opposite orders: the database ends one of the    *)
(* two transactions, which is what BreakDeadlock models.                   *)
(***************************************************************************)
EXTENDS Integers, Sequences, FiniteSetsExt, Postings

CONSTANTS
    None,
    Clients,        \* each makes one request
    Requests,       \* the requests a client may make
    Shops,
    Parties,
    Given,          \* the documents that are there at the start
    Stock0,         \* stock of the item, kept in HomeShop
    HomeShop,
    MayCrash        \* clients whose process may stop half way

GivenDocs == DOMAIN Given
DocIds == GivenDocs \cup Clients    \* a client makes at most one document

(* What is written in a document and never changes. *)
Content ==
    [type : TxnTypes, shop : Shops, party : Parties \cup {None},
     item : BOOLEAN, qty : Nat, total : Nat, own : Nat, cheque : BOOLEAN,
     source : GivenDocs \cup {None}, against : GivenDocs \cup {None},
     pays : GivenDocs \cup {None}]

Ops == {"create", "resume", "delete", "restore", "refund", "convert",
        "deposit", "reopen", "adjust", "count", "move",
        "transfer", "borrow", "openLoan", "loan", "loanEntry"}

(* What createTxn and autoAllocate let a document say: lines are priced for *)
(* the shop that keeps the item, a payment is allocated to a bill of the   *)
(* right kind and party, and only an order is converted.                   *)
Sound(t) ==
    /\ t \in Content
    /\ t.item => t.shop = HomeShop
    /\ t.pays # None =>
         LET bill == Given[t.pays].is
         IN  /\ t.type \in PaymentTypes /\ t.party # None /\ t.party = bill.party
             /\ bill.type = IF t.type = "PAYMENT_IN" THEN "SALE_INVOICE" ELSE "PURCHASE_BILL"
    /\ t.source # None => /\ t.type \in {"SALE_INVOICE", "PURCHASE_BILL"}
                          /\ Given[t.source].is.type \in OrderTypes

(* What a handler finds when it looks its request up. *)
Legal(r) ==
    /\ r.op \in Ops
    /\ r.shop \in Shops /\ r.qty \in Int /\ r.part \in BOOLEAN
    /\ r.op = "create" =>
         /\ Sound(r.in) /\ r.in.source = None /\ r.in.against = None
    /\ r.op \in {"resume", "delete", "restore", "refund", "convert", "deposit", "reopen"} =>
         r.doc \in GivenDocs
    /\ r.op \in {"resume", "refund"} => Given[r.doc].is.type = "SALE_INVOICE"
    /\ r.op = "convert" => Given[r.doc].is.type \in OrderTypes
    /\ r.op \in {"deposit", "reopen"} => Given[r.doc].is.cheque
    /\ r.op \in {"refund", "convert"} => r.qty \in Nat
    /\ r.op \in {"move", "transfer"} => r.to \in Shops
    /\ r.op = "borrow" => r.qty > 0
    /\ r.op \in {"loan", "loanEntry"} => r.qty # 0

ASSUME RequestsAssumption == \A r \in Requests : Legal(r)

(* Documents of a database at rest, as requests one by one leave it. *)
Rests(d) == Given[d].status # "HELD" /\ ~Given[d].deleted
Allotted(d) ==
    Sum(LAMBDA e : Given[e].allocated, {e \in GivenDocs : Rests(e) /\ Given[e].is.pays = d})

StatusesOf(type) ==
    CASE type \in OrderTypes -> {"ORDER_OPEN", "ORDER_CLOSED", "CONVERTED"}
      [] type \in PaymentTypes -> {"PAID"}
      [] type = "SALE_INVOICE" -> {"OPEN", "PARTIAL", "PAID", "REFUNDED", "HELD"}
      [] OTHER -> {"OPEN", "PARTIAL", "PAID"}

AtRest(d) ==
    LET g == Given[d]
        conversions == {e \in GivenDocs : Rests(e) /\ Given[e].is.source = d}
    IN  /\ Sound(g.is)
        /\ g.deleted \in BOOLEAN /\ g.paid \in Nat /\ g.allocated \in 0 .. g.is.total
        /\ g.status \in StatusesOf(g.is.type)
        /\ g.cheque \in IF Rests(d) /\ g.is.cheque THEN {"OPEN", "CLOSED"} ELSE {"NONE"}
        /\ g.is.pays = None => g.allocated = 0
        /\ g.status = "HELD" => g.is.source = None /\ \A e \in GivenDocs : Given[e].is.pays # d
        /\ g.is.type = "SALE_INVOICE" /\ g.status # "HELD" => g.paid = g.is.own + Allotted(d)
        /\ g.status = "CONVERTED" => conversions # {}
        /\ g.is.type \in {"ESTIMATE", "DELIVERY_CHALLAN"} =>
             /\ \A e, f \in conversions : e = f
             /\ conversions # {} => g.status # "ORDER_OPEN"

ASSUME GivenAssumption == \A d \in GivenDocs : AtRest(d)
ASSUME StockAssumption == HomeShop \in Shops /\ Stock0 \in Nat
ASSUME NamesAssumption ==
    /\ None \notin DocIds /\ None \notin Parties /\ Clients \cap GivenDocs = {}
    /\ IsFiniteSet(DocIds) /\ IsFiniteSet(Shops) /\ IsFiniteSet(Parties)

VARIABLES
    db,         \* committed value of every row
    request,    \* the request of a client
    mode,       \* idle, run, undo, or how the request ended
    pc,         \* next statement of a client
    seen,       \* values a client has read
    open,       \* clients with an open transaction
    buf,        \* rows the open transaction of a client has written
    together    \* pairs of clients whose requests overlapped

vars == <<db, request, mode, pc, seen, open, buf, together>>

-----------------------------------------------------------------------------
(* Rows.  A column that is written apart from the others is a row of its   *)
(* own here, and shares the lock of its row.                               *)

Stock == <<"item">>
Seq_(shop, type) == <<"seq", shop, type>>
Level(shop) == <<"level", shop>>
Party(p) == <<"party", p>>
Money(shop) == <<"money", shop>>
Status(d) == <<"status", d>>
Deleted(d) == <<"deleted", d>>
Paid(d) == <<"paid", d>>
Allocated(d) == <<"allocated", d>>
Cheque(d) == <<"cheque", d>>
Loan(l) == <<"loan", l>>     \* the one at hand (None) or a client's

(* The types that a request may create. *)
Numbered ==
    {"SALE_INVOICE", "CREDIT_NOTE", "PURCHASE_BILL"}
    \cup {r.in.type : r \in {r \in Requests : r.op = "create"}}

Rows ==
    {Stock} \cup {Level(s) : s \in Shops} \cup {Money(s) : s \in Shops}
    \cup {Seq_(s, t) : s \in Shops, t \in Numbered}
    \cup {Party(p) : p \in Parties}
    \cup {Loan(l) : l \in Clients \cup {None}}
    \cup UNION {{Status(d), Deleted(d), Paid(d), Allocated(d), Cheque(d)} : d \in DocIds}

LockOf(row) ==
    IF row[1] \in {"status", "deleted", "paid"} THEN <<"txn", row[2]>> ELSE row

Held(c) == {LockOf(r) : r \in DOMAIN buf[c]}

With(f, row, v) == [r \in DOMAIN f \cup {row} |-> IF r = row THEN v ELSE f[r]]

-----------------------------------------------------------------------------
(* Statements.                                                             *)

Begin == [op |-> "begin"]
Commit == [op |-> "commit"]
Read(row) == [op |-> "read", row |-> row]
Check(row, ok) == [op |-> "check", row |-> row, ok |-> ok]   \* else refuse
Enough(row, n) == [op |-> "enough", row |-> row, n |-> n]    \* else refuse
Add(row, n) == [op |-> "add", row |-> row, n |-> n]          \* SET x = x + n
Put(row, v) == [op |-> "put", row |-> row, v |-> v]          \* SET x = v
Claim(row, from, to) ==                                      \* WHERE x = from
    [op |-> "claim", row |-> row, from |-> from, v |-> to]

Writes == {"add", "put", "claim"}

-----------------------------------------------------------------------------
(* The document a request makes: a payment, a sale, a return, a bill.      *)

Made(r) ==
    LET src == Given[r.doc].is
        like == [src EXCEPT !.qty = r.qty, !.total = r.qty, !.own = 0, !.cheque = FALSE,
                            !.source = None, !.against = None]
    IN  CASE r.op = "create" -> r.in
          [] r.op = "refund" -> [like EXCEPT !.type = "CREDIT_NOTE", !.own = r.qty,
                                             !.against = r.doc]
          [] r.op = "convert" ->
               [like EXCEPT !.type = IF src.type = "PURCHASE_ORDER" THEN "PURCHASE_BILL"
                                     ELSE "SALE_INVOICE",
                            !.source = r.doc]

Makers == {"create", "refund", "convert"}

MakesDoc(c) == mode[c] # "idle" /\ request[c].op \in Makers

Is(d) == IF d \in GivenDocs THEN Given[d].is ELSE Made(request[d])

There(d) == db[Status(d)] # "NONE"

InForce(d) == There(d) /\ db[Status(d)] # "HELD" /\ ~db[Deleted(d)]

OnStock(t) == IF t.item THEN StockEffect([t EXCEPT !.item = Stock], Stock) ELSE 0

OnParty(t) == IF t.party = None THEN 0 ELSE PartyDelta(t.type, t.total, t.total - t.own)

OnMoney(t) == Signed(t.own, ~Inbound(t.type))

NewDocs == {c \in Clients : MakesDoc(c)}
AllDocs == GivenDocs \cup NewDocs

LiveQty(S) == Sum(LAMBDA e : Is(e).qty, {e \in S : There(e) /\ ~db[Deleted(e)]})

Returned(d) == LiveQty({e \in AllDocs : Is(e).against = d})

Received(d) == LiveQty({e \in AllDocs : Is(e).source = d})

(* A conversion of d, deleted or not, or a payment allocated to it. *)
Linked(d) ==
    \E e \in AllDocs : There(e) /\ (Is(e).source = d \/ (Is(e).pays = d /\ db[Allocated(e)] > 0))

(* What a read of a row, or a query over the documents of d, returns. *)
View(c, row) ==
    IF row \in DOMAIN buf[c] THEN buf[c][row]
    ELSE CASE row[1] = "returned" -> Returned(row[2])
           [] row[1] = "received" -> Received(row[2])
           [] row[1] = "linked" -> Linked(row[2])
           [] row[1] = "owed" -> Is(row[2]).total - db[Paid(row[2])]
           [] OTHER -> db[row]

(* What a client has read, v; no statement runs before what it needs. *)
Seen(v, row) ==
    IF row \in DOMAIN v THEN v[row]
    ELSE IF row[1] \in {"status", "cheque"} THEN "NONE" ELSE 0

-----------------------------------------------------------------------------
(* The parts of postEffects, in the order the code runs them.              *)

(* Fault: the stock level is read before the item is written.              *)
ApplyStockLevelFirst(v, t, invert) ==
    LET n == Signed(OnStock(t), invert)
    IN  IF n = 0 THEN <<>>
        ELSE <<Read(Level(t.shop))>>
             \o (IF ~invert /\ n < 0 THEN <<Enough(Stock, n)>> ELSE <<>>)
             \o <<Add(Stock, n), Put(Level(t.shop), Seen(v, Level(t.shop)) + n)>>

ApplyStock(v, t, invert) ==
    LET n == Signed(OnStock(t), invert)
    IN  IF n = 0 THEN <<>>
        ELSE (IF ~invert /\ n < 0 THEN <<Enough(Stock, n)>> ELSE <<>>)
             \o <<Add(Stock, n), Read(Level(t.shop)),
                  Put(Level(t.shop), Seen(v, Level(t.shop)) + n)>>

ApplyPartyBalance(t, invert) ==
    IF OnParty(t) = 0 THEN <<>> ELSE <<Add(Party(t.party), Signed(OnParty(t), invert))>>

(* A reversal takes the money of a cheque back only if it was deposited. *)
ApplyPayments(v, d, t, invert) ==
    CASE t.own = 0 -> <<>>
      [] t.own # 0 /\ ~t.cheque -> <<Add(Money(t.shop), Signed(OnMoney(t), invert))>>
      [] t.own # 0 /\ t.cheque /\ ~invert -> <<Put(Cheque(d), "OPEN")>>
      [] OTHER -> <<Read(Cheque(d))>>
                  \o (IF Seen(v, Cheque(d)) = "CLOSED"
                      THEN <<Add(Money(t.shop), Signed(OnMoney(t), TRUE))>> ELSE <<>>)
                  \o <<Put(Cheque(d), "NONE")>>

ApplyAllocations(v, t, amount, invert) ==
    IF t.pays = None \/ amount = 0 THEN <<>>
    ELSE LET paid == Seen(v, Paid(t.pays)) + Signed(amount, invert)
         IN  <<Read(Paid(t.pays)), Put(Paid(t.pays), paid),
               Put(Status(t.pays), Settlement(Given[t.pays].is.total, paid))>>

(* Fault: allocations are applied before the party's row is locked.        *)
PostEffectsAllocateFirst(v, d, t, amount, invert) ==
    ApplyAllocations(v, t, amount, invert) \o ApplyStock(v, t, invert)
    \o ApplyPartyBalance(t, invert) \o ApplyPayments(v, d, t, invert)

PostEffects(v, d, t, amount, invert) ==
    ApplyStock(v, t, invert) \o ApplyPartyBalance(t, invert)
    \o ApplyPayments(v, d, t, invert) \o ApplyAllocations(v, t, amount, invert)

-----------------------------------------------------------------------------
(* The handlers.                                                           *)

FirstStatus(t) ==
    CASE t.type \in OrderTypes -> "ORDER_OPEN"
      [] t.type \in PaymentTypes -> "PAID"
      [] OTHER -> Settlement(t.total, t.own)

(* Fault: the number is taken from the sequence in a transaction of its own. *)
CreateTxnNumberedFirst(v, c, t, amount) ==
    <<Add(Seq_(t.shop, t.type), 1), Begin,
      Put(Status(c), FirstStatus(t)), Put(Paid(c), t.own), Put(Allocated(c), amount)>>
    \o PostEffects(v, c, t, amount, FALSE) \o <<Commit>>

(* createTxn: the number comes from a row that stays locked to the end. *)
CreateTxn(v, c, t, amount) ==
    <<Begin, Add(Seq_(t.shop, t.type), 1),
      Put(Status(c), FirstStatus(t)), Put(Paid(c), t.own), Put(Allocated(c), amount)>>
    \o PostEffects(v, c, t, amount, FALSE) \o <<Commit>>

(* autoAllocate reads what the invoice owes before createTxn begins. *)
Create(v, c, t) ==
    LET owed == IF t.pays = None THEN 0 ELSE Seen(v, <<"owed", t.pays>>)
        amount == IF owed < 0 THEN 0 ELSE IF owed < t.total THEN owed ELSE t.total
    IN  IF t.pays = None THEN CreateTxn(v, c, t, 0)
        ELSE <<Check(Status(t.pays), {"OPEN", "PARTIAL"}), Check(Deleted(t.pays), {FALSE}),
               Read(<<"owed", t.pays>>)>>
             \o CreateTxn(v, c, t, amount)

(* Fault: the status is tested before the transaction only.                *)
ResumeUnclaimed(v, d) ==
    LET t == Given[d].is
    IN  <<Check(Deleted(d), {FALSE}), Check(Status(d), {"HELD"}), Begin,
          Put(Status(d), FirstStatus(t)), Put(Paid(d), t.own)>>
        \o PostEffects(v, d, t, 0, FALSE) \o <<Commit>>

(* resumeHeld; a client lists no deleted bills. *)
Resume(v, d) ==
    LET t == Given[d].is
    IN  <<Check(Deleted(d), {FALSE}), Check(Status(d), {"HELD"}), Begin, Claim(Status(d), "HELD", "OPEN"),
          Put(Status(d), FirstStatus(t)), Put(Paid(d), t.own)>>
        \o PostEffects(v, d, t, 0, FALSE) \o <<Commit>>

(* deleteTxn: everything it decides on is read before its transaction; a   *)
(* bill with a payment or a conversion against it is refused.              *)
Delete(v, d) ==
    LET t == Given[d].is
        undo == IF Seen(v, Status(d)) = "HELD" THEN <<>>
                ELSE PostEffects(v, d, t, Seen(v, Allocated(d)), TRUE)
        reopen == IF t.source = None THEN <<>> ELSE <<Put(Status(t.source), "ORDER_OPEN")>>
    IN  <<Check(Deleted(d), {FALSE}), Check(<<"linked", d>>, {FALSE}),
          Read(Status(d)), Read(Allocated(d)), Begin>>
        \o undo \o reopen \o <<Put(Deleted(d), TRUE), Commit>>

Restore(v, d) ==
    LET t == Given[d].is
        redo == IF Seen(v, Status(d)) = "HELD" THEN <<>>
                ELSE PostEffects(v, d, t, Seen(v, Allocated(d)), FALSE)
    IN  <<Check(Deleted(d), {TRUE}), Read(Status(d)), Read(Allocated(d)), Begin>>
        \o redo \o <<Put(Deleted(d), FALSE), Commit>>

(* refundInvoice measures the return before createTxn and marks the        *)
(* invoice after it.  Bills on hold or deleted are not listed for return.  *)
Refund(v, c, r) ==
    LET d == r.doc
        sold == Given[d].is.qty
    IN  <<Check(Status(d), {"OPEN", "PARTIAL", "PAID", "REFUNDED"}), Check(Deleted(d), {FALSE}),
          Check(<<"returned", d>>, 0 .. (sold - r.qty))>>
        \o CreateTxn(v, c, Made(r), 0)
        \o (IF r.qty >= sold - Seen(v, <<"returned", d>>) THEN <<Put(Status(d), "REFUNDED")>> ELSE <<>>)

(* The status of an order after a conversion, from what was received when  *)
(* it was asked.                                                           *)
StatusAfter(v, r) ==
    IF Given[r.doc].is.type \in {"ESTIMATE", "DELIVERY_CHALLAN"} THEN "CONVERTED"
    ELSE IF r.part /\ Seen(v, <<"received", r.doc>>) + r.qty < Given[r.doc].is.qty
    THEN Seen(v, Status(r.doc))
    ELSE "ORDER_CLOSED"

Open == {"ORDER_OPEN"}

(* Fault: the source is marked without testing that it is still open.      *)
ConvertUnclaimed(v, c, r) ==
    <<Check(Status(r.doc), Open), Read(<<"received", r.doc>>),
      Put(Status(r.doc), StatusAfter(v, r))>>
    \o CreateTxn(v, c, Made(r), 0)

(* convertTxn: the claim of the source commits before the new document. *)
Convert(v, c, r) ==
    <<Check(Status(r.doc), Open), Read(<<"received", r.doc>>),
      Claim(Status(r.doc), Seen(v, Status(r.doc)), StatusAfter(v, r))>>
    \o CreateTxn(v, c, Made(r), 0)

(* ... and is given back when the document cannot be made. *)
Release(v, r) == Put(Status(r.doc), Seen(v, Status(r.doc)))

(* Fault: nothing is given back.                                           *)
ClaimedNever(c) == FALSE

Claimed(c) == request[c].op = "convert" /\ (pc[c] > 3 \/ mode[c] = "undo")

(* settleCheque and reopenCheque. *)
Deposit(d, from, to) ==
    LET t == Given[d].is
    IN  <<Check(Cheque(d), {from}), Begin, Claim(Cheque(d), from, to),
          Add(Money(t.shop), Signed(OnMoney(t), to = "OPEN")), Commit>>

(* items.service adjustStock: one transaction. *)
Adjust(v, shop, n) ==
    <<Begin, Add(Stock, n), Read(Level(shop)),
      Put(Level(shop), Seen(v, Level(shop)) + n), Commit>>

(* inventory.service adjustStock: the level and the item, each on its own. *)
Count(shop, n) == <<Add(Level(shop), n), Add(Stock, n)>>

(* transferStock: both levels are written from what was read before.  *)
Move(v, from, to, n) ==
    <<Enough(Level(from), -n), Read(Level(from)), Read(Level(to)), Begin,
      Put(Level(from), Seen(v, Level(from)) - n),
      Put(Level(to), Seen(v, Level(to)) + n), Commit>>

(* createTransfer: from one account to another, in that order. *)
Transfer(from, to, n) == <<Begin, Add(Money(from), -n), Add(Money(to), n), Commit>>

(* createLoan with an opening balance and the account it is paid into. *)
Borrow(c, shop, n) == <<Begin, Put(Loan(c), n), Add(Money(shop), n), Commit>>

(* createLoan without an account, as the page of loans asks, or of nothing. *)
OpenLoan(c, n) == <<Begin, Put(Loan(c), n), Commit>>

(* createLoanTxn from an account: more is drawn or, with n < 0, an         *)
(* instalment is paid.                                                     *)
LoanTxn(shop, n) == <<Begin, Add(Money(shop), n), Add(Loan(None), n), Commit>>

(* createLoanTxn without an account, as the page of loans asks. *)
LoanEntry(n) == <<Begin, Add(Loan(None), n), Commit>>

Handler(c, r, v) ==
    CASE r.op = "create" -> Create(v, c, r.in)
      [] r.op = "resume" -> Resume(v, r.doc)
      [] r.op = "delete" -> Delete(v, r.doc)
      [] r.op = "restore" -> Restore(v, r.doc)
      [] r.op = "refund" -> Refund(v, c, r)
      [] r.op = "convert" -> Convert(v, c, r)
      [] r.op = "deposit" -> Deposit(r.doc, "OPEN", "CLOSED")
      [] r.op = "reopen" -> Deposit(r.doc, "CLOSED", "OPEN")
      [] r.op = "adjust" -> Adjust(v, r.shop, r.qty)
      [] r.op = "count" -> Count(r.shop, r.qty)
      [] r.op = "move" -> Move(v, r.shop, r.to, r.qty)
      [] r.op = "transfer" -> Transfer(r.shop, r.to, r.qty)
      [] r.op = "borrow" -> Borrow(c, r.shop, r.qty)
      [] r.op = "openLoan" -> OpenLoan(c, r.qty)
      [] r.op = "loan" -> LoanTxn(r.shop, r.qty)
      [] r.op = "loanEntry" -> LoanEntry(r.qty)

Script(c) ==
    IF mode[c] = "undo" THEN <<Release(seen[c], request[c])>>
    ELSE Handler(c, request[c], seen[c])

-----------------------------------------------------------------------------
(* How the database runs them.                                             *)

Active(c) == mode[c] \in {"run", "undo"}

Holders(row) == {e \in Clients : LockOf(row) \in Held(e)}

NothingWritten == [r \in {} |-> 0]

RollBack(c) ==
    /\ buf' = [buf EXCEPT ![c] = NothingWritten]
    /\ open' = open \ {c}

(* The transaction is rolled back; a conversion gives its claim back. *)
Fail(c, how) ==
    /\ RollBack(c)
    /\ IF Claimed(c)
       THEN mode' = [mode EXCEPT ![c] = "undo"] /\ pc' = [pc EXCEPT ![c] = 1]
       ELSE mode' = [mode EXCEPT ![c] = how] /\ UNCHANGED pc
    /\ UNCHANGED <<db, seen>>

Start(c) ==
    /\ mode[c] = "idle"
    /\ \E r \in Requests : request' = [request EXCEPT ![c] = r]
    /\ mode' = [mode EXCEPT ![c] = "run"]
    /\ together' = together \cup {{c, e} : e \in {e \in Clients : Active(e)}}
    /\ UNCHANGED <<db, pc, seen, buf, open>>

Advance(c, last) ==
    /\ pc' = [pc EXCEPT ![c] = @ + 1]
    /\ mode' = IF last THEN [mode EXCEPT ![c] = "done"] ELSE mode

(* READ COMMITTED: a statement sees what is committed when it runs. *)
ReadRow(c, s, last) ==
    LET v == View(c, s.row)
    IN  IF \/ s.op = "check" /\ v \notin s.ok
           \/ s.op = "enough" /\ v + s.n < 0
        THEN Fail(c, "refused")
        ELSE /\ seen' = [seen EXCEPT ![c] = With(@, s.row, v)]
             /\ Advance(c, last)
             /\ UNCHANGED <<db, buf, open>>

(* A write waits for the row; its condition is tested once it has it. *)
WriteRow(c, s, last) ==
    LET v == IF s.op = "add" THEN View(c, s.row) + s.n ELSE s.v
    IN  /\ Holders(s.row) \subseteq {c}
        /\ IF s.op = "claim" /\ View(c, s.row) # s.from
           THEN Fail(c, "refused")
           ELSE /\ IF c \in open
                   THEN buf' = [buf EXCEPT ![c] = With(@, s.row, v)] /\ UNCHANGED db
                   ELSE db' = [db EXCEPT ![s.row] = v] /\ UNCHANGED buf
                /\ Advance(c, last)
                /\ UNCHANGED <<seen, open>>

BeginTransaction(c) ==
    /\ open' = open \cup {c}
    /\ Advance(c, FALSE)
    /\ UNCHANGED <<db, seen, buf>>

CommitAll(c, last) ==
    /\ db' = [r \in Rows |-> IF r \in DOMAIN buf[c] THEN buf[c][r] ELSE db[r]]
    /\ RollBack(c)
    /\ Advance(c, last)
    /\ UNCHANGED seen

Execute(c, s, last) ==
    CASE s.op = "begin" -> BeginTransaction(c)
      [] s.op = "commit" -> CommitAll(c, last)
      [] s.op \in Writes -> WriteRow(c, s, last)
      [] OTHER -> ReadRow(c, s, last)

Step(c) ==
    /\ Active(c)
    /\ \E script \in {Script(c)} :
         \E s \in {script[pc[c]]} : Execute(c, s, pc[c] = Len(script))
    /\ UNCHANGED <<request, together>>

(* Transactions that wait for each other, in a cycle and no others: the     *)
(* database ends one of them.                                              *)
BreakDeadlock(c) ==
    /\ Active(c) /\ Held(c) # {}
    /\ \E next \in {[e \in {e \in Clients : Active(e) /\ Held(e) # {}} |-> Script(e)[pc[e]]]} :
         LET waiting == {e \in DOMAIN next : next[e].op \in Writes}
             WaitsFor(e) == Holders(next[e].row) \ {e}
             Closed(S) == S # {} /\ \A e \in S : WaitsFor(e) \cap S # {}
         IN  \E S \in SUBSET waiting : /\ c \in S /\ Closed(S)
                                       /\ \A T \in SUBSET S : Closed(T) => T = S
    /\ Fail(c, "victim")
    /\ UNCHANGED <<request, together>>

(* The process stops: nobody is left to give a claim back. *)
Crash(c) ==
    /\ c \in MayCrash /\ Active(c)
    /\ mode' = [mode EXCEPT ![c] = "crashed"]
    /\ RollBack(c)
    /\ UNCHANGED <<db, request, pc, seen, together>>

NoRequest == [op |-> "create", doc |-> None, in |-> None, shop |-> HomeShop,
              to |-> None, qty |-> 0, part |-> FALSE]

Init ==
    /\ db = [r \in Rows |->
         CASE r[1] = "item" -> Stock0
           [] r[1] = "level" -> IF r[2] = HomeShop THEN Stock0 ELSE 0
           [] r[1] \in {"seq", "party", "money", "loan"} -> 0
           [] r[1] \in {"status", "cheque"} ->
                IF r[2] \notin GivenDocs THEN "NONE" ELSE Given[r[2]][r[1]]
           [] r[1] = "deleted" -> r[2] \in GivenDocs /\ Given[r[2]].deleted
           [] r[1] \in {"paid", "allocated"} ->
                IF r[2] \notin GivenDocs THEN 0 ELSE Given[r[2]][r[1]]]
    /\ request = [c \in Clients |-> NoRequest]
    /\ mode = [c \in Clients |-> "idle"]
    /\ pc = [c \in Clients |-> 1]
    /\ seen = [c \in Clients |-> NothingWritten]
    /\ buf = [c \in Clients |-> NothingWritten]
    /\ open = {}
    /\ together = {}

AllEnded == \A c \in Clients : mode[c] # "idle" /\ ~Active(c)

Finished == AllEnded /\ UNCHANGED vars

Next ==
    \/ \E c \in Clients : Start(c) \/ Step(c) \/ BreakDeadlock(c) \/ Crash(c)
    \/ Finished

Spec == Init /\ [][Next]_vars

-----------------------------------------------------------------------------
(* Properties.                                                             *)

TypeOK ==
    /\ DOMAIN db = Rows
    /\ mode \in [Clients -> {"idle", "run", "undo", "done", "refused", "victim", "crashed"}]
    /\ pc \in [Clients -> Nat \ {0}]
    /\ \A c \in Clients : DOMAIN buf[c] \subseteq Rows
    /\ \A c \in Clients : buf[c] # NothingWritten => Active(c) /\ c \in open

(* A document is deleted or restored while another request rewrites it,    *)
(* each having tested it before its transaction: the one fault of the code *)
(* that breaks the books.                                                  *)
Collided ==
    \E pair \in together :
        /\ \A c, e \in pair : request[c].doc = request[e].doc
        /\ \A c \in pair : request[c].op \in {"resume", "delete", "restore", "deposit", "reopen"}
        /\ \E c \in pair : request[c].op \in {"delete", "restore"}

GivenInForce == {d \in GivenDocs : Given[d].status # "HELD" /\ ~Given[d].deleted}
GivenInvoices == {d \in GivenDocs : Given[d].is.type = "SALE_INVOICE"}
GivenPayments == {d \in GivenDocs : Given[d].is.pays # None}
GivenCheques == {d \in GivenDocs : Given[d].is.cheque}

(* What documents have added since the start, S being those that came into *)
(* force or out of it.                                                     *)
Changed == {d \in AllDocs : InForce(d) # (d \in GivenInForce)}
Moved(S, Effect(_)) ==
    Sum(LAMBDA d : (IF InForce(d) THEN Effect(d) ELSE -Effect(d)), S)

Done(ops) == {c \in Clients : request[c].op \in ops /\ mode[c] = "done"}
Asked(S) == Sum(LAMBDA c : request[c].qty, S)

(* What a transfer or a loan has brought into the account of a shop. *)
Brought(c, shop) ==
    LET r == request[c]
    IN  (IF (IF r.op = "transfer" THEN r.to ELSE r.shop) = shop THEN r.qty ELSE 0)
        - (IF r.op = "transfer" /\ r.shop = shop THEN r.qty ELSE 0)

StockIsDocuments(S) ==
    db[Stock] = Stock0 + Asked(Done({"adjust", "count"})) + Moved(S, LAMBDA d : OnStock(Is(d)))

PartiesAreDocuments(S) ==
    \A p \in Parties :
        db[Party(p)] = Moved({d \in S : Is(d).party = p}, LAMBDA d : OnParty(Is(d)))

(* Cheques count while they are deposited; transfers between accounts and  *)
(* loans move money as well.                                               *)
MoneyIsDocuments(S) ==
    LET cashed == {d \in GivenCheques : /\ db[Cheque(d)] # Given[d].cheque
                                        /\ "CLOSED" \in {db[Cheque(d)], Given[d].cheque}}
        movers == Done({"borrow", "loan", "transfer"})
        deposits(d) == Signed(OnMoney(Is(d)), db[Cheque(d)] # "CLOSED")
    IN  \A s \in Shops :
          db[Money(s)] =
            Moved({d \in S : Is(d).shop = s /\ ~Is(d).cheque}, LAMBDA d : OnMoney(Is(d)))
            + Sum(deposits, {d \in cashed : Is(d).shop = s})
            + Sum(LAMBDA c : Brought(c, s), movers)

(* What is owed on loans is what was drawn and paid back, whether or not an *)
(* account was named for it; only those of "borrow" and "loan" move money. *)
LoanOps == {"borrow", "openLoan", "loan", "loanEntry"}

LoansAreAsked ==
    Sum(LAMBDA l : db[Loan(l)], Clients \cup {None}) = Asked(Done(LoanOps))

(* README "Each transaction atomically updates stock, party balance,       *)
(* cash/bank balances": the totals are those of the documents in force     *)
(* after every commit, however requests are interleaved, refused, crash or *)
(* are ended by the database, unless one is deleted or restored while it   *)
(* is rewritten.                                                           *)
BooksReconcile ==
    /\ Collided \/ LET S == Changed
                   IN  StockIsDocuments(S) /\ PartiesAreDocuments(S) /\ MoneyIsDocuments(S)
    /\ LoansAreAsked

(* The stock levels of the shops add up to the stock of the item: applyStock *)
(* and items.adjustStock write a level back from what they read, but hold  *)
(* the item's row from before that read.  Only inventory's own adjustment  *)
(* and transfer, which do not, lose an update or stop half way; a transfer *)
(* of a shop to itself, which transferStock does not refuse, makes stock.  *)
LevelsAddUp ==
    \/ \E pair \in together : \E c \in pair : request[c].op \in {"count", "move"}
    \/ \E c \in Clients : request[c].op = "count" /\ pc[c] = 2
    \/ \E c \in Clients : request[c].op = "move" /\ request[c].to = request[c].shop
    \/ db[Stock] = Sum(LAMBDA s : db[Level(s)], Shops)

(* An invoice is paid by its own payment and what the payments in force    *)
(* allocate to it.  applyAllocations writes paidAmount back from a read,   *)
(* yet no amount is lost: payments of one party meet at the party's row,   *)
(* which applyPartyBalance locks before.                                   *)
PaidIsAllocated ==
    Collided \/
        LET payments == {e \in GivenPayments \cup NewDocs : InForce(e)}
        IN  \A d \in GivenInvoices :
              db[Status(d)] # "HELD" =>
                  db[Paid(d)] = Given[d].is.own
                      + Sum(LAMBDA e : db[Allocated(e)],
                                      {e \in payments : Is(e).pays = d})

TakesStock(c) ==
    /\ mode[c] # "idle"
    /\ \/ request[c].op \in {"resume", "restore", "adjust", "count"}
       \/ MakesDoc(c) /\ OnStock(Made(request[c])) < 0

(* "Block overselling" (applyStock): stock is tested with a plain read, but *)
(* documents of one kind take their numbers from one locked row first, so  *)
(* two of them never sell the same unit.  Below zero takes two kinds, one  *)
(* request that takes no number, or the deletion of goods received, which  *)
(* tests nothing.                                                          *)
OversoldOnlyAcrossCounters ==
    db[Stock] < 0 =>
        \/ \E c \in Clients : request[c].op \in {"adjust", "count"} /\ request[c].qty < 0
        \/ \E c \in Clients : request[c].op = "delete" /\ OnStock(Is(request[c].doc)) > 0
        \/ \E pair \in together : \E c, e \in pair :
            /\ c # e /\ TakesStock(c) /\ TakesStock(e)
            /\ \/ ~MakesDoc(c) \/ ~MakesDoc(e)
               \/ Made(request[c]).type # Made(request[e]).type

(* "two concurrent conversions of the same source can't both proceed"      *)
(* (convertTxn), for sources that are converted whole and whose conversion *)
(* nobody deletes, which opens them again, or restores.                    *)
ConvertedOnce ==
    \A d \in GivenDocs :
        Given[d].is.type \in {"ESTIMATE", "DELIVERY_CHALLAN"} =>
            \/ \E c \in Clients : /\ request[c].op \in {"delete", "restore"}
                                   /\ Given[request[c].doc].is.source = d
            \/ Cardinality({e \in AllDocs : Is(e).source = d /\ InForce(e)}) <= 1

(* A claim is given back when the document cannot be made ("so the source  *)
(* can still be converted"): a converted source has a conversion, one on   *)
(* its way, or one whose process died between the two commits.             *)
ClaimsAreReleased ==
    \A d \in GivenDocs :
        db[Status(d)] = "CONVERTED" =>
            \/ \E e \in AllDocs : Is(e).source = d /\ InForce(e)
            \/ \E c \in Clients : /\ request[c].op = "convert" /\ request[c].doc = d
                                   /\ mode[c] \in {"run", "undo", "crashed"}
=============================================================================

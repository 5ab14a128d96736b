------------------------------ MODULE Checkout ------------------------------
(***************************************************************************)
(* One till, from the Save button to the invoice: the checkout of the POS  *)
(* page, the offline queue and its sync loops in the browser, and          *)
(* createInvoice and pushOperations on the server.                         *)
(*                                                                         *)
(* The till gives every sale an idempotency key and keeps it while it does *)
(* not know whether the sale was made.  The server looks the key up under  *)
(* an advisory lock before it creates an invoice.  A sale the till could   *)
(* not send is queued in the browser and pushed later, with its key.       *)
(* Answers come late or never, requests outlive the client that gave up on *)
(* them, and two sync loops may push the same rows.                        *)
(*                                                                         *)
(* Abstractions: the content of a cart is its number; a bill the business  *)
(* rules refuse is refused every time.  A second till has keys and rows of *)
(* its own.  Completing a held bill is ResumeHeld of TxnCore.              *)
(***************************************************************************)
EXTENDS Integers, Sequences

CONSTANTS
    None,
    Keys,       \* idempotency keys (UUIDs) the till can mint
    Bills,      \* contents of the cart, in the order they are rung up
    Poison,     \* bills the server refuses, whenever they are sent
    Loops,      \* sync loops: the app layout and the POS page each start one
    Handlers,   \* requests the server handles at once
    Mishaps     \* what else can happen

MishapKinds ==
    {"slow_server",     \* a transaction outlives its five seconds
     "cart_edited",     \* the cart changes while a key is kept for it
     "page_left"}       \* the cashier leaves the POS page and comes back

(* The payload of a sale: its key, its content, and whether it is a hold. *)
Row == [key : Keys, bill : Bills, held : BOOLEAN]

ASSUME BillsAssumption == Bills \subseteq Nat /\ Poison \subseteq Bills
ASSUME NullAssumption == None \notin Bills \cup Keys \cup Handlers \cup Row
ASSUME MishapsAssumption == Mishaps \subseteq MishapKinds

VARIABLES
    cart,           \* the bill on the screen
    key,            \* checkoutIdRef of the POS page
    minted,         \* keys given out so far
    waiting,        \* the request the POS page awaits
    queue,          \* rows of the browser's syncQueue
    syncInFlight,   \* the flag of sync-manager
    push,           \* what each sync loop is doing, with which rows
    jobs,           \* requests the server is handling
    lockOf,         \* holder of the advisory lock of a key
    invoices,       \* sale invoices, in the order they were committed
    deadLetters,    \* rows recorded as FAILED
    saved,          \* bills the till has reported "Bill saved successfully"
    offline,        \* bills it has reported "Saved offline"
    amended,        \* history: carts edited out of one with a key or a request
    forgotten       \* history: carts whose key was lost with the page

said == <<saved, offline, amended, forgotten>>
till == <<cart, key, minted, waiting, said>>
browser == <<queue, syncInFlight, push>>
server == <<jobs, lockOf, invoices, deadLetters>>
vars == <<till, browser, server>>

Stages == {"idle", "next", "lock", "check", "create", "late", "commit", "ok", "fail"}

Job == [kind : {"sale", "push"}, todo : SUBSET Row, row : Row \cup {None},
        stage : Stages]

Idle == [kind |-> "sale", todo |-> {}, row |-> None, stage |-> "idle"]

Quiet == [stage |-> "idle", rows |-> {}, job |-> None]

-----------------------------------------------------------------------------
(* Helpers.                                                                *)

NextBill == IF cart # None /\ cart + 1 \in Bills THEN cart + 1 ELSE None

Awaited(h) == waiting = h \/ \E l \in Loops : push[l].stage = "sent" /\ push[l].job = h

(* A client that heard of the end of its request gives the place free; one *)
(* that gave up before leaves the request running.                         *)
Forgotten(h) == IF jobs[h].stage \in {"ok", "fail"} THEN [jobs EXCEPT ![h] = Idle] ELSE jobs

Stored(k) == \E i \in DOMAIN invoices : invoices[i].key = k

(* "Match only FINALISED sales (never a HELD placeholder)" *)
Finalised(k) == \E i \in DOMAIN invoices : invoices[i].key = k /\ ~invoices[i].held

Unlocked(h) == [k \in Keys |-> IF lockOf[k] = h THEN None ELSE lockOf[k]]

(* Fault: the request goes on without the lock it took.                    *)
CheckUnlocks(h) ==
    /\ jobs[h].stage = "check"
    /\ jobs' = [jobs EXCEPT ![h].stage =
                  IF Finalised(jobs[h].row.key) THEN "commit" ELSE "create"]
    /\ lockOf' = Unlocked(h)
    /\ UNCHANGED <<till, browser, invoices, deadLetters>>

-----------------------------------------------------------------------------
(* The till.                                                               *)

(* Save, or Hold with a key of its own. *)
Send(h, hold) ==
    /\ cart # None
    /\ waiting = None
    /\ jobs[h] = Idle
    /\ \E k \in IF hold \/ key = None THEN Keys \ minted ELSE {key} :
         /\ key' = IF hold THEN key ELSE k
         /\ minted' = minted \cup {k}
         /\ jobs' = [jobs EXCEPT ![h] =
                       [kind |-> "sale", todo |-> {}, stage |-> "lock",
                        row |-> [key |-> k, bill |-> cart, held |-> hold]]]
    /\ waiting' = h
    /\ UNCHANGED <<cart, said, browser, lockOf, invoices, deadLetters>>

(* Fault: the key is not released when the sale is made. *)
SavedKeepsKey ==
    /\ waiting # None
    /\ jobs[waiting].stage = "ok"
    /\ saved' = IF jobs[waiting].row.held THEN saved ELSE saved \cup ({cart} \ {None})
    /\ jobs' = Forgotten(waiting)
    /\ waiting' = None
    /\ cart' = NextBill
    /\ UNCHANGED <<key, minted, offline, amended, forgotten, browser, lockOf, invoices,
                   deadLetters>>

(* onSuccess of the checkout. *)
Saved ==
    /\ waiting # None
    /\ jobs[waiting].stage = "ok"
    /\ saved' = IF jobs[waiting].row.held THEN saved ELSE saved \cup ({cart} \ {None})
    /\ jobs' = Forgotten(waiting)
    /\ waiting' = None
    /\ key' = None
    /\ cart' = NextBill
    /\ UNCHANGED <<minted, offline, amended, forgotten, browser, lockOf, invoices, deadLetters>>

(* Fault: an error releases the key like a success. *)
KeepForgetsKey(h) ==
    /\ waiting = h
    /\ waiting' = None
    /\ key' = None
    /\ jobs' = Forgotten(h)
    /\ UNCHANGED <<cart, minted, said, browser, lockOf, invoices, deadLetters>>

(* onError with the server reachable: an error was answered, or the        *)
(* request was cut off or took too long.  Cart and key are kept.           *)
Keep(h) ==
    /\ waiting = h
    /\ waiting' = None
    /\ jobs' = Forgotten(h)
    /\ UNCHANGED <<cart, key, minted, said, browser, lockOf, invoices, deadLetters>>

(* The same with the server unreachable: the queue takes the sale over. *)
QueueSale(h) ==
    /\ waiting = h
    /\ queue' = queue \cup {jobs[h].row}
    /\ offline' = offline \cup {jobs[h].row.bill}
    /\ waiting' = None
    /\ key' = None
    /\ cart' = NextBill
    /\ jobs' = Forgotten(h)
    /\ UNCHANGED <<minted, saved, amended, forgotten, syncInFlight, push, lockOf, invoices,
                   deadLetters>>

(* The cart is changed, or cleared for the next customer; nothing in the   *)
(* page ties the key to the cart, so the next cart may go out under a key  *)
(* that was kept for this one.                                             *)
EditCart ==
    /\ cart # None
    /\ key # None \/ waiting # None => "cart_edited" \in Mishaps
    /\ cart' = NextBill
    /\ amended' = amended \cup (IF key # None \/ waiting # None THEN {NextBill} \ {None} ELSE {})
    /\ UNCHANGED <<key, minted, waiting, saved, offline, forgotten, browser, server>>

(* The cart survives in a store, the key in a ref of the page does not. *)
LeavePage ==
    /\ "page_left" \in Mishaps
    /\ waiting = None
    /\ key' = None
    /\ forgotten' = forgotten \cup (IF key # None THEN {cart} \ {None} ELSE {})
    /\ UNCHANGED <<cart, minted, waiting, saved, offline, amended, browser, server>>

-----------------------------------------------------------------------------
(* The sync loops.                                                         *)

(* The flag is tested and the rows are read before the health check is     *)
(* awaited; the flag is set after it.                                      *)
Tick(l) ==
    /\ push[l] = Quiet
    /\ ~syncInFlight
    /\ queue # {}
    /\ push' = [push EXCEPT ![l] = [stage |-> "probing", rows |-> queue, job |-> None]]
    /\ UNCHANGED <<queue, syncInFlight, till, server>>

Unreachable(l) ==
    /\ push[l].stage = "probing"
    /\ push' = [push EXCEPT ![l] = Quiet]
    /\ UNCHANGED <<queue, syncInFlight, till, server>>

Push(l, h) ==
    /\ push[l].stage = "probing"
    /\ jobs[h] = Idle
    /\ syncInFlight' = TRUE
    /\ push' = [push EXCEPT ![l] = [stage |-> "sent", rows |-> push[l].rows, job |-> h]]
    /\ jobs' = [jobs EXCEPT ![h] = [kind |-> "push", todo |-> push[l].rows,
                                    row |-> None, stage |-> "next"]]
    /\ UNCHANGED <<queue, till, lockOf, invoices, deadLetters>>

(* Fault: the queue is cleared, with the rows that came in meanwhile. *)
PushedClearsQueue(l) ==
    /\ push[l].stage = "sent"
    /\ jobs[push[l].job].stage = "ok"
    /\ queue' = {}
    /\ syncInFlight' = FALSE
    /\ push' = [push EXCEPT ![l] = Quiet]
    /\ jobs' = Forgotten(push[l].job)
    /\ UNCHANGED <<till, lockOf, invoices, deadLetters>>

(* The rows of this push, and no others, leave the queue. *)
Pushed(l) ==
    /\ push[l].stage = "sent"
    /\ jobs[push[l].job].stage = "ok"
    /\ queue' = queue \ push[l].rows
    /\ syncInFlight' = FALSE
    /\ push' = [push EXCEPT ![l] = Quiet]
    /\ jobs' = Forgotten(push[l].job)
    /\ UNCHANGED <<till, lockOf, invoices, deadLetters>>

(* Fault: the answer that comes after the push was given up is not dropped. *)
PushFailedKeepsJob(l) ==
    /\ push[l].stage = "sent"
    /\ queue' = queue \cup push[l].rows
    /\ syncInFlight' = FALSE
    /\ jobs' = Forgotten(push[l].job)
    /\ UNCHANGED <<push, till, lockOf, invoices, deadLetters>>

(* An error, or no answer in time: every row is put again, also one that   *)
(* the other loop has deleted meanwhile.                                   *)
PushFailed(l) ==
    /\ push[l].stage = "sent"
    /\ queue' = queue \cup push[l].rows
    /\ syncInFlight' = FALSE
    /\ push' = [push EXCEPT ![l] = Quiet]
    /\ jobs' = Forgotten(push[l].job)
    /\ UNCHANGED <<till, lockOf, invoices, deadLetters>>

-----------------------------------------------------------------------------
(* The server.                                                             *)

(* pushOperations takes an operation of the batch and looks its key up,    *)
(* without a lock and whatever the status of the invoice.                  *)
NextOp(h) ==
    /\ jobs[h].stage = "next"
    /\ \E r \in jobs[h].todo :
         jobs' = [jobs EXCEPT ![h] =
                    [kind |-> "push", todo |-> @.todo \ {r}, row |-> r,
                     stage |-> IF Stored(r.key) THEN "next" ELSE "lock"]]
    /\ UNCHANGED <<till, browser, lockOf, invoices, deadLetters>>

BatchDone(h) ==
    /\ jobs[h].stage = "next"
    /\ jobs[h].todo = {}
    /\ jobs' = [jobs EXCEPT ![h].stage = "ok"]
    /\ UNCHANGED <<till, browser, lockOf, invoices, deadLetters>>

(* createInvoice: pg_advisory_xact_lock of the key, *)
Lock(h) ==
    /\ jobs[h].stage = "lock"
    /\ lockOf[jobs[h].row.key] = None
    /\ lockOf' = [lockOf EXCEPT ![jobs[h].row.key] = h]
    /\ jobs' = [jobs EXCEPT ![h].stage = "check"]
    /\ UNCHANGED <<till, browser, invoices, deadLetters>>

(* the search for a finalised sale with the key, which is the answer if    *)
(* there is one,                                                           *)
Check(h) ==
    /\ jobs[h].stage = "check"
    /\ jobs' = [jobs EXCEPT ![h].stage =
                  IF Finalised(jobs[h].row.key) THEN "commit" ELSE "create"]
    /\ UNCHANGED <<till, browser, lockOf, invoices, deadLetters>>

(* createTxn, which commits a transaction of its own, *)
Create(h) ==
    /\ jobs[h].stage = "create"
    /\ jobs[h].row.bill \notin Poison
    /\ invoices' = Append(invoices, jobs[h].row)
    /\ jobs' = [jobs EXCEPT ![h].stage = "commit"]
    /\ UNCHANGED <<till, browser, lockOf, deadLetters>>

(* and the end of the transaction that holds the lock. *)
Commit(h) ==
    /\ jobs[h].stage = "commit"
    /\ lockOf' = Unlocked(h)
    /\ jobs' = [jobs EXCEPT ![h].stage = IF jobs[h].kind = "sale" THEN "ok" ELSE "next"]
    /\ UNCHANGED <<till, browser, invoices, deadLetters>>

(* Fault: an error that will never go away aborts the batch. *)
RejectAborts(h) ==
    /\ jobs[h].stage = "create"
    /\ jobs[h].row.bill \in Poison
    /\ lockOf' = Unlocked(h)
    /\ jobs' = [jobs EXCEPT ![h].stage = "fail"]
    /\ UNCHANGED <<till, browser, invoices, deadLetters>>

(* createTxn refuses: an error to the till, a dead letter in a batch. *)
Reject(h) ==
    /\ jobs[h].stage = "create"
    /\ jobs[h].row.bill \in Poison
    /\ lockOf' = Unlocked(h)
    /\ IF jobs[h].kind = "sale"
       THEN jobs' = [jobs EXCEPT ![h].stage = "fail"] /\ UNCHANGED deadLetters
       ELSE /\ jobs' = [jobs EXCEPT ![h].stage = "next"]
            /\ deadLetters' = deadLetters \cup {jobs[h].row}
    /\ UNCHANGED <<till, browser, invoices>>

(* A query fails, a transaction is timed out, or the server goes down. *)
ServerFails(h) ==
    /\ jobs[h].stage \in {"next", "lock", "check", "create", "late", "commit"}
    /\ lockOf' = Unlocked(h)
    /\ jobs' = [jobs EXCEPT ![h].stage = "fail"]
    /\ UNCHANGED <<till, browser, invoices, deadLetters>>

(* The transaction that holds the lock is timed out while createTxn, in a  *)
(* transaction of its own, is still running: it may yet commit.            *)
LockExpires(h) ==
    /\ "slow_server" \in Mishaps
    /\ jobs[h].stage = "create"
    /\ lockOf' = Unlocked(h)
    /\ jobs' = [jobs EXCEPT ![h].stage = "late"]
    /\ UNCHANGED <<till, browser, invoices, deadLetters>>

CreateLate(h) ==
    /\ jobs[h].stage = "late"
    /\ invoices' = IF jobs[h].row.bill \in Poison THEN invoices
                   ELSE Append(invoices, jobs[h].row)
    /\ jobs' = [jobs EXCEPT ![h].stage = "fail"]
    /\ UNCHANGED <<till, browser, lockOf, deadLetters>>

(* Nobody is left to hear the answer. *)
Unheard(h) ==
    /\ jobs[h].stage \in {"ok", "fail"}
    /\ ~Awaited(h)
    /\ jobs' = [jobs EXCEPT ![h] = Idle]
    /\ UNCHANGED <<till, browser, lockOf, invoices, deadLetters>>

-----------------------------------------------------------------------------
Init ==
    /\ cart \in Bills
    /\ \A b \in Bills : cart <= b
    /\ key = None
    /\ minted = {}
    /\ waiting = None
    /\ queue = {}
    /\ syncInFlight = FALSE
    /\ push = [l \in Loops |-> Quiet]
    /\ jobs = [h \in Handlers |-> Idle]
    /\ lockOf = [k \in Keys |-> None]
    /\ invoices = <<>>
    /\ deadLetters = {}
    /\ saved = {}
    /\ offline = {}
    /\ amended = {}
    /\ forgotten = {}

Till ==
    \/ \E h \in Handlers : \/ \E hold \in BOOLEAN : Send(h, hold)
                           \/ Keep(h)
                           \/ QueueSale(h)
    \/ Saved
    \/ EditCart
    \/ LeavePage

Sync ==
    \E l \in Loops : \/ Tick(l)
                     \/ Unreachable(l)
                     \/ \E h \in Handlers : Push(l, h)
                     \/ Pushed(l)
                     \/ PushFailed(l)

(* What the server does for a request that nothing happens to. *)
Handle(h) ==
    \/ NextOp(h)
    \/ BatchDone(h)
    \/ Lock(h)
    \/ Check(h)
    \/ Create(h)
    \/ Commit(h)
    \/ Reject(h)
    \/ CreateLate(h)
    \/ Unheard(h)

Server == \E h \in Handlers : Handle(h) \/ ServerFails(h) \/ LockExpires(h)

Next == Till \/ Sync \/ Server

Spec == Init /\ [][Next]_vars

(* Steps in which the network or the server lets a request down, and the   *)
(* client gives it up; to be refused is none of them.                      *)
Failure ==
    \/ \E h \in Handlers : \/ ServerFails(h) /\ ~Reject(h)
                           \/ LockExpires(h)
                           \/ Keep(h) /\ jobs[h].stage # "fail"
    \/ \E l \in Loops : \/ Unreachable(l)
                        \/ PushFailed(l) /\ jobs[push[l].job].stage # "fail"

(* The server goes on with every request it can go on with, the loops tick *)
(* every 15 seconds and hear their answers, and failures come to an end.   *)
(* Nothing is assumed of the cashier, and nothing of the order in which a  *)
(* lock is granted.                                                        *)
Fairness ==
    /\ \A h \in Handlers : WF_vars(Handle(h))
    /\ \A l \in Loops : WF_vars(\/ Tick(l)
                              \/ \E h \in Handlers : Push(l, h)
                              \/ Pushed(l)
                              \/ PushFailed(l))
    /\ <>[][~Failure]_vars

FairSpec == Spec /\ Fairness

-----------------------------------------------------------------------------
(* Properties.                                                             *)

Pushing == [stage : {"idle", "probing", "sent"}, rows : SUBSET Row,
            job : Handlers \cup {None}]

TypeOK ==
    /\ cart \in Bills \cup {None}
    /\ key \in Keys \cup {None}
    /\ minted \subseteq Keys
    /\ waiting \in Handlers \cup {None}
    /\ queue \subseteq Row
    /\ syncInFlight \in BOOLEAN
    /\ push \in [Loops -> Pushing]
    /\ jobs \in [Handlers -> Job]
    /\ lockOf \in [Keys -> Handlers \cup {None}]
    /\ invoices \in Seq(Row)
    /\ deadLetters \subseteq Row
    /\ saved \subseteq Bills
    /\ offline \subseteq Bills
    /\ amended \subseteq Bills
    /\ forgotten \subseteq Bills

(* "A second request carrying the same clientId blocks here, then sees the *)
(* first invoice below and returns it instead of creating a duplicate"     *)
(* (createInvoice): two finalised sales never share a key.                 *)
OneSalePerKey ==
    \A i, j \in DOMAIN invoices :
        /\ invoices[i].key = invoices[j].key
        /\ ~invoices[i].held /\ ~invoices[j].held
        => i = j

(* The customer is billed once: no cart is finalised twice, although it    *)
(* was retried, queued and pushed by both loops.  A cart whose key was     *)
(* lost with the page, while its sale may have been made, is excepted: the *)
(* store keeps the cart and the ref of the page does not keep the key.     *)
OneSalePerBill ==
    \A i, j \in DOMAIN invoices :
        /\ invoices[i].bill = invoices[j].bill
        /\ ~invoices[i].held /\ ~invoices[j].held
        => i = j \/ invoices[i].bill \in forgotten

(* b is the bill a, or what the cashier put in its place, by editing or    *)
(* clearing the cart, while a's key was kept or its answer awaited.        *)
VersionOf(a, b) == a <= b /\ \A c \in Bills : a < c /\ c <= b => c \in amended

(* "Sale is committed" (onSuccess): what was on the screen when the till   *)
(* reported success was sold, or took the place of what was sold.  The     *)
(* page keeps a key over edits of the cart, even when it is cleared for    *)
(* the next customer, and the server answers a known key with the sale     *)
(* that has it: that an earlier version was sold is true of the code, that *)
(* nothing was, or a bill whose key was not kept, is not.                  *)
SavedBillsSold ==
    \A b \in saved :
        \E i \in DOMAIN invoices : ~invoices[i].held /\ VersionOf(invoices[i].bill, b)

SameSale(a, b) == VersionOf(a, b) \/ VersionOf(b, a)

(* What became of a bill the browser took over: it, or a version of it, is *)
(* stored, or it is recorded as failed.                                    *)
Settled(b) ==
    \/ \E i \in DOMAIN invoices : SameSale(invoices[i].bill, b)
    \/ \E r \in deadLetters : r.bill = b

(* "Nothing is ever silently dropped" (processSyncQueue): a bill saved     *)
(* offline is in the queue until it is settled.                            *)
OfflineBillsKept ==
    \A b \in offline : Settled(b) \/ \E r \in queue : r.bill = b

(* "So a single poison row can't wedge the queue forever" (isPermanent):   *)
(* every bill saved offline is settled in the end.                         *)
OfflineBillsSettled == \A b \in Bills : b \in offline ~> Settled(b)

-----------------------------------------------------------------------------
(* The inductive invariant.                                                *)

(* The request a client awaits is its own until it has heard of its end. *)
RequestsOwned ==
    /\ waiting # None => /\ jobs[waiting].kind = "sale"
                         /\ jobs[waiting].row \in Row
                         /\ jobs[waiting].stage \notin {"idle", "next"}
    /\ \A l \in Loops : push[l].stage = "sent" =>
         /\ push[l].job \in Handlers
         /\ jobs[push[l].job].kind = "push"
         /\ jobs[push[l].job].stage # "idle"
    /\ \A l, m \in Loops :
         push[l].stage = "sent" /\ push[m].stage = "sent" /\ push[l].job = push[m].job
         => l = m

(* What a request works on. *)
OnARow ==
    \A h \in Handlers :
        jobs[h].stage \in {"lock", "check", "create", "late", "commit"} => jobs[h].row \in Row

Owned == TypeOK /\ RequestsOwned /\ OnARow

(* From the lock to the commit a request holds the lock of its key, and    *)
(* what it found out about the key stays true.                             *)
LocksHeld ==
    \A h \in Handlers :
        /\ jobs[h].stage \in {"check", "create", "commit"} =>
             lockOf[jobs[h].row.key] = h
        /\ jobs[h].stage = "create" => ~Finalised(jobs[h].row.key)
        /\ jobs[h].stage = "late" => "slow_server" \in Mishaps

IInv == Owned /\ LocksHeld /\ OneSalePerKey

(* The rows the till has sent, wherever they are by now. *)
Sent ==
    (UNION ({queue} \cup {push[l].rows : l \in Loops} \cup {jobs[h].todo : h \in Handlers}))
      \cup {invoices[i] : i \in DOMAIN invoices}
      \cup ({jobs[h].row : h \in Handlers} \ {None})

(* A key stands for one bill and its versions, the last of them the one on *)
(* the screen while the till keeps the key; the key is kept as long as the *)
(* sale that has it is awaited.                                            *)
KeysStandForBills ==
    /\ \A r \in Sent : r.key \in minted
    /\ \A r, s \in Sent : r.key = s.key => SameSale(r.bill, s.bill)
    /\ key # None => /\ key \in minted
                     /\ cart # None => \A r \in Sent : r.key = key => VersionOf(r.bill, cart)
    /\ waiting # None /\ ~jobs[waiting].row.held => key = jobs[waiting].row.key

(* What is answered to a sale was done; only a push has a next operation.  *)
AnswersAreTrue ==
    \A h \in Handlers :
        /\ jobs[h].stage = "commit" \/ (jobs[h].stage = "ok" /\ jobs[h].kind = "sale") =>
              IF jobs[h].row.held THEN Stored(jobs[h].row.key) ELSE Finalised(jobs[h].row.key)
        /\ jobs[h].stage = "next" => jobs[h].kind = "push"

(* A push that has not failed has settled its rows, or is about to.        *)
PushesAccountFor ==
    \A l \in Loops :
        push[l].stage = "sent" /\ jobs[push[l].job].stage # "fail" =>
            /\ jobs[push[l].job].stage = "ok" => jobs[push[l].job].todo = {}
            /\ \A r \in push[l].rows :
                 \/ Settled(r.bill)
                 \/ r \in jobs[push[l].job].todo
                 \/ /\ r = jobs[push[l].job].row
                    /\ jobs[push[l].job].stage \in {"lock", "check", "create", "late", "commit"}

TillInv ==
    /\ Owned /\ KeysStandForBills /\ AnswersAreTrue /\ PushesAccountFor
    /\ SavedBillsSold /\ OfflineBillsKept

(* Bills come to the screen one after the other, and the one on it has no  *)
(* key but the one the till keeps for it, unless the page was left.        *)
BillsHaveOneKey ==
    /\ \A r \in Sent : cart # None => r.bill <= cart
    /\ \A r \in Sent : cart # None /\ r.bill = cart /\ ~r.held =>
         key = r.key \/ cart \in forgotten
    /\ \A r, s \in Sent : ~r.held /\ ~s.held /\ r.bill = s.bill =>
         r.key = s.key \/ r.bill \in forgotten

(* All of it, which holds as long as transactions end in their time. *)
BillInv == IInv /\ TillInv /\ BillsHaveOneKey
=============================================================================

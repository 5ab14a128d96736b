--------------------------- MODULE CheckoutProofs ---------------------------
(* Proofs about Checkout, for every value of its constants. *)
EXTENDS Checkout, TLAPS

(***************************************************************************)
(* What the steps of the server write.                                     *)
(***************************************************************************)

LEMMA StageType ==
  ASSUME TypeOK, NEW h \in Handlers, NEW s \in Stages
  PROVE  [jobs EXCEPT ![h].stage = s] \in [Handlers -> Job]
<1>1. [jobs[h] EXCEPT !.stage = s] \in Job
  BY DEF TypeOK, Job
<1>2. QED
  BY <1>1 DEF TypeOK

LEMMA UnlockedType ==
  ASSUME TypeOK, NEW h \in Handlers
  PROVE  Unlocked(h) \in [Keys -> Handlers \cup {None}]
BY DEF TypeOK, Unlocked

LEMMA Appended ==
  ASSUME NEW s \in Seq(Row), NEW r \in Row
  PROVE  /\ Append(s, r) \in Seq(Row)
         /\ DOMAIN s = 1 .. Len(s) /\ Len(s) \in Nat
         /\ DOMAIN Append(s, r) = 1 .. Len(s) + 1
         /\ \A i \in DOMAIN s : Append(s, r)[i] = s[i]
         /\ Append(s, r)[Len(s) + 1] = r
OBVIOUS

(* An invoice with a key that no finalised sale has keeps keys unique.     *)
LEMMA UniqueKept ==
  ASSUME TypeOK, OneSalePerKey, NEW r \in Row, ~Finalised(r.key),
         invoices' = Append(invoices, r)
  PROVE  OneSalePerKey'
<1> DEFINE n == Len(invoices)
<1>1. SUFFICES ASSUME NEW i \in 1 .. n + 1, NEW j \in 1 .. n + 1, i # j,
                      Append(invoices, r)[i].key = Append(invoices, r)[j].key,
                      ~Append(invoices, r)[i].held, ~Append(invoices, r)[j].held
               PROVE  FALSE
  BY Appended DEF OneSalePerKey, TypeOK
<1>2. DOMAIN invoices = 1 .. n /\ n \in Nat
  BY Appended DEF TypeOK
<1>3. CASE i \in 1 .. n /\ j \in 1 .. n
  BY <1>1, <1>2, <1>3, Appended DEF OneSalePerKey, TypeOK
<1>4. CASE i = n + 1 /\ j \in 1 .. n
  BY <1>1, <1>2, <1>4, Appended DEF Finalised, TypeOK
<1>5. CASE j = n + 1 /\ i \in 1 .. n
  BY <1>1, <1>2, <1>5, Appended DEF Finalised, TypeOK
<1>6. QED
  BY <1>1, <1>2, <1>3, <1>4, <1>5

(***************************************************************************)
(* Requests own what they work with, whatever happens.                     *)
(***************************************************************************)

LEMMA SendOwned ==
  ASSUME NEW h \in Handlers, NEW hold \in BOOLEAN, Owned, Send(h, hold)
  PROVE  Owned'
<1>1. TypeOK'
  BY NullAssumption DEF Owned, TypeOK, RequestsOwned, Send, Pushing, Job, Stages, Row, Idle, Quiet, NextBill, till, said, browser, server
<1>2. RequestsOwned'
  BY NullAssumption DEF Owned, TypeOK, RequestsOwned, Send, Pushing, Job, Row, Idle, Quiet, NextBill, till, said, browser, server
<1>3. OnARow'
  BY NullAssumption DEF Owned, TypeOK, OnARow, RequestsOwned, Send, Job, Row, Idle, NextBill, till, said, browser, server
<1>4. QED
  BY <1>1, <1>2, <1>3 DEF Owned

LEMMA SavedOwned ==
  ASSUME Owned, Saved
  PROVE  Owned'
<1>1. TypeOK'
  BY NullAssumption DEF Owned, TypeOK, RequestsOwned, Saved, Pushing, Job, Stages, Row, Idle, Quiet, NextBill, Forgotten, till, said, browser, server
<1>2. RequestsOwned'
  BY NullAssumption DEF Owned, TypeOK, RequestsOwned, Saved, Pushing, Job, Row, Idle, Quiet, NextBill, Forgotten, till, said, browser, server
<1>3. OnARow'
  BY NullAssumption DEF Owned, TypeOK, OnARow, RequestsOwned, Saved, Job, Row, Idle, NextBill, Forgotten, till, said, browser, server
<1>4. QED
  BY <1>1, <1>2, <1>3 DEF Owned

LEMMA KeepOwned ==
  ASSUME NEW h \in Handlers, Owned, Keep(h)
  PROVE  Owned'
<1>1. TypeOK'
  BY NullAssumption DEF Owned, TypeOK, RequestsOwned, Keep, Pushing, Job, Stages, Row, Idle, Quiet, Forgotten, till, said, browser, server
<1>2. RequestsOwned'
  BY NullAssumption DEF Owned, TypeOK, RequestsOwned, Keep, Pushing, Job, Row, Idle, Quiet, Forgotten, till, said, browser, server
<1>3. OnARow'
  BY NullAssumption DEF Owned, TypeOK, OnARow, RequestsOwned, Keep, Job, Row, Idle, Forgotten, till, said, browser, server
<1>4. QED
  BY <1>1, <1>2, <1>3 DEF Owned

LEMMA QueueSaleOwned ==
  ASSUME NEW h \in Handlers, Owned, QueueSale(h)
  PROVE  Owned'
<1>1. TypeOK'
  BY NullAssumption DEF Owned, TypeOK, RequestsOwned, QueueSale, Pushing, Job, Stages, Row, Idle, Quiet, NextBill, Forgotten, till, said, browser, server
<1>2. RequestsOwned'
  BY NullAssumption DEF Owned, TypeOK, RequestsOwned, QueueSale, Pushing, Job, Row, Idle, Quiet, NextBill, Forgotten, till, said, browser, server
<1>3. OnARow'
  BY NullAssumption DEF Owned, TypeOK, OnARow, RequestsOwned, QueueSale, Job, Row, Idle, NextBill, Forgotten, till, said, browser, server
<1>4. QED
  BY <1>1, <1>2, <1>3 DEF Owned

LEMMA EditCartOwned ==
  ASSUME Owned, EditCart
  PROVE  Owned'
<1>1. TypeOK'
  BY NullAssumption DEF Owned, TypeOK, RequestsOwned, EditCart, Pushing, Job, Stages, Row, Idle, Quiet, NextBill, till, said, browser, server
<1>2. RequestsOwned'
  BY NullAssumption DEF Owned, TypeOK, RequestsOwned, EditCart, Pushing, Job, Row, Idle, Quiet, NextBill, till, said, browser, server
<1>3. OnARow'
  BY NullAssumption DEF Owned, TypeOK, OnARow, RequestsOwned, EditCart, Job, Row, Idle, NextBill, till, said, browser, server
<1>4. QED
  BY <1>1, <1>2, <1>3 DEF Owned

LEMMA LeavePageOwned ==
  ASSUME Owned, LeavePage
  PROVE  Owned'
<1>1. TypeOK'
  BY NullAssumption DEF Owned, TypeOK, RequestsOwned, LeavePage, Pushing, Job, Stages, Row, Idle, Quiet, till, said, browser, server
<1>2. RequestsOwned'
  BY NullAssumption DEF Owned, TypeOK, RequestsOwned, LeavePage, Pushing, Job, Row, Idle, Quiet, till, said, browser, server
<1>3. OnARow'
  BY NullAssumption DEF Owned, TypeOK, OnARow, RequestsOwned, LeavePage, Job, Row, Idle, till, said, browser, server
<1>4. QED
  BY <1>1, <1>2, <1>3 DEF Owned

LEMMA TickOwned ==
  ASSUME NEW l \in Loops, Owned, Tick(l)
  PROVE  Owned'
<1>1. TypeOK'
  BY NullAssumption DEF Owned, TypeOK, RequestsOwned, Tick, Pushing, Job, Stages, Row, Idle, Quiet, till, said, browser, server
<1>2. RequestsOwned'
  BY NullAssumption DEF Owned, TypeOK, RequestsOwned, Tick, Pushing, Job, Row, Idle, Quiet, till, said, browser, server
<1>3. OnARow'
  BY NullAssumption DEF Owned, TypeOK, OnARow, RequestsOwned, Tick, Job, Row, Idle, till, said, browser, server
<1>4. QED
  BY <1>1, <1>2, <1>3 DEF Owned

LEMMA UnreachableOwned ==
  ASSUME NEW l \in Loops, Owned, Unreachable(l)
  PROVE  Owned'
<1>1. TypeOK'
  BY NullAssumption DEF Owned, TypeOK, RequestsOwned, Unreachable, Pushing, Job, Stages, Row, Idle, Quiet, till, said, browser, server
<1>2. RequestsOwned'
  BY NullAssumption DEF Owned, TypeOK, RequestsOwned, Unreachable, Pushing, Job, Row, Idle, Quiet, till, said, browser, server
<1>3. OnARow'
  BY NullAssumption DEF Owned, TypeOK, OnARow, RequestsOwned, Unreachable, Job, Row, Idle, till, said, browser, server
<1>4. QED
  BY <1>1, <1>2, <1>3 DEF Owned

LEMMA PushOwned ==
  ASSUME NEW l \in Loops, NEW h \in Handlers, Owned, Push(l, h)
  PROVE  Owned'
<1>1. TypeOK'
  <2>1. push[l].rows \subseteq Row
    BY DEF Owned, TypeOK, Pushing
  <2>2. jobs' \in [Handlers -> Job]
    <3>1. [kind |-> "push", todo |-> push[l].rows, row |-> None, stage |-> "next"] \in Job
      BY <2>1 DEF Job, Stages
    <3>2. QED
      BY <3>1 DEF Owned, TypeOK, Push
  <2>4. push' \in [Loops -> Pushing]
    BY <2>1 DEF Owned, TypeOK, Pushing, Push
  <2>5. QED
    BY <2>2, <2>4 DEF Owned, TypeOK, Push, till, said
<1>2. RequestsOwned'
  <2>1. waiting # h /\ \A m \in Loops : push[m].stage = "sent" => push[m].job # h
    BY NullAssumption DEF Owned, RequestsOwned, TypeOK, Push, Idle
  <2>2. QED
    BY <2>1, NullAssumption DEF Owned, TypeOK, RequestsOwned, Push, Idle, till
<1>3. OnARow'
  BY NullAssumption DEF Owned, TypeOK, OnARow, RequestsOwned, Push, Job, Row, Idle, till, said, browser, server
<1>4. QED
  BY <1>1, <1>2, <1>3 DEF Owned

LEMMA PushedOwned ==
  ASSUME NEW l \in Loops, Owned, Pushed(l)
  PROVE  Owned'
<1>1. TypeOK'
  BY NullAssumption DEF Owned, TypeOK, RequestsOwned, Pushed, Pushing, Job, Stages, Row, Idle, Quiet, Forgotten, till, said, browser, server
<1>2. RequestsOwned'
  BY NullAssumption DEF Owned, TypeOK, RequestsOwned, Pushed, Pushing, Job, Row, Idle, Quiet, Forgotten, till, said, browser, server
<1>3. OnARow'
  BY NullAssumption DEF Owned, TypeOK, OnARow, RequestsOwned, Pushed, Job, Row, Idle, Forgotten, till, said, browser, server
<1>4. QED
  BY <1>1, <1>2, <1>3 DEF Owned

LEMMA PushFailedOwned ==
  ASSUME NEW l \in Loops, Owned, PushFailed(l)
  PROVE  Owned'
<1>1. TypeOK'
  BY NullAssumption DEF Owned, TypeOK, RequestsOwned, PushFailed, Pushing, Job, Stages, Row, Idle, Quiet, Forgotten, till, said, browser, server
<1>2. RequestsOwned'
  BY NullAssumption DEF Owned, TypeOK, RequestsOwned, PushFailed, Pushing, Job, Row, Idle, Quiet, Forgotten, till, said, browser, server
<1>3. OnARow'
  BY NullAssumption DEF Owned, TypeOK, OnARow, RequestsOwned, PushFailed, Job, Row, Idle, Forgotten, till, said, browser, server
<1>4. QED
  BY <1>1, <1>2, <1>3 DEF Owned

LEMMA NextOpOwned ==
  ASSUME NEW h \in Handlers, Owned, NextOp(h)
  PROVE  Owned'
<1>1. TypeOK'
  BY NullAssumption DEF Owned, TypeOK, RequestsOwned, NextOp, Pushing, Job, Stages, Row, Idle, Quiet, till, said, browser, server
<1>2. RequestsOwned'
  <2>1. \A g \in Handlers : jobs'[g] = jobs[g] \/ (g = h /\ jobs[g].stage = "next"
                                               /\ jobs'[g].kind = "push"
                                               /\ jobs'[g].stage # "idle")
    BY DEF Owned, TypeOK, Job, NextOp
  <2>2. QED
    BY <2>1, NullAssumption DEF Owned, TypeOK, RequestsOwned, NextOp, till, said, browser
<1>3. OnARow'
  BY NullAssumption DEF Owned, TypeOK, OnARow, RequestsOwned, NextOp, Job, Row, Idle, till, said, browser, server
<1>4. QED
  BY <1>1, <1>2, <1>3 DEF Owned

LEMMA BatchDoneOwned ==
  ASSUME NEW h \in Handlers, Owned, BatchDone(h)
  PROVE  Owned'
<1>1. TypeOK'
  <2>1. jobs' \in [Handlers -> Job]
    BY StageType DEF Owned, BatchDone, Stages
  <2>2. QED
    BY <2>1 DEF Owned, TypeOK, BatchDone, till, said, browser
<1>2. RequestsOwned'
  BY NullAssumption DEF Owned, TypeOK, RequestsOwned, BatchDone, Pushing, Job, Row, Idle, Quiet, till, said, browser, server
<1>3. OnARow'
  BY NullAssumption DEF Owned, TypeOK, OnARow, RequestsOwned, BatchDone, Job, Row, Idle, till, said, browser, server
<1>4. QED
  BY <1>1, <1>2, <1>3 DEF Owned

LEMMA LockOwned ==
  ASSUME NEW h \in Handlers, Owned, Lock(h)
  PROVE  Owned'
<1>1. TypeOK'
  <2>1. jobs' \in [Handlers -> Job]
    BY StageType DEF Owned, Lock, Stages
  <2>2. lockOf' \in [Keys -> Handlers \cup {None}]
    BY DEF Owned, TypeOK, Lock
  <2>3. QED
    BY <2>1, <2>2 DEF Owned, TypeOK, Lock, till, said, browser
<1>2. RequestsOwned'
  BY NullAssumption DEF Owned, TypeOK, RequestsOwned, Lock, Pushing, Job, Row, Idle, Quiet, till, said, browser, server
<1>3. OnARow'
  BY NullAssumption DEF Owned, TypeOK, OnARow, RequestsOwned, Lock, Job, Row, Idle, till, said, browser, server
<1>4. QED
  BY <1>1, <1>2, <1>3 DEF Owned

LEMMA CheckOwned ==
  ASSUME NEW h \in Handlers, Owned, Check(h)
  PROVE  Owned'
<1>1. TypeOK'
  <2>1. jobs' \in [Handlers -> Job]
    BY StageType DEF Owned, Check, Stages
  <2>2. QED
    BY <2>1 DEF Owned, TypeOK, Check, till, said, browser
<1>2. RequestsOwned'
  BY NullAssumption DEF Owned, TypeOK, RequestsOwned, Check, Pushing, Job, Row, Idle, Quiet, till, said, browser, server
<1>3. OnARow'
  BY NullAssumption DEF Owned, TypeOK, OnARow, RequestsOwned, Check, Job, Row, Idle, till, said, browser, server
<1>4. QED
  BY <1>1, <1>2, <1>3 DEF Owned

LEMMA CreateOwned ==
  ASSUME NEW h \in Handlers, Owned, Create(h)
  PROVE  Owned'
<1>1. TypeOK'
  <2>1. jobs' \in [Handlers -> Job]
    BY StageType DEF Owned, Create, Stages
  <2>2. invoices' \in Seq(Row)
    BY Appended DEF Owned, TypeOK, OnARow, Create
  <2>3. QED
    BY <2>1, <2>2 DEF Owned, TypeOK, Create, till, said, browser
<1>2. RequestsOwned'
  BY NullAssumption DEF Owned, TypeOK, RequestsOwned, Create, Pushing, Job, Row, Idle, Quiet, till, said, browser, server
<1>3. OnARow'
  BY NullAssumption DEF Owned, TypeOK, OnARow, RequestsOwned, Create, Job, Row, Idle, till, said, browser, server
<1>4. QED
  BY <1>1, <1>2, <1>3 DEF Owned

LEMMA CommitOwned ==
  ASSUME NEW h \in Handlers, Owned, Commit(h)
  PROVE  Owned'
<1>1. TypeOK'
  <2>1. jobs' \in [Handlers -> Job]
    BY StageType DEF Owned, Commit, Stages
  <2>2. lockOf' \in [Keys -> Handlers \cup {None}]
    BY UnlockedType DEF Owned, Commit
  <2>3. QED
    BY <2>1, <2>2 DEF Owned, TypeOK, Commit, till, said, browser
<1>2. RequestsOwned'
  BY NullAssumption DEF Owned, TypeOK, RequestsOwned, Commit, Pushing, Job, Row, Idle, Quiet, Unlocked, till, said, browser, server
<1>3. OnARow'
  BY NullAssumption DEF Owned, TypeOK, OnARow, RequestsOwned, Commit, Job, Row, Idle, till, said, browser, server
<1>4. QED
  BY <1>1, <1>2, <1>3 DEF Owned

LEMMA RejectOwned ==
  ASSUME NEW h \in Handlers, Owned, Reject(h)
  PROVE  Owned'
<1>1. TypeOK'
  <2>1. jobs' \in [Handlers -> Job]
    <3>1. PICK s \in {"fail", "next"} : jobs' = [jobs EXCEPT ![h].stage = s]
      BY DEF Reject
    <3>2. TypeOK /\ s \in Stages
      BY DEF Owned, Stages
    <3>3. QED
      BY <3>1, <3>2, StageType
  <2>2. lockOf' \in [Keys -> Handlers \cup {None}]
    BY UnlockedType DEF Owned, Reject
  <2>3. deadLetters' \subseteq Row
    BY DEF Owned, TypeOK, OnARow, Reject
  <2>4. QED
    BY <2>1, <2>2, <2>3 DEF Owned, TypeOK, Reject, till, said, browser
<1>2. RequestsOwned'
  <2>1. PICK s \in {"fail", "next"} :
          jobs' = [jobs EXCEPT ![h].stage = s] /\ (s = "next" => jobs[h].kind = "push")
    BY DEF Owned, TypeOK, Job, Reject
  <2>2. QED
    BY <2>1, NullAssumption DEF Owned, TypeOK, Job, RequestsOwned, Reject, till, said, browser
<1>3. OnARow'
  <2>1. PICK s \in {"fail", "next"} : jobs' = [jobs EXCEPT ![h].stage = s]
    BY DEF Reject
  <2>2. \A g \in Handlers \ {h} : jobs'[g] = jobs[g]
    BY <2>1 DEF Owned, TypeOK
  <2>3. jobs'[h].stage \in {"fail", "next"}
    BY <2>1 DEF Owned, TypeOK, Job
  <2>4. QED
    BY <2>2, <2>3, NullAssumption
       DEF Owned, TypeOK, OnARow, Reject, Unlocked, Row, till, said, browser
<1>4. QED
  BY <1>1, <1>2, <1>3 DEF Owned

LEMMA ServerFailsOwned ==
  ASSUME NEW h \in Handlers, Owned, ServerFails(h)
  PROVE  Owned'
<1>1. TypeOK'
  <2>1. jobs' \in [Handlers -> Job]
    BY StageType DEF Owned, ServerFails, Stages
  <2>2. lockOf' \in [Keys -> Handlers \cup {None}]
    BY UnlockedType DEF Owned, ServerFails
  <2>3. QED
    BY <2>1, <2>2 DEF Owned, TypeOK, ServerFails, till, said, browser
<1>2. RequestsOwned'
  BY NullAssumption DEF Owned, TypeOK, RequestsOwned, ServerFails, Pushing, Job, Row, Idle, Quiet, Unlocked, till, said, browser, server
<1>3. OnARow'
  BY NullAssumption DEF Owned, TypeOK, OnARow, RequestsOwned, ServerFails, Job, Row, Idle, till, said, browser, server
<1>4. QED
  BY <1>1, <1>2, <1>3 DEF Owned

LEMMA UnheardOwned ==
  ASSUME NEW h \in Handlers, Owned, Unheard(h)
  PROVE  Owned'
<1>1. TypeOK'
  BY NullAssumption DEF Owned, TypeOK, RequestsOwned, Unheard, Pushing, Job, Stages, Row, Idle, Quiet, Awaited, till, said, browser, server
<1>2. RequestsOwned'
  BY NullAssumption DEF Owned, TypeOK, RequestsOwned, Unheard, Pushing, Job, Row, Idle, Quiet, Awaited, till, said, browser, server
<1>3. OnARow'
  BY NullAssumption DEF Owned, TypeOK, OnARow, RequestsOwned, Unheard, Job, Row, Idle, Awaited, till, said, browser, server
<1>4. QED
  BY <1>1, <1>2, <1>3 DEF Owned

(* The loss of a lock leaves requests their rows. *)
LEMMA LockExpiresOwned ==
  ASSUME NEW h \in Handlers, Owned, LockExpires(h)
  PROVE  Owned'
<1>1. TypeOK'
  <2>1. jobs' \in [Handlers -> Job]
    BY StageType DEF Owned, LockExpires, Stages
  <2>2. lockOf' \in [Keys -> Handlers \cup {None}]
    BY UnlockedType DEF Owned, LockExpires
  <2>3. QED
    BY <2>1, <2>2 DEF Owned, TypeOK, LockExpires, till, said, browser
<1>2. RequestsOwned'
  BY NullAssumption DEF Owned, TypeOK, RequestsOwned, LockExpires, Pushing, Job, Row, Idle, Quiet, till, said, browser
<1>3. OnARow'
  BY DEF Owned, TypeOK, OnARow, LockExpires, Job
<1>4. QED
  BY <1>1, <1>2, <1>3 DEF Owned

LEMMA CreateLateOwned ==
  ASSUME NEW h \in Handlers, Owned, CreateLate(h)
  PROVE  Owned'
<1>1. TypeOK'
  <2>1. jobs' \in [Handlers -> Job]
    BY StageType DEF Owned, CreateLate, Stages
  <2>2. invoices' \in Seq(Row)
    BY Appended DEF Owned, TypeOK, OnARow, CreateLate
  <2>3. QED
    BY <2>1, <2>2 DEF Owned, TypeOK, CreateLate, till, said, browser
<1>2. RequestsOwned'
  BY NullAssumption DEF Owned, TypeOK, RequestsOwned, CreateLate, Pushing, Job, Row, Idle, Quiet, till, said, browser
<1>3. OnARow'
  BY DEF Owned, TypeOK, OnARow, CreateLate, Job
<1>4. QED
  BY <1>1, <1>2, <1>3 DEF Owned

(***************************************************************************)
(* Locks are held, and a key is sold once.                                 *)
(***************************************************************************)

LEMMA SendLocks ==
  ASSUME NEW h \in Handlers, NEW hold \in BOOLEAN, IInv, Send(h, hold)
  PROVE  LocksHeld' /\ OneSalePerKey'
<1>1. LocksHeld'
  BY NullAssumption DEF IInv, Owned, TypeOK, OnARow, LocksHeld, RequestsOwned, Send, Job, Row, Idle, Finalised, NextBill, till, said, browser, server
<1>2. OneSalePerKey'
  BY DEF IInv, OneSalePerKey, Send, NextBill, till, said, browser, server
<1>3. QED
  BY <1>1, <1>2

LEMMA SavedLocks ==
  ASSUME IInv, Saved
  PROVE  LocksHeld' /\ OneSalePerKey'
<1>1. LocksHeld'
  BY NullAssumption DEF IInv, Owned, TypeOK, OnARow, LocksHeld, RequestsOwned, Saved, Job, Row, Idle, Finalised, NextBill, Forgotten, till, said, browser, server
<1>2. OneSalePerKey'
  BY DEF IInv, OneSalePerKey, Saved, NextBill, Forgotten, till, said, browser, server
<1>3. QED
  BY <1>1, <1>2

LEMMA KeepLocks ==
  ASSUME NEW h \in Handlers, IInv, Keep(h)
  PROVE  LocksHeld' /\ OneSalePerKey'
<1>1. LocksHeld'
  BY NullAssumption DEF IInv, Owned, TypeOK, OnARow, LocksHeld, RequestsOwned, Keep, Job, Row, Idle, Finalised, Forgotten, till, said, browser, server
<1>2. OneSalePerKey'
  BY DEF IInv, OneSalePerKey, Keep, Forgotten, till, said, browser, server
<1>3. QED
  BY <1>1, <1>2

LEMMA QueueSaleLocks ==
  ASSUME NEW h \in Handlers, IInv, QueueSale(h)
  PROVE  LocksHeld' /\ OneSalePerKey'
<1>1. LocksHeld'
  BY NullAssumption DEF IInv, Owned, TypeOK, OnARow, LocksHeld, RequestsOwned, QueueSale, Job, Row, Idle, Finalised, NextBill, Forgotten, till, said, browser, server
<1>2. OneSalePerKey'
  BY DEF IInv, OneSalePerKey, QueueSale, NextBill, Forgotten, till, said, browser, server
<1>3. QED
  BY <1>1, <1>2

LEMMA EditCartLocks ==
  ASSUME IInv, EditCart
  PROVE  LocksHeld' /\ OneSalePerKey'
<1>1. LocksHeld'
  BY NullAssumption DEF IInv, Owned, TypeOK, OnARow, LocksHeld, RequestsOwned, EditCart, Job, Row, Idle, Finalised, NextBill, till, said, browser, server
<1>2. OneSalePerKey'
  BY DEF IInv, OneSalePerKey, EditCart, NextBill, till, said, browser, server
<1>3. QED
  BY <1>1, <1>2

LEMMA LeavePageLocks ==
  ASSUME IInv, LeavePage
  PROVE  LocksHeld' /\ OneSalePerKey'
<1>1. LocksHeld'
  BY NullAssumption DEF IInv, Owned, TypeOK, OnARow, LocksHeld, RequestsOwned, LeavePage, Job, Row, Idle, Finalised, till, said, browser, server
<1>2. OneSalePerKey'
  BY DEF IInv, OneSalePerKey, LeavePage, till, said, browser, server
<1>3. QED
  BY <1>1, <1>2

LEMMA TickLocks ==
  ASSUME NEW l \in Loops, IInv, Tick(l)
  PROVE  LocksHeld' /\ OneSalePerKey'
<1>1. LocksHeld'
  BY NullAssumption DEF IInv, Owned, TypeOK, OnARow, LocksHeld, RequestsOwned, Tick, Job, Row, Idle, Finalised, till, said, browser, server
<1>2. OneSalePerKey'
  BY DEF IInv, OneSalePerKey, Tick, till, said, browser, server
<1>3. QED
  BY <1>1, <1>2

LEMMA UnreachableLocks ==
  ASSUME NEW l \in Loops, IInv, Unreachable(l)
  PROVE  LocksHeld' /\ OneSalePerKey'
<1>1. LocksHeld'
  BY NullAssumption DEF IInv, Owned, TypeOK, OnARow, LocksHeld, RequestsOwned, Unreachable, Job, Row, Idle, Finalised, till, said, browser, server
<1>2. OneSalePerKey'
  BY DEF IInv, OneSalePerKey, Unreachable, till, said, browser, server
<1>3. QED
  BY <1>1, <1>2

LEMMA PushLocks ==
  ASSUME NEW l \in Loops, NEW h \in Handlers, IInv, Push(l, h)
  PROVE  LocksHeld' /\ OneSalePerKey'
<1>1. LocksHeld'
  BY NullAssumption DEF IInv, Owned, TypeOK, OnARow, LocksHeld, RequestsOwned, Push, Job, Row, Idle, Finalised, till, said, browser, server
<1>2. OneSalePerKey'
  BY DEF IInv, OneSalePerKey, Push, till, said, browser, server
<1>3. QED
  BY <1>1, <1>2

LEMMA PushedLocks ==
  ASSUME NEW l \in Loops, IInv, Pushed(l)
  PROVE  LocksHeld' /\ OneSalePerKey'
<1>1. LocksHeld'
  BY NullAssumption DEF IInv, Owned, TypeOK, OnARow, LocksHeld, RequestsOwned, Pushed, Job, Row, Idle, Finalised, Forgotten, till, said, browser, server
<1>2. OneSalePerKey'
  BY DEF IInv, OneSalePerKey, Pushed, Forgotten, till, said, browser, server
<1>3. QED
  BY <1>1, <1>2

LEMMA PushFailedLocks ==
  ASSUME NEW l \in Loops, IInv, PushFailed(l)
  PROVE  LocksHeld' /\ OneSalePerKey'
<1>1. LocksHeld'
  BY NullAssumption DEF IInv, Owned, TypeOK, OnARow, LocksHeld, RequestsOwned, PushFailed, Job, Row, Idle, Finalised, Forgotten, till, said, browser, server
<1>2. OneSalePerKey'
  BY DEF IInv, OneSalePerKey, PushFailed, Forgotten, till, said, browser, server
<1>3. QED
  BY <1>1, <1>2

LEMMA NextOpLocks ==
  ASSUME NEW h \in Handlers, IInv, NextOp(h)
  PROVE  LocksHeld' /\ OneSalePerKey'
<1>1. LocksHeld'
  BY NullAssumption DEF IInv, Owned, TypeOK, OnARow, LocksHeld, RequestsOwned, NextOp, Job, Row, Idle, Finalised, till, said, browser, server
<1>2. OneSalePerKey'
  BY DEF IInv, OneSalePerKey, NextOp, till, said, browser, server
<1>3. QED
  BY <1>1, <1>2

LEMMA BatchDoneLocks ==
  ASSUME NEW h \in Handlers, IInv, BatchDone(h)
  PROVE  LocksHeld' /\ OneSalePerKey'
<1>1. LocksHeld'
  BY NullAssumption DEF IInv, Owned, TypeOK, OnARow, LocksHeld, RequestsOwned, BatchDone, Job, Row, Idle, Finalised, till, said, browser, server
<1>2. OneSalePerKey'
  BY DEF IInv, OneSalePerKey, BatchDone, till, said, browser, server
<1>3. QED
  BY <1>1, <1>2

LEMMA LockLocks ==
  ASSUME NEW h \in Handlers, IInv, Lock(h)
  PROVE  LocksHeld' /\ OneSalePerKey'
<1>1. LocksHeld'
  BY NullAssumption DEF IInv, Owned, TypeOK, OnARow, LocksHeld, RequestsOwned, Lock, Job, Row, Idle, Finalised, till, said, browser, server
<1>2. OneSalePerKey'
  BY DEF IInv, OneSalePerKey, Lock, till, said, browser, server
<1>3. QED
  BY <1>1, <1>2

LEMMA CheckLocks ==
  ASSUME NEW h \in Handlers, IInv, Check(h)
  PROVE  LocksHeld' /\ OneSalePerKey'
<1>1. LocksHeld'
  BY NullAssumption DEF IInv, Owned, TypeOK, OnARow, LocksHeld, RequestsOwned, Check, Job, Row, Idle, Finalised, till, said, browser, server
<1>2. OneSalePerKey'
  BY DEF IInv, OneSalePerKey, Check, till, said, browser, server
<1>3. QED
  BY <1>1, <1>2

LEMMA CreateLocks ==
  ASSUME NEW h \in Handlers, IInv, Create(h)
  PROVE  LocksHeld' /\ OneSalePerKey'
<1>1. LocksHeld'
  BY NullAssumption DEF IInv, Owned, TypeOK, OnARow, LocksHeld, RequestsOwned, Create, Job, Row, Idle, Finalised, till, said, browser, server
<1>2. OneSalePerKey'
  <2>1. jobs[h].row \in Row /\ ~Finalised(jobs[h].row.key)
    BY DEF IInv, Owned, OnARow, LocksHeld, Create
  <2>2. QED
    BY <2>1, UniqueKept DEF IInv, Owned, Create
<1>3. QED
  BY <1>1, <1>2

LEMMA CommitLocks ==
  ASSUME NEW h \in Handlers, IInv, Commit(h)
  PROVE  LocksHeld' /\ OneSalePerKey'
<1>1. LocksHeld'
  BY NullAssumption DEF IInv, Owned, TypeOK, OnARow, LocksHeld, RequestsOwned, Commit, Job, Row, Idle, Finalised, Unlocked, till, said, browser, server
<1>2. OneSalePerKey'
  BY DEF IInv, OneSalePerKey, Commit, Unlocked, till, said, browser, server
<1>3. QED
  BY <1>1, <1>2

LEMMA RejectLocks ==
  ASSUME NEW h \in Handlers, IInv, Reject(h)
  PROVE  LocksHeld' /\ OneSalePerKey'
<1>1. LocksHeld'
  <2>1. PICK s \in {"fail", "next"} : jobs' = [jobs EXCEPT ![h].stage = s]
    BY DEF Reject
  <2>2. \A g \in Handlers \ {h} : jobs'[g] = jobs[g]
    BY <2>1 DEF IInv, Owned, TypeOK
  <2>3. jobs'[h].stage \in {"fail", "next"}
    BY <2>1 DEF IInv, Owned, TypeOK, Job
  <2>4. QED
    BY <2>2, <2>3, NullAssumption
       DEF IInv, Owned, TypeOK, OnARow, LocksHeld, Reject, Unlocked, Row, Finalised, till, said, browser
<1>2. OneSalePerKey'
  BY DEF IInv, OneSalePerKey, Reject, Unlocked, till, said, browser, server
<1>3. QED
  BY <1>1, <1>2

LEMMA ServerFailsLocks ==
  ASSUME NEW h \in Handlers, IInv, ServerFails(h)
  PROVE  LocksHeld' /\ OneSalePerKey'
<1>1. LocksHeld'
  BY NullAssumption DEF IInv, Owned, TypeOK, OnARow, LocksHeld, RequestsOwned, ServerFails, Job, Row, Idle, Finalised, Unlocked, till, said, browser, server
<1>2. OneSalePerKey'
  BY DEF IInv, OneSalePerKey, ServerFails, Unlocked, till, said, browser, server
<1>3. QED
  BY <1>1, <1>2

LEMMA UnheardLocks ==
  ASSUME NEW h \in Handlers, IInv, Unheard(h)
  PROVE  LocksHeld' /\ OneSalePerKey'
<1>1. LocksHeld'
  BY NullAssumption DEF IInv, Owned, TypeOK, OnARow, LocksHeld, RequestsOwned, Unheard, Job, Row, Idle, Finalised, Awaited, till, said, browser, server
<1>2. OneSalePerKey'
  BY DEF IInv, OneSalePerKey, Unheard, Awaited, till, said, browser, server
<1>3. QED
  BY <1>1, <1>2

(***************************************************************************)
(* The inductive invariant and what follows from it.                       *)
(***************************************************************************)

LEMMA InitOwned == Init => Owned
<1> SUFFICES ASSUME Init PROVE Owned
  OBVIOUS
<1>1. TypeOK
  <2>1. Idle \in Job /\ Quiet \in Pushing
    BY DEF Job, Stages, Idle, Pushing, Quiet
  <2>2. cart \in Bills
    BY DEF Init
  <2>3. /\ jobs \in [Handlers -> Job]
        /\ push \in [Loops -> Pushing]
        /\ lockOf \in [Keys -> Handlers \cup {None}]
    BY <2>1 DEF Init
  <2>4. invoices \in Seq(Row)
    <3>1. invoices = << >>
      BY DEF Init
    <3>2. << >> \in Seq(Row)
      OBVIOUS
    <3>3. QED
      BY <3>1, <3>2
  <2>5. /\ key = None /\ waiting = None /\ syncInFlight = FALSE
        /\ minted = {} /\ queue = {} /\ deadLetters = {}
        /\ saved = {} /\ offline = {} /\ amended = {} /\ forgotten = {}
    BY DEF Init
  <2>6. QED
    BY <2>2, <2>3, <2>4, <2>5 DEF TypeOK
<1>2. RequestsOwned /\ OnARow
  BY DEF Init, RequestsOwned, OnARow, Idle, Quiet
<1>3. QED
  BY <1>1, <1>2 DEF Owned

LEMMA OwnedNext ==
  ASSUME Owned, [Next]_vars
  PROVE  Owned'
<1>1. CASE Till
  BY <1>1, SendOwned, SavedOwned, KeepOwned, QueueSaleOwned, EditCartOwned, LeavePageOwned DEF Till
<1>2. CASE Sync
  BY <1>2, TickOwned, UnreachableOwned, PushOwned, PushedOwned, PushFailedOwned DEF Sync
<1>3. CASE Server
  <2>1. PICK h \in Handlers : Handle(h) \/ ServerFails(h) \/ LockExpires(h)
    BY <1>3 DEF Server
  <2>2. CASE Handle(h)
    BY <2>2, NextOpOwned, BatchDoneOwned, LockOwned, CheckOwned, CreateOwned, CommitOwned,
       RejectOwned, CreateLateOwned, UnheardOwned DEF Handle
  <2>3. CASE ServerFails(h) \/ LockExpires(h)
    BY <2>3, ServerFailsOwned, LockExpiresOwned
  <2>4. QED
    BY <2>1, <2>2, <2>3
<1>4. CASE UNCHANGED vars
  BY <1>4 DEF vars, till, said, browser, server, Owned, TypeOK, RequestsOwned, OnARow
<1>5. QED
  BY <1>1, <1>2, <1>3, <1>4 DEF Next

LEMMA LocksNext ==
  ASSUME IInv, "slow_server" \notin Mishaps, [Next]_vars
  PROVE  LocksHeld' /\ OneSalePerKey'
<1>1. CASE Till
  BY <1>1, SendLocks, SavedLocks, KeepLocks, QueueSaleLocks, EditCartLocks, LeavePageLocks DEF Till
<1>2. CASE Sync
  BY <1>2, TickLocks, UnreachableLocks, PushLocks, PushedLocks, PushFailedLocks DEF Sync
<1>3. CASE Server
  <2>1. PICK h \in Handlers : Handle(h) \/ ServerFails(h) \/ LockExpires(h)
    BY <1>3 DEF Server
  <2>2. CASE Handle(h)
    <3>1. ~CreateLate(h)
      BY DEF IInv, LocksHeld, CreateLate
    <3>2. QED
      BY <2>2, <3>1, NextOpLocks, BatchDoneLocks, LockLocks, CheckLocks, CreateLocks,
         CommitLocks, RejectLocks, UnheardLocks DEF Handle
  <2>3. CASE ServerFails(h) \/ LockExpires(h)
    BY <2>3, ServerFailsLocks DEF LockExpires
  <2>4. QED
    BY <2>1, <2>2, <2>3
<1>4. CASE UNCHANGED vars
  BY <1>4 DEF vars, till, browser, server, IInv, LocksHeld, OneSalePerKey, Finalised
<1>5. QED
  BY <1>1, <1>2, <1>3, <1>4 DEF Next

(* As long as transactions end within their five seconds, requests own the *)
(* locks and rows they work with, whatever fails or is given up around     *)
(* them.                                                                   *)
THEOREM Safety ==
  ASSUME "slow_server" \notin Mishaps
  PROVE  Spec => []IInv
<1>1. Init => IInv
  BY InitOwned DEF Init, IInv, LocksHeld, OneSalePerKey, Idle
<1>2. IInv /\ [Next]_vars => IInv'
  BY OwnedNext, LocksNext DEF IInv
<1>3. QED
  BY <1>1, <1>2, PTL DEF Spec

(* "A second request carrying the same clientId ... returns it instead of  *)
(* creating a duplicate" (createInvoice), for any number of requests,      *)
(* loops and keys, however often a sale is retried, queued and pushed.     *)
THEOREM OneSale ==
  ASSUME "slow_server" \notin Mishaps
  PROVE  Spec => []OneSalePerKey
<1>1. IInv => OneSalePerKey
  BY DEF IInv
<1>2. QED
  BY Safety, <1>1, PTL

(***************************************************************************)
(* The rows the till has sent.                                             *)
(***************************************************************************)

Somewhere(r) ==
    \/ r \in queue
    \/ \E l \in Loops : r \in push[l].rows
    \/ \E h \in Handlers : r \in jobs[h].todo
    \/ \E h \in Handlers : r # None /\ r = jobs[h].row
    \/ \E i \in DOMAIN invoices : r = invoices[i]

LEMMA SentIs == \A r : r \in Sent <=> Somewhere(r)
<1> SUFFICES ASSUME NEW r PROVE r \in Sent <=> Somewhere(r)
  OBVIOUS
<1> DEFINE sets == {queue} \cup {push[l].rows : l \in Loops} \cup {jobs[h].todo : h \in Handlers}
           sold == {invoices[i] : i \in DOMAIN invoices}
           held == {jobs[h].row : h \in Handlers} \ {None}
<1>1. r \in UNION sets <=> \/ r \in queue
                           \/ \E l \in Loops : r \in push[l].rows
                           \/ \E h \in Handlers : r \in jobs[h].todo
  OBVIOUS
<1>2. r \in sold <=> \E i \in DOMAIN invoices : r = invoices[i]
  OBVIOUS
<1>3. r \in held <=> \E h \in Handlers : r # None /\ r = jobs[h].row
  OBVIOUS
<1>4. Sent = (UNION sets) \cup sold \cup held
  BY DEF Sent
<1> DEFINE all == UNION sets
<1> HIDE DEF sets, sold, held, all
<1>5. r \in Sent <=> r \in all \/ r \in sold \/ r \in held
  BY <1>4 DEF all
<1>6. r \in all <=> \/ r \in queue
                    \/ \E l \in Loops : r \in push[l].rows
                    \/ \E h \in Handlers : r \in jobs[h].todo
  BY <1>1 DEF all
<1>7. QED
  BY <1>2, <1>3, <1>5, <1>6 DEF Somewhere

LEMMA SentIsPrimed == (\A r : r \in Sent <=> Somewhere(r))'
BY SentIs, PTL

LEMMA SentType ==
  ASSUME TypeOK
  PROVE  Sent \subseteq Row
<1> SUFFICES ASSUME NEW r \in Sent PROVE r \in Row
  OBVIOUS
<1>1. Somewhere(r)
  BY SentIs
<1>2. \A i \in DOMAIN invoices : invoices[i] \in Row
  BY DEF TypeOK
<1>3. QED
  BY <1>1, <1>2 DEF Somewhere, TypeOK, Pushing, Job

(* A step of the server in the work of a request. *)
Moves(h, s) ==
    /\ UNCHANGED <<cart, key, minted, waiting, said, queue, syncInFlight, push>>
    /\ \A g \in Handlers \ {h} : jobs'[g] = jobs[g]
    /\ jobs'[h].stage = s /\ jobs'[h].kind = jobs[h].kind
    /\ jobs'[h].row = jobs[h].row /\ jobs'[h].todo = jobs[h].todo

LEMMA StageMoves ==
  ASSUME TypeOK, NEW h \in Handlers, NEW s, jobs' = [jobs EXCEPT ![h].stage = s],
         UNCHANGED <<till, browser>>
  PROVE  Moves(h, s)
BY DEF TypeOK, Job, Moves, till, said, browser

Works(h) ==
    \/ BatchDone(h) \/ Lock(h) \/ Check(h) \/ Create(h) \/ Commit(h)
    \/ Reject(h) \/ ServerFails(h) \/ LockExpires(h) \/ CreateLate(h)

(* Which stage follows which, and what is true then. *)
LEMMA WorkMoves ==
  ASSUME TypeOK, NEW h \in Handlers, Works(h)
  PROVE  \E s \in Stages :
           /\ Moves(h, s)
           /\ s # "idle"
           /\ jobs[h].stage \notin {"idle", "ok", "fail"}
           /\ s = "ok" => \/ jobs[h].stage = "next" /\ jobs[h].todo = {}
                          \/ jobs[h].stage = "commit" /\ jobs[h].kind = "sale"
           /\ s = "commit" => \/ jobs[h].stage = "check" /\ Finalised(jobs[h].row.key)
                              \/ Create(h)
           /\ s = "next" => /\ jobs[h].kind = "push"
                            /\ jobs[h].stage = "commit" \/ jobs[h].row \in deadLetters'
<1>1. CASE BatchDone(h)
  BY <1>1, StageMoves DEF BatchDone, Stages
<1>2. CASE Lock(h)
  <2>1. Moves(h, "check")
    BY <1>2, StageMoves DEF Lock
  <2>2. QED
    BY <1>2, <2>1 DEF Lock, Stages
<1>3. CASE Check(h)
  <2>1. PICK s \in {"commit", "create"} :
          jobs' = [jobs EXCEPT ![h].stage = s] /\ (s = "commit" => Finalised(jobs[h].row.key))
    BY <1>3 DEF Check
  <2>2. Moves(h, s)
    BY <1>3, <2>1, StageMoves DEF Check
  <2>3. QED
    BY <1>3, <2>1, <2>2 DEF Check, Stages
<1>4. CASE Create(h)
  <2>1. Moves(h, "commit")
    BY <1>4, StageMoves DEF Create
  <2>2. QED
    BY <1>4, <2>1 DEF Create, Stages
<1>5. CASE Commit(h)
  <2>1. PICK s \in {"ok", "next"} :
          /\ jobs' = [jobs EXCEPT ![h].stage = s]
          /\ s = "ok" <=> jobs[h].kind = "sale"
    BY <1>5 DEF Commit
  <2>2. Moves(h, s)
    BY <1>5, <2>1, StageMoves DEF Commit
  <2>3. QED
    BY <1>5, <2>1, <2>2 DEF Commit, Stages, TypeOK, Job
<1>6. CASE Reject(h)
  <2>1. PICK s \in {"fail", "next"} :
          /\ jobs' = [jobs EXCEPT ![h].stage = s]
          /\ s = "next" => jobs[h].kind # "sale" /\ jobs[h].row \in deadLetters'
    BY <1>6 DEF Reject
  <2>2. Moves(h, s)
    BY <1>6, <2>1, StageMoves DEF Reject
  <2>3. QED
    BY <1>6, <2>1, <2>2 DEF Reject, Stages, TypeOK, Job
<1>7. CASE ServerFails(h)
  <2>1. Moves(h, "fail")
    BY <1>7, StageMoves DEF ServerFails
  <2>2. QED
    BY <1>7, <2>1 DEF ServerFails, Stages
<1>8. CASE LockExpires(h)
  <2>1. Moves(h, "late")
    BY <1>8, StageMoves DEF LockExpires
  <2>2. QED
    BY <1>8, <2>1 DEF LockExpires, Stages
<1>9. CASE CreateLate(h)
  <2>1. Moves(h, "fail")
    BY <1>9, StageMoves DEF CreateLate
  <2>2. QED
    BY <1>9, <2>1 DEF CreateLate, Stages
<1>10. QED
  BY <1>1, <1>2, <1>3, <1>4, <1>5, <1>6, <1>7, <1>8, <1>9 DEF Works

(* Invoices and dead letters stay. *)
Grown ==
    /\ \A i \in DOMAIN invoices : i \in DOMAIN invoices' /\ invoices'[i] = invoices[i]
    /\ deadLetters \subseteq deadLetters'

LEMMA WorkGrows ==
  ASSUME Owned, NEW h \in Handlers, Works(h)
  PROVE  /\ Grown
         /\ \A i \in DOMAIN invoices' : \/ i \in DOMAIN invoices /\ invoices'[i] = invoices[i]
                                        \/ invoices'[i] = jobs[h].row
         /\ Create(h) => \E i \in DOMAIN invoices' : invoices'[i] = jobs[h].row
<1>1. CASE Create(h) \/ CreateLate(h)
  <2>1. jobs[h].row \in Row /\ invoices \in Seq(Row)
    BY <1>1 DEF Owned, OnARow, TypeOK, Create, CreateLate
  <2>2. CASE invoices' = Append(invoices, jobs[h].row)
    BY <1>1, <2>1, <2>2, Appended DEF Grown, Create, CreateLate
  <2>3. CASE invoices' = invoices /\ ~Create(h)
    BY <1>1, <2>3 DEF Grown, CreateLate
  <2>4. QED
    BY <1>1, <2>2, <2>3 DEF Create, CreateLate
<1>2. CASE ~Create(h) /\ ~CreateLate(h)
  <2>1. UNCHANGED invoices /\ deadLetters \subseteq deadLetters'
    BY <1>2 DEF Works, BatchDone, Lock, Check, Commit, Reject, ServerFails, LockExpires
  <2>2. QED
    BY <1>2, <2>1 DEF Grown
<1>3. QED
  BY <1>1, <1>2

(***************************************************************************)
(* Rows come from the till only.                                           *)
(***************************************************************************)

LEMMA SentRows == TypeOK => Sent \subseteq Row
BY SentType

LEMMA SentRowsPrimed == (TypeOK => Sent \subseteq Row)'
BY SentRows, PTL

LEMMA SentKept ==
  ASSUME Owned, Owned', \A r \in Row : Somewhere(r)' => Somewhere(r)
  PROVE  Sent' \subseteq Sent
<1>1. Sent' \subseteq Row
  BY SentRowsPrimed DEF Owned
<1>2. QED
  BY <1>1, SentIs, SentIsPrimed

LEMMA WorkSends ==
  ASSUME Owned, Owned', NEW h \in Handlers, Works(h)
  PROVE  Sent' \subseteq Sent
<1>1. PICK s \in Stages : Moves(h, s)
  BY WorkMoves DEF Owned
<1>2. \A i \in DOMAIN invoices' : \/ i \in DOMAIN invoices /\ invoices'[i] = invoices[i]
                                  \/ invoices'[i] = jobs[h].row
  BY WorkGrows
<1>3. \A g \in Handlers : jobs'[g].todo = jobs[g].todo /\ jobs'[g].row = jobs[g].row
  BY <1>1 DEF Moves
<1>4. \A r \in Row : Somewhere(r)' => Somewhere(r)
  BY <1>1, <1>2, <1>3, NullAssumption DEF Somewhere, Moves
<1>5. QED
  BY <1>4, SentKept

LEMMA NextOpSends ==
  ASSUME Owned, Owned', NEW h \in Handlers, NextOp(h)
  PROVE  Sent' \subseteq Sent
<1>1. UNCHANGED <<till, browser, invoices>> /\ \A g \in Handlers \ {h} : jobs'[g] = jobs[g]
  BY DEF NextOp, Owned, TypeOK
<1>2. jobs'[h].row \in jobs[h].todo /\ jobs'[h].todo \subseteq jobs[h].todo
  BY DEF NextOp, Owned, TypeOK
<1>3. \A r \in Row : Somewhere(r)' => Somewhere(r)
  BY <1>1, <1>2 DEF Somewhere, browser
<1>4. QED
  BY <1>3, SentKept

(* A request whose client heard of its end or gave it up. *)
LEMMA Forgetting ==
  ASSUME Owned, NEW h \in Handlers, jobs' = Forgotten(h)
  PROVE  /\ \A g \in Handlers : jobs'[g] = jobs[g] \/ (g = h /\ jobs'[g] = Idle)
         /\ jobs[h].stage \notin {"ok", "fail"} => jobs' = jobs
BY DEF Forgotten, Owned, TypeOK

LEMMA TillSends ==
  ASSUME Owned, Owned',
         Saved \/ EditCart \/ LeavePage \/ \E h \in Handlers : Keep(h) \/ QueueSale(h) \/ Unheard(h)
  PROVE  Sent' \subseteq Sent
<1>1. CASE EditCart \/ LeavePage
  BY <1>1, SentKept DEF EditCart, LeavePage, Somewhere, browser, server
<1>2. ASSUME NEW h \in Handlers, UNCHANGED <<browser, invoices>>,
             \A g \in Handlers : jobs'[g] = jobs[g] \/ jobs'[g] = Idle
      PROVE  Sent' \subseteq Sent
  <2>1. \A r \in Row : Somewhere(r)' => Somewhere(r)
    BY <1>2 DEF Somewhere, Idle, browser
  <2>2. QED
    BY <2>1, SentKept
<1>3. CASE Saved
  BY <1>2, <1>3, Forgetting DEF Saved, Owned, TypeOK
<1>4. ASSUME NEW h \in Handlers, Keep(h) PROVE Sent' \subseteq Sent
  BY <1>2, <1>4, Forgetting DEF Keep
<1>5. ASSUME NEW h \in Handlers, Unheard(h) PROVE Sent' \subseteq Sent
  BY <1>2, <1>5 DEF Unheard, Owned, TypeOK
<1>6. ASSUME NEW h \in Handlers, QueueSale(h) PROVE Sent' \subseteq Sent
  <2>1. /\ queue' = queue \cup {jobs[h].row} /\ UNCHANGED <<push, invoices>>
        /\ \A g \in Handlers : jobs'[g] = jobs[g] \/ jobs'[g] = Idle
    BY <1>6, Forgetting DEF QueueSale
  <2>2. \A r \in Row : Somewhere(r)' => Somewhere(r)
    BY <2>1, NullAssumption DEF Somewhere, Idle
  <2>3. QED
    BY <2>2, SentKept
<1>7. QED
  BY <1>1, <1>3, <1>4, <1>5, <1>6

LEMMA SyncSends ==
  ASSUME Owned, Owned', Sync
  PROVE  Sent' \subseteq Sent
<1>1. ASSUME NEW l \in Loops, Tick(l) \/ Unreachable(l) PROVE Sent' \subseteq Sent
  <2>1. /\ UNCHANGED <<queue, server>> /\ \A m \in Loops \ {l} : push'[m] = push[m]
        /\ push'[l].rows \subseteq queue
    BY <1>1 DEF Tick, Unreachable, Quiet, Owned, TypeOK
  <2>2. \A r \in Row : Somewhere(r)' => Somewhere(r)
    BY <2>1 DEF Somewhere, server
  <2>3. QED
    BY <2>2, SentKept
<1>2. ASSUME NEW l \in Loops, NEW h \in Handlers, Push(l, h) PROVE Sent' \subseteq Sent
  <2>1. /\ UNCHANGED <<queue, invoices>> /\ \A m \in Loops : push'[m].rows = push[m].rows
        /\ \A g \in Handlers \ {h} : jobs'[g] = jobs[g]
        /\ jobs'[h].todo = push[l].rows /\ jobs'[h].row = None
    BY <1>2 DEF Push, Owned, TypeOK
  <2>2. \A r \in Row : Somewhere(r)' => Somewhere(r)
    BY <2>1 DEF Somewhere
  <2>3. QED
    BY <2>2, SentKept
<1>3. ASSUME NEW l \in Loops, Pushed(l) \/ PushFailed(l) PROVE Sent' \subseteq Sent
  <2>1. push[l].job \in Handlers
    BY <1>3 DEF Pushed, PushFailed, Owned, RequestsOwned
  <2>2. /\ UNCHANGED invoices /\ \A m \in Loops \ {l} : push'[m] = push[m]
        /\ push'[l].rows = {} /\ queue' \subseteq queue \cup push[l].rows
        /\ \A g \in Handlers : jobs'[g] = jobs[g] \/ jobs'[g] = Idle
    BY <1>3, <2>1, Forgetting DEF Pushed, PushFailed, Quiet, Owned, TypeOK
  <2>3. \A r \in Row : Somewhere(r)' => Somewhere(r)
    BY <2>2 DEF Somewhere, Idle
  <2>4. QED
    BY <2>3, SentKept
<1>4. QED
  BY <1>1, <1>2, <1>3 DEF Sync

(* What a request of the till adds to them. *)
LEMMA SendSends ==
  ASSUME Owned, Owned', NEW h \in Handlers, NEW hold \in BOOLEAN, Send(h, hold)
  PROVE  \E k \in Keys :
           /\ minted' = minted \cup {k}
           /\ key' = IF hold THEN key ELSE k
           /\ k \in minted => ~hold /\ k = key
           /\ cart \in Bills /\ cart' = cart /\ waiting' = h
           /\ jobs'[h].row = [key |-> k, bill |-> cart, held |-> hold]
           /\ \A r \in Sent' : r \in Sent \/ r = [key |-> k, bill |-> cart, held |-> hold]
<1>1. cart \in Bills /\ cart' = cart /\ waiting' = h /\ UNCHANGED <<browser, invoices>>
  BY DEF Send, Owned, TypeOK
<1>2. PICK k \in IF hold \/ key = None THEN Keys \ minted ELSE {key} :
        /\ key' = IF hold THEN key ELSE k
        /\ minted' = minted \cup {k}
        /\ jobs' = [jobs EXCEPT ![h] =
                      [kind |-> "sale", todo |-> {}, stage |-> "lock",
                       row |-> [key |-> k, bill |-> cart, held |-> hold]]]
  BY DEF Send
<1>3. k \in Keys /\ (k \in minted => ~hold /\ k = key)
  BY <1>2 DEF Owned, TypeOK
<1> DEFINE row == [key |-> k, bill |-> cart, held |-> hold]
<1>4. jobs'[h].row = row /\ jobs'[h].todo = {} /\ \A g \in Handlers \ {h} : jobs'[g] = jobs[g]
  BY <1>2 DEF Owned, TypeOK
<1>5. \A r : Somewhere(r)' => Somewhere(r) \/ r = row
  <2> HIDE DEF row
  <2>1. QED
    BY <1>1, <1>4 DEF Somewhere, browser
<1>6. \A r \in Sent' : r \in Sent \/ r = row
  <2> HIDE DEF row
  <2>1. QED
    BY <1>5, SentIs, SentIsPrimed
<1>7. QED
  BY <1>1, <1>2, <1>3, <1>4, <1>6

(***************************************************************************)
(* A key stands for one bill and its versions.                             *)
(***************************************************************************)

LEMMA VersionGrows ==
  ASSUME amended \subseteq amended', NEW a, NEW b
  PROVE  VersionOf(a, b) => VersionOf(a, b)'
BY DEF VersionOf

LEMMA SameSaleGrows ==
  ASSUME amended \subseteq amended', NEW a, NEW b
  PROVE  SameSale(a, b) => SameSale(a, b)'
BY VersionGrows DEF SameSale

LEMMA VersionOfItself ==
  ASSUME NEW a \in Bills
  PROVE  VersionOf(a, a)
BY BillsAssumption DEF VersionOf

(* Edited under a kept key, the cart stays a version of what it was. *)
LEMMA VersionEdited ==
  ASSUME Owned, NEW a \in Bills, cart # None, VersionOf(a, cart),
         cart' = NextBill, cart' # None, cart' \in amended', amended \subseteq amended'
  PROVE  VersionOf(a, cart)'
<1>1. cart \in Nat /\ a \in Nat /\ cart' = cart + 1
  BY BillsAssumption DEF Owned, TypeOK, NextBill
<1>2. a <= cart'
  BY <1>1 DEF VersionOf
<1>3. ASSUME NEW c \in Bills, a < c, c <= cart' PROVE c \in amended'
  <2>1. c \in Nat
    BY BillsAssumption
  <2>2. CASE c <= cart
    BY <1>3, <2>2 DEF VersionOf
  <2>3. CASE ~(c <= cart)
    <3>1. c = cart'
      BY <1>1, <1>3, <2>1, <2>3
    <3>2. QED
      BY <3>1
  <2>4. QED
    BY <2>2, <2>3
<1>4. QED
  BY <1>2, <1>3 DEF VersionOf

LEMMA SendKeys ==
  ASSUME Owned, Owned', KeysStandForBills, NEW h \in Handlers, NEW hold \in BOOLEAN, Send(h, hold)
  PROVE  KeysStandForBills'
<1>1. PICK k \in Keys :
        /\ minted' = minted \cup {k}
        /\ key' = IF hold THEN key ELSE k
        /\ k \in minted => ~hold /\ k = key
        /\ cart \in Bills /\ cart' = cart /\ waiting' = h
        /\ jobs'[h].row = [key |-> k, bill |-> cart, held |-> hold]
        /\ \A r \in Sent' : r \in Sent \/ r = [key |-> k, bill |-> cart, held |-> hold]
  BY SendSends
<1>2. /\ \A r \in Sent : r.key \in minted
      /\ \A r, s \in Sent : r.key = s.key => SameSale(r.bill, s.bill)
      /\ key # None => key \in minted /\ \A r \in Sent : r.key = key => VersionOf(r.bill, cart)
  BY <1>1, NullAssumption DEF KeysStandForBills
<1>3. k # None /\ cart # None
  BY <1>1, NullAssumption
<1>4. \A r \in Sent' : \/ r \in Sent
                       \/ r.key = k /\ r.bill = cart
  BY <1>1
<1>5. \A r \in Sent : r.key = k => VersionOf(r.bill, cart)
  BY <1>1, <1>2, <1>3
<1>6. \A r \in Sent' : r.key \in minted'
  BY <1>1, <1>2, <1>4
<1>7. amended' = amended /\ VersionOf(cart, cart)
  BY <1>1, VersionOfItself DEF Send, said
<1>8. \A r, s \in Sent' : r.key = s.key => SameSale(r.bill, s.bill)
  BY <1>2, <1>4, <1>5, <1>7 DEF SameSale
<1>9. \A r \in Sent' : r.key = k => VersionOf(r.bill, cart)
  BY <1>4, <1>5, <1>7
<1>10. (\A r, s \in Sent : r.key = s.key => SameSale(r.bill, s.bill))'
  <2> SUFFICES ASSUME NEW r \in Sent', NEW s \in Sent', r.key = s.key
               PROVE  SameSale(r.bill, s.bill)'
    OBVIOUS
  <2>1. QED
    BY <1>7, <1>8, SameSaleGrows
<1>11. (\A r \in Sent : r.key = k => VersionOf(r.bill, cart))'
  <2> SUFFICES ASSUME NEW r \in Sent', r.key = k
               PROVE  VersionOf(r.bill, cart)'
    OBVIOUS
  <2>1. VersionOf(r.bill, cart)
    BY <1>9
  <2>2. QED
    BY <1>1, <1>7, <2>1 DEF VersionOf
<1>12. (key # None => /\ key \in minted
                      /\ cart # None => \A r \in Sent : r.key = key => VersionOf(r.bill, cart))'
  <2>1. CASE ~hold \/ key = k
    BY <1>1, <1>11, <2>1
  <2>2. CASE hold /\ key # k
    <3> SUFFICES ASSUME key # None
                 PROVE  /\ key \in minted'
                        /\ \A r \in Sent' : r.key = key => VersionOf(r.bill, cart)'
      BY <1>1, <2>2
    <3>1. \A r \in Sent' : r.key = key => r \in Sent /\ VersionOf(r.bill, cart)
      BY <1>2, <1>4, <2>2
    <3>2. QED
      BY <1>1, <1>2, <1>7, <3>1 DEF VersionOf
  <2>3. QED
    BY <2>1, <2>2
<1>13. waiting' # None /\ ~jobs'[waiting'].row.held => key' = jobs'[waiting'].row.key
  BY <1>1
<1>14. QED
  BY <1>6, <1>10, <1>12, <1>13 DEF KeysStandForBills

LEMMA KeysKept ==
  ASSUME Owned, KeysStandForBills, Sent' \subseteq Sent, minted' = minted,
         amended \subseteq amended',
         key' = key \/ (key' = None /\ waiting' = None),
         key' # None /\ cart' # None =>
            cart # None /\ \A a \in Bills : VersionOf(a, cart) => VersionOf(a, cart)',
         waiting' # None => waiting' = waiting /\ jobs'[waiting].row = jobs[waiting].row
  PROVE  KeysStandForBills'
<1>1. \A r \in Sent' : r.key \in minted'
  BY DEF KeysStandForBills
<1>2. (\A r, s \in Sent : r.key = s.key => SameSale(r.bill, s.bill))'
  BY SameSaleGrows DEF KeysStandForBills
<1>3. ASSUME key' # None, cart' # None, NEW r \in Sent', r.key = key'
      PROVE  VersionOf(r.bill, cart)'
  <2>1. VersionOf(r.bill, cart)
    BY <1>3 DEF KeysStandForBills
  <2>2. r.bill \in Bills
    BY SentType DEF Owned, Row
  <2>3. QED
    BY <1>3, <2>1, <2>2
<1>4. key' # None => key' \in minted'
  BY DEF KeysStandForBills
<1>5. waiting' # None /\ ~jobs'[waiting'].row.held => key' = jobs'[waiting'].row.key
  BY DEF KeysStandForBills
<1>6. QED
  BY <1>1, <1>2, <1>3, <1>4, <1>5 DEF KeysStandForBills

(* No other client touches the request that the till awaits. *)
LEMMA AwaitedKept ==
  ASSUME Owned, Sync \/ Server, waiting # None
  PROVE  jobs'[waiting].row = jobs[waiting].row /\ UNCHANGED till
<1>1. /\ waiting \in Handlers /\ jobs[waiting].kind = "sale"
      /\ jobs[waiting].stage \notin {"idle", "next"}
  BY DEF Owned, RequestsOwned, TypeOK
<1>2. CASE Sync
  <2>1. PICK l \in Loops : \/ Tick(l) \/ Unreachable(l) \/ Pushed(l) \/ PushFailed(l)
                           \/ \E h \in Handlers : Push(l, h)
    BY <1>2 DEF Sync
  <2>2. CASE Tick(l) \/ Unreachable(l)
    BY <2>2 DEF Tick, Unreachable, server
  <2>3. CASE Pushed(l) \/ PushFailed(l)
    <3>1. push[l].job \in Handlers \ {waiting}
      BY <1>1, <2>3 DEF Pushed, PushFailed, Owned, RequestsOwned
    <3>2. jobs' = Forgotten(push[l].job) /\ UNCHANGED till
      BY <2>3 DEF Pushed, PushFailed
    <3>3. jobs'[waiting] = jobs[waiting]
      BY <1>1, <3>1, <3>2 DEF Forgotten, Owned, TypeOK
    <3>4. QED
      BY <3>2, <3>3
  <2>4. ASSUME NEW h \in Handlers, Push(l, h) PROVE jobs'[waiting].row = jobs[waiting].row /\ UNCHANGED till
    BY <1>1, <2>4 DEF Push, Idle, Owned, TypeOK
  <2>5. QED
    BY <2>1, <2>2, <2>3, <2>4
<1>3. CASE Server
  <2>1. PICK h \in Handlers : NextOp(h) \/ Unheard(h) \/ Works(h)
    BY <1>3 DEF Server, Handle, Works
  <2>2. CASE NextOp(h)
    BY <1>1, <2>2 DEF NextOp, Owned, TypeOK
  <2>3. CASE Unheard(h)
    BY <1>1, <2>3 DEF Unheard, Awaited, Owned, TypeOK
  <2>4. CASE Works(h)
    <3>1. PICK s \in Stages : Moves(h, s)
      BY <2>4, WorkMoves DEF Owned
    <3>2. QED
      BY <1>1, <3>1 DEF Moves, till
  <2>5. QED
    BY <2>1, <2>2, <2>3, <2>4
<1>4. QED
  BY <1>2, <1>3

(* What the loops and the server do adds no row and leaves the till alone. *)
LEMMA SyncServerSends ==
  ASSUME Owned, Owned', Sync \/ Server
  PROVE  Sent' \subseteq Sent /\ UNCHANGED till
<1>1. CASE Sync
  BY <1>1, SyncSends DEF Sync, Tick, Unreachable, Push, Pushed, PushFailed
<1>2. CASE Server
  <2>1. PICK h \in Handlers : NextOp(h) \/ Unheard(h) \/ Works(h)
    BY <1>2 DEF Server, Handle, Works
  <2>2. Sent' \subseteq Sent
    BY <2>1, NextOpSends, TillSends, WorkSends
  <2>3. UNCHANGED till
    BY <2>1 DEF NextOp, Unheard, Works, BatchDone, Lock, Check, Create, Commit, Reject,
                ServerFails, LockExpires, CreateLate
  <2>4. QED
    BY <2>2, <2>3
<1>3. QED
  BY <1>1, <1>2

LEMMA AmendedGrows ==
  ASSUME Owned, Owned', [Next]_vars
  PROVE  amended \subseteq amended'
<1>1. CASE Till
  BY <1>1 DEF Till, Send, Saved, Keep, QueueSale, EditCart, LeavePage, said
<1>2. CASE Sync \/ Server
  BY <1>2, SyncServerSends DEF till, said
<1>3. CASE UNCHANGED vars
  BY <1>3 DEF vars, till, said
<1>4. QED
  BY <1>1, <1>2, <1>3 DEF Next

LEMMA KeysNext ==
  ASSUME Owned, Owned', KeysStandForBills, [Next]_vars
  PROVE  KeysStandForBills'
<1>1. amended \subseteq amended'
  BY AmendedGrows
<1>2. cart' = cart => \A a \in Bills : VersionOf(a, cart) => VersionOf(a, cart)'
  BY <1>1 DEF VersionOf
<1>3. CASE Till
  <2>1. ASSUME NEW h \in Handlers, NEW hold \in BOOLEAN, Send(h, hold) PROVE KeysStandForBills'
    BY <2>1, SendKeys
  <2>2. CASE Saved \/ LeavePage \/ \E h \in Handlers : Keep(h) \/ QueueSale(h)
    <3>1. Sent' \subseteq Sent
      BY <2>2, TillSends
    <3>2. /\ waiting' = None /\ minted' = minted
          /\ key' = key \/ key' = None
          /\ key' # None => cart' = cart
      BY <2>2 DEF Saved, LeavePage, Keep, QueueSale
    <3>3. QED
      BY <1>1, <1>2, <3>1, <3>2, KeysKept
  <2>3. CASE EditCart
    <3>1. Sent' \subseteq Sent
      BY <2>3, TillSends
    <3>2. /\ cart # None /\ cart' = NextBill /\ UNCHANGED <<key, minted, waiting, jobs>>
          /\ key # None /\ cart' # None => cart' \in amended'
      BY <2>3 DEF EditCart, server
    <3>3. key' # None /\ cart' # None => \A a \in Bills : VersionOf(a, cart) => VersionOf(a, cart)'
      BY <1>1, <3>2, VersionEdited
    <3>4. QED
      BY <1>1, <3>1, <3>2, <3>3, KeysKept
  <2>4. QED
    BY <1>3, <2>1, <2>2, <2>3 DEF Till
<1>4. CASE Sync \/ Server
  <2>1. Sent' \subseteq Sent /\ UNCHANGED <<cart, key, minted, waiting>>
    BY <1>4, SyncServerSends DEF till
  <2>2. waiting # None => jobs'[waiting].row = jobs[waiting].row
    BY <1>4, AwaitedKept
  <2>3. QED
    BY <1>1, <1>2, <2>1, <2>2, KeysKept
<1>5. CASE UNCHANGED vars
  <2>1. Sent' = Sent
    BY <1>5 DEF vars, browser, server, Sent
  <2>2. UNCHANGED <<cart, key, minted, waiting, jobs>>
    BY <1>5 DEF vars, till, server
  <2>3. QED
    BY <1>1, <1>2, <2>1, <2>2, KeysKept
<1>6. QED
  BY <1>3, <1>4, <1>5 DEF Next

(***************************************************************************)
(* What the server answers.                                                *)
(***************************************************************************)

(* The rest of the requests, and those that say nothing yet. *)
LEMMA AnswersKept ==
  ASSUME AnswersAreTrue, Grown,
         \A g \in Handlers : \/ jobs'[g] = jobs[g]
                             \/ jobs'[g].stage \notin {"commit", "ok", "next"}
                             \/ jobs'[g].kind = "push" /\ jobs'[g].stage \in {"ok", "next"}
  PROVE  AnswersAreTrue'
<1> SUFFICES ASSUME NEW g \in Handlers
             PROVE  /\ jobs'[g].stage = "commit" \/ (jobs'[g].stage = "ok" /\ jobs'[g].kind = "sale") =>
                         \E i \in DOMAIN invoices' : /\ invoices'[i].key = jobs'[g].row.key
                                                     /\ ~jobs'[g].row.held => ~invoices'[i].held
                    /\ jobs'[g].stage = "next" => jobs'[g].kind = "push"
  BY DEF AnswersAreTrue, Stored, Finalised
<1>1. CASE jobs'[g] = jobs[g]
  BY <1>1 DEF AnswersAreTrue, Stored, Finalised, Grown
<1>2. CASE jobs'[g] # jobs[g]
  BY <1>2
<1>3. QED
  BY <1>1, <1>2

LEMMA WorkAnswers ==
  ASSUME Owned, AnswersAreTrue, NEW h \in Handlers, Works(h)
  PROVE  AnswersAreTrue'
<1>1. PICK s \in Stages :
        /\ Moves(h, s)
        /\ s = "ok" => \/ jobs[h].stage = "next" /\ jobs[h].todo = {}
                       \/ jobs[h].stage = "commit"
        /\ s = "commit" => \/ jobs[h].stage = "check" /\ Finalised(jobs[h].row.key)
                           \/ Create(h)
        /\ s = "next" => jobs[h].kind = "push"
  BY WorkMoves DEF Owned
<1>2. /\ Grown
      /\ Create(h) => \E i \in DOMAIN invoices' : invoices'[i] = jobs[h].row
  BY WorkGrows
<1>3. /\ jobs'[h].stage = s /\ jobs'[h].kind = jobs[h].kind /\ jobs'[h].row = jobs[h].row
      /\ \A g \in Handlers \ {h} : jobs'[g] = jobs[g]
  BY <1>1 DEF Moves
<1>4. CASE \E i \in DOMAIN invoices' : /\ invoices'[i].key = jobs[h].row.key
                                       /\ ~jobs[h].row.held => ~invoices'[i].held
  <2> SUFFICES ASSUME NEW g \in Handlers
               PROVE  /\ jobs'[g].stage = "commit" \/ (jobs'[g].stage = "ok" /\ jobs'[g].kind = "sale") =>
                           \E i \in DOMAIN invoices' : /\ invoices'[i].key = jobs'[g].row.key
                                                       /\ ~jobs'[g].row.held => ~invoices'[i].held
                      /\ jobs'[g].stage = "next" => jobs'[g].kind = "push"
    BY DEF AnswersAreTrue, Stored, Finalised
  <2>1. CASE g = h
    BY <1>1, <1>3, <1>4, <2>1
  <2>2. CASE g # h
    BY <1>2, <1>3, <2>2 DEF AnswersAreTrue, Stored, Finalised, Grown
  <2>3. QED
    BY <2>1, <2>2
<1>5. CASE s = "commit" \/ (s = "ok" /\ jobs[h].stage = "commit")
  BY <1>1, <1>2, <1>4, <1>5 DEF AnswersAreTrue, Stored, Finalised, Grown
<1>6. CASE s # "commit" /\ (s = "ok" => jobs[h].stage = "next")
  <2>1. s = "ok" => jobs[h].kind = "push"
    BY <1>6 DEF AnswersAreTrue
  <2>2. QED
    BY <1>1, <1>2, <1>3, <1>6, <2>1, AnswersKept
<1>7. QED
  BY <1>1, <1>5, <1>6

LEMMA AnswersNext ==
  ASSUME Owned, AnswersAreTrue, [Next]_vars
  PROVE  AnswersAreTrue'
<1>1. ASSUME UNCHANGED <<invoices, deadLetters>>,
             \A g \in Handlers : \/ jobs'[g] = jobs[g]
                                 \/ jobs'[g].stage \in {"idle", "lock"}
                                 \/ jobs'[g].kind = "push" /\ jobs'[g].stage \in {"ok", "next"}
      PROVE  AnswersAreTrue'
  BY <1>1, AnswersKept DEF Grown
<1>2. ASSUME UNCHANGED <<invoices, deadLetters>>, NEW h \in Handlers, jobs' = Forgotten(h)
      PROVE  AnswersAreTrue'
  BY <1>1, <1>2, Forgetting DEF Idle
<1>3. CASE Till
  <2>1. ASSUME NEW h \in Handlers, NEW hold \in BOOLEAN, Send(h, hold) PROVE AnswersAreTrue'
    <3>1. UNCHANGED <<invoices, deadLetters>> /\ jobs'[h].stage = "lock"
          /\ \A g \in Handlers \ {h} : jobs'[g] = jobs[g]
      BY <2>1 DEF Send, Owned, TypeOK
    <3>2. QED
      BY <1>1, <3>1
  <2>2. ASSUME NEW h \in Handlers, Keep(h) \/ QueueSale(h) PROVE AnswersAreTrue'
    BY <1>2, <2>2 DEF Keep, QueueSale
  <2>3. CASE Saved
    BY <1>2, <2>3 DEF Saved, Owned, TypeOK
  <2>4. CASE EditCart \/ LeavePage
    BY <1>1, <2>4 DEF EditCart, LeavePage, server
  <2>5. QED
    BY <1>3, <2>1, <2>2, <2>3, <2>4 DEF Till
<1>4. CASE Sync
  <2>1. PICK l \in Loops : \/ Tick(l) \/ Unreachable(l) \/ Pushed(l) \/ PushFailed(l)
                           \/ \E h \in Handlers : Push(l, h)
    BY <1>4 DEF Sync
  <2>2. CASE Tick(l) \/ Unreachable(l)
    BY <1>1, <2>2 DEF Tick, Unreachable, server
  <2>3. CASE Pushed(l) \/ PushFailed(l)
    BY <1>2, <2>3 DEF Pushed, PushFailed, Owned, RequestsOwned
  <2>4. ASSUME NEW h \in Handlers, Push(l, h) PROVE AnswersAreTrue'
    <3>1. UNCHANGED <<invoices, deadLetters>> /\ jobs'[h].stage = "next" /\ jobs'[h].kind = "push"
          /\ \A g \in Handlers \ {h} : jobs'[g] = jobs[g]
      BY <2>4 DEF Push, Owned, TypeOK
    <3>2. QED
      BY <1>1, <3>1
  <2>5. QED
    BY <2>1, <2>2, <2>3, <2>4
<1>5. CASE Server
  <2>1. PICK h \in Handlers : NextOp(h) \/ Unheard(h) \/ Works(h)
    BY <1>5 DEF Server, Handle, Works
  <2>2. CASE NextOp(h)
    <3>1. /\ UNCHANGED <<invoices, deadLetters>>
          /\ jobs'[h].stage \in {"next", "lock"} /\ jobs'[h].kind = "push"
          /\ \A g \in Handlers \ {h} : jobs'[g] = jobs[g]
      BY <2>2 DEF NextOp, Owned, TypeOK
    <3>2. QED
      BY <1>1, <3>1
  <2>3. CASE Unheard(h)
    <3>1. /\ UNCHANGED <<invoices, deadLetters>> /\ jobs'[h].stage = "idle"
          /\ \A g \in Handlers \ {h} : jobs'[g] = jobs[g]
      BY <2>3 DEF Unheard, Idle, Owned, TypeOK
    <3>2. QED
      BY <1>1, <3>1
  <2>4. QED
    BY <2>1, <2>2, <2>3, WorkAnswers
<1>6. CASE UNCHANGED vars
  BY <1>1, <1>6 DEF vars, server
<1>7. QED
  BY <1>3, <1>4, <1>5, <1>6 DEF Next

(***************************************************************************)
(* What a push accounts for.                                               *)
(***************************************************************************)

LEMMA SettledGrows ==
  ASSUME Grown, amended \subseteq amended', NEW b, Settled(b)
  PROVE  Settled(b)'
BY SameSaleGrows DEF Grown, Settled

LEMMA SettledStays ==
  ASSUME UNCHANGED <<invoices, deadLetters, amended>>, NEW b
  PROVE  Settled(b)' <=> Settled(b)
BY DEF Settled, SameSale, VersionOf

LEMMA PushesKept ==
  ASSUME PushesAccountFor, Grown, amended \subseteq amended',
         \A l \in Loops : push'[l].stage = "sent" =>
            /\ push'[l] = push[l]
            /\ \/ jobs'[push[l].job] = jobs[push[l].job]
               \/ jobs'[push[l].job].stage = "fail"
  PROVE  PushesAccountFor'
<1> SUFFICES ASSUME NEW l \in Loops, push'[l].stage = "sent", jobs'[push'[l].job].stage # "fail"
             PROVE  /\ jobs'[push'[l].job].stage = "ok" => jobs'[push'[l].job].todo = {}
                    /\ \A r \in push'[l].rows :
                         \/ Settled(r.bill)'
                         \/ r \in jobs'[push'[l].job].todo
                         \/ /\ r = jobs'[push'[l].job].row
                            /\ jobs'[push'[l].job].stage \in {"lock", "check", "create", "late", "commit"}
  BY DEF PushesAccountFor
<1>1. push'[l] = push[l] /\ jobs'[push[l].job] = jobs[push[l].job]
  OBVIOUS
<1>2. \A r \in push[l].rows : Settled(r.bill) => Settled(r.bill)'
  BY SettledGrows
<1>3. QED
  BY <1>1, <1>2 DEF PushesAccountFor

(* A row with an invoice, or a dead letter, of its key is settled. *)
LEMMA StoredIsSettled ==
  ASSUME KeysStandForBills, NEW r \in Sent, Stored(r.key)
  PROVE  Settled(r.bill)
<1>1. PICK i \in DOMAIN invoices : invoices[i].key = r.key
  BY DEF Stored
<1>2. invoices[i] \in Sent
  BY SentIs DEF Somewhere
<1>3. SameSale(invoices[i].bill, r.bill)
  BY <1>1, <1>2 DEF KeysStandForBills
<1>4. QED
  BY <1>3 DEF Settled

LEMMA NextOpPushes ==
  ASSUME Owned, KeysStandForBills, PushesAccountFor, NEW h \in Handlers, NextOp(h)
  PROVE  PushesAccountFor'
<1>1. /\ UNCHANGED <<push, invoices, deadLetters, amended>>
      /\ \A g \in Handlers \ {h} : jobs'[g] = jobs[g]
      /\ jobs[h].stage = "next"
  BY DEF NextOp, Owned, TypeOK, till, said, browser
<1>2. PICK r \in jobs[h].todo :
        /\ jobs'[h].todo = jobs[h].todo \ {r} /\ jobs'[h].row = r
        /\ jobs'[h].stage = IF Stored(r.key) THEN "next" ELSE "lock"
  BY DEF NextOp, Owned, TypeOK
<1>3. Stored(r.key) => Settled(r.bill)
  <2>1. r \in Sent
    BY SentIs DEF Somewhere
  <2>2. QED
    BY <2>1, StoredIsSettled
<1>4. \A b : Settled(b)' <=> Settled(b)
  BY <1>1, SettledStays
<1> SUFFICES ASSUME NEW l \in Loops, push[l].stage = "sent", jobs'[push[l].job].stage # "fail"
             PROVE  /\ jobs'[push[l].job].stage = "ok" => jobs'[push[l].job].todo = {}
                    /\ \A q \in push[l].rows :
                         \/ Settled(q.bill)
                         \/ q \in jobs'[push[l].job].todo
                         \/ /\ q = jobs'[push[l].job].row
                            /\ jobs'[push[l].job].stage \in {"lock", "check", "create", "late", "commit"}
  BY <1>1, <1>4 DEF PushesAccountFor
<1>5. CASE push[l].job # h
  BY <1>1, <1>5 DEF PushesAccountFor, Owned, RequestsOwned
<1>6. CASE push[l].job = h
  <2>1. \A q \in push[l].rows : Settled(q.bill) \/ q \in jobs[h].todo
    BY <1>1, <1>6 DEF PushesAccountFor
  <2>2. QED
    BY <1>2, <1>3, <1>6, <2>1
<1>7. QED
  BY <1>5, <1>6

LEMMA WorkPushes ==
  ASSUME Owned, KeysStandForBills, AnswersAreTrue, PushesAccountFor, NEW h \in Handlers, Works(h)
  PROVE  PushesAccountFor'
<1>1. PICK s \in Stages :
        /\ Moves(h, s)
        /\ s # "idle"
        /\ jobs[h].stage \notin {"idle", "ok", "fail"}
        /\ s = "ok" => \/ jobs[h].stage = "next" /\ jobs[h].todo = {}
                       \/ jobs[h].stage = "commit" /\ jobs[h].kind = "sale"
        /\ s = "next" => jobs[h].stage = "commit" \/ jobs[h].row \in deadLetters'
  BY WorkMoves DEF Owned
<1>2. Grown /\ amended \subseteq amended'
  BY <1>1, WorkGrows DEF Moves, said
<1>3. /\ UNCHANGED push
      /\ jobs'[h].stage = s /\ jobs'[h].row = jobs[h].row /\ jobs'[h].todo = jobs[h].todo
      /\ \A g \in Handlers \ {h} : jobs'[g] = jobs[g]
  BY <1>1 DEF Moves
<1> SUFFICES ASSUME NEW l \in Loops, push[l].stage = "sent", jobs'[push[l].job].stage # "fail"
             PROVE  /\ jobs'[push[l].job].stage = "ok" => jobs'[push[l].job].todo = {}
                    /\ \A r \in push[l].rows :
                         \/ Settled(r.bill)'
                         \/ r \in jobs'[push[l].job].todo
                         \/ /\ r = jobs'[push[l].job].row
                            /\ jobs'[push[l].job].stage \in {"lock", "check", "create", "late", "commit"}
  BY <1>3 DEF PushesAccountFor
<1>4. \A r \in push[l].rows : Settled(r.bill) => Settled(r.bill)'
  BY <1>2, SettledGrows
<1>5. CASE push[l].job # h
  BY <1>3, <1>4, <1>5 DEF PushesAccountFor, Owned, RequestsOwned
<1>6. CASE push[l].job = h
  <2>1. jobs[h].kind = "push"
    BY <1>6 DEF Owned, RequestsOwned
  <2>2. \A r \in push[l].rows :
          \/ Settled(r.bill)
          \/ r \in jobs[h].todo
          \/ /\ r = jobs[h].row
             /\ jobs[h].stage \in {"lock", "check", "create", "late", "commit"}
    BY <1>1, <1>6 DEF PushesAccountFor
  <2>3. s = "ok" => jobs[h].todo = {} /\ jobs[h].stage = "next"
    BY <1>1, <2>1
  <2>4. jobs[h].stage = "commit" /\ jobs[h].row \in push[l].rows => Settled(jobs[h].row.bill)
    <3>1. jobs[h].stage = "commit" => Stored(jobs[h].row.key)
      BY DEF AnswersAreTrue, Stored, Finalised
    <3>2. jobs[h].row \in push[l].rows => jobs[h].row \in Sent
      BY SentIs DEF Somewhere
    <3>3. QED
      BY <3>1, <3>2, StoredIsSettled
  <2>5. ASSUME NEW r \in push[l].rows, r = jobs[h].row, s \in {"ok", "next"},
               jobs[h].stage \in {"lock", "check", "create", "late", "commit"}
        PROVE  Settled(r.bill)'
    <3>1. s = "next"
      BY <2>3, <2>5
    <3>2. CASE jobs[h].stage = "commit"
      BY <1>4, <2>4, <2>5, <3>2
    <3>3. CASE jobs[h].row \in deadLetters'
      BY <2>5, <3>3 DEF Settled
    <3>4. QED
      BY <1>1, <3>1, <3>2, <3>3
  <2>6. s \in {"lock", "check", "create", "late", "commit", "ok", "next"}
    BY <1>1, <1>3, <1>6 DEF Stages
  <2>7. QED
    BY <1>3, <1>4, <1>6, <2>2, <2>3, <2>5, <2>6
<1>7. QED
  BY <1>5, <1>6

LEMMA PushesNext ==
  ASSUME Owned, Owned', KeysStandForBills, AnswersAreTrue, PushesAccountFor, [Next]_vars
  PROVE  PushesAccountFor'
<1>0. amended \subseteq amended'
  BY AmendedGrows
<1>1. \A l \in Loops : push[l].stage = "sent" =>
        /\ push[l].job \in Handlers /\ jobs[push[l].job].kind = "push"
        /\ jobs[push[l].job].stage # "idle"
  BY DEF Owned, RequestsOwned
<1>2. ASSUME UNCHANGED <<invoices, deadLetters>>, NEW g \in Handlers,
             \A h \in Handlers \ {g} : jobs'[h] = jobs[h],
             \A l \in Loops : push'[l].stage = "sent" => push'[l] = push[l] /\ push[l].job # g
      PROVE  PushesAccountFor'
  BY <1>0, <1>1, <1>2, PushesKept DEF Grown
<1>3. ASSUME UNCHANGED <<invoices, deadLetters, push>>, NEW g \in Handlers,
             jobs[g].kind = "sale" \/ jobs[g].stage = "idle",
             \A h \in Handlers \ {g} : jobs'[h] = jobs[h]
      PROVE  PushesAccountFor'
  BY <1>1, <1>2, <1>3
<1>4. CASE Till
  <2>1. ASSUME NEW h \in Handlers, NEW hold \in BOOLEAN, Send(h, hold) PROVE PushesAccountFor'
    <3>1. /\ UNCHANGED <<invoices, deadLetters, push>> /\ jobs[h].stage = "idle"
          /\ \A g \in Handlers \ {h} : jobs'[g] = jobs[g]
      BY <2>1 DEF Send, Idle, Owned, TypeOK, browser
    <3>2. QED
      BY <1>3, <3>1
  <2>2. ASSUME NEW h \in Handlers, Keep(h) \/ QueueSale(h) \/ (Saved /\ h = waiting)
        PROVE  PushesAccountFor'
    <3>1. jobs[h].kind = "sale"
      BY <2>2, NullAssumption DEF Keep, QueueSale, Saved, Owned, RequestsOwned
    <3>2. UNCHANGED <<invoices, deadLetters, push>> /\ jobs' = Forgotten(h)
      BY <2>2 DEF Keep, QueueSale, Saved, browser
    <3>3. \A g \in Handlers \ {h} : jobs'[g] = jobs[g]
      BY <3>2 DEF Forgotten, Owned, TypeOK
    <3>4. QED
      BY <1>3, <3>1, <3>2, <3>3
  <2>3. CASE EditCart \/ LeavePage
    BY <1>0, <2>3, PushesKept DEF EditCart, LeavePage, server, browser, Grown
  <2>4. Saved => waiting \in Handlers
    BY DEF Saved, Owned, TypeOK
  <2>5. QED
    BY <1>4, <2>1, <2>2, <2>3, <2>4 DEF Till
<1>5. CASE Sync
  <2>1. PICK l \in Loops : \/ Tick(l) \/ Unreachable(l) \/ Pushed(l) \/ PushFailed(l)
                           \/ \E h \in Handlers : Push(l, h)
    BY <1>5 DEF Sync
  <2>2. CASE Tick(l) \/ Unreachable(l)
    <3>1. /\ UNCHANGED <<invoices, deadLetters, jobs>>
          /\ \A m \in Loops : push'[m].stage = "sent" => push'[m] = push[m]
      BY <2>2 DEF Tick, Unreachable, Quiet, server, Owned, TypeOK
    <3>2. QED
      BY <1>0, <3>1, PushesKept DEF Grown
  <2>3. CASE Pushed(l) \/ PushFailed(l)
    <3>1. push[l].job \in Handlers /\ push[l].stage = "sent"
      BY <1>1, <2>3 DEF Pushed, PushFailed
    <3>2. \A m \in Loops : push'[m].stage = "sent" => push'[m] = push[m] /\ push[m].job # push[l].job
      BY <2>3 DEF Pushed, PushFailed, Quiet, Owned, TypeOK, RequestsOwned
    <3>3. \A g \in Handlers \ {push[l].job} : jobs'[g] = jobs[g]
      BY <2>3 DEF Pushed, PushFailed, Forgotten, Owned, TypeOK
    <3>4. UNCHANGED <<invoices, deadLetters>>
      BY <2>3 DEF Pushed, PushFailed
    <3>5. QED
      BY <1>2, <3>1, <3>2, <3>3, <3>4
  <2>4. ASSUME NEW h \in Handlers, Push(l, h) PROVE PushesAccountFor'
    <3>1. /\ UNCHANGED <<invoices, deadLetters, amended>> /\ jobs[h].stage = "idle"
          /\ jobs'[h].stage = "next" /\ jobs'[h].todo = push[l].rows
          /\ \A g \in Handlers \ {h} : jobs'[g] = jobs[g]
          /\ push'[l].job = h /\ push'[l].rows = push[l].rows
          /\ \A m \in Loops \ {l} : push'[m] = push[m]
      BY <2>4 DEF Push, Idle, Owned, TypeOK, till, said
    <3>2. ASSUME NEW m \in Loops \ {l}, push[m].stage = "sent" PROVE jobs'[push[m].job] = jobs[push[m].job]
      BY <1>1, <3>1, <3>2
    <3>3. \A b : Settled(b)' <=> Settled(b)
      BY <3>1, SettledStays
    <3>4. QED
      BY <3>1, <3>2, <3>3 DEF PushesAccountFor
  <2>5. QED
    BY <2>1, <2>2, <2>3, <2>4
<1>6. CASE Server
  <2>1. PICK h \in Handlers : NextOp(h) \/ Unheard(h) \/ Works(h)
    BY <1>6 DEF Server, Handle, Works
  <2>2. CASE Unheard(h)
    <3>1. /\ UNCHANGED <<invoices, deadLetters, push>>
          /\ \A g \in Handlers \ {h} : jobs'[g] = jobs[g]
          /\ \A l \in Loops : push[l].stage = "sent" => push[l].job # h
      BY <2>2 DEF Unheard, Awaited, browser, Owned, TypeOK
    <3>2. QED
      BY <1>2, <3>1
  <2>3. QED
    BY <2>1, <2>2, NextOpPushes, WorkPushes
<1>7. CASE UNCHANGED vars
  BY <1>0, <1>7, PushesKept DEF vars, browser, server, Grown
<1>8. QED
  BY <1>4, <1>5, <1>6, <1>7 DEF Next

(***************************************************************************)
(* What the till has reported.                                             *)
(***************************************************************************)

LEMMA NextGrows ==
  ASSUME Owned, [Next]_vars
  PROVE  Grown
<1>1. CASE Till \/ Sync \/ UNCHANGED vars
  <2>1. UNCHANGED <<invoices, deadLetters>>
    BY <1>1 DEF Till, Send, Keep, QueueSale, Saved, EditCart, LeavePage, Sync, Tick,
                Unreachable, Push, Pushed, PushFailed, vars, server
  <2>2. QED
    BY <2>1 DEF Grown
<1>2. CASE Server
  <2>1. PICK h \in Handlers : NextOp(h) \/ Unheard(h) \/ Works(h)
    BY <1>2 DEF Server, Handle, Works
  <2>2. QED
    BY <2>1, WorkGrows DEF NextOp, Unheard, Grown
<1>3. QED
  BY <1>1, <1>2 DEF Next

LEMMA SavedNext ==
  ASSUME Owned, Owned', KeysStandForBills, AnswersAreTrue, SavedBillsSold, [Next]_vars
  PROVE  SavedBillsSold'
<1>1. Grown /\ amended \subseteq amended'
  BY NextGrows, AmendedGrows
<1>2. ASSUME NEW b, NEW i \in DOMAIN invoices, ~invoices[i].held, VersionOf(invoices[i].bill, b)
      PROVE  \E j \in DOMAIN invoices' : ~invoices'[j].held /\ VersionOf(invoices[j].bill, b)'
  <2>1. i \in DOMAIN invoices' /\ invoices'[i] = invoices[i]
    BY <1>1 DEF Grown
  <2>2. VersionOf(invoices[i].bill, b)'
    BY <1>1, <1>2, <2>1 DEF VersionOf
  <2>3. QED
    BY <1>2, <2>1, <2>2
<1>3. CASE saved' = saved
  BY <1>2, <1>3 DEF SavedBillsSold
<1>4. CASE Saved
  <2>1. /\ waiting \in Handlers /\ jobs[waiting].stage = "ok" /\ jobs[waiting].kind = "sale"
        /\ jobs[waiting].row \in Row /\ waiting # None
    BY <1>4 DEF Saved, Owned, RequestsOwned, TypeOK
  <2>2. CASE jobs[waiting].row.held
    BY <1>3, <1>4, <2>2 DEF Saved
  <2>3. CASE ~jobs[waiting].row.held
    <3>1. PICK i \in DOMAIN invoices : invoices[i].key = jobs[waiting].row.key /\ ~invoices[i].held
      BY <2>1, <2>3 DEF AnswersAreTrue, Finalised
    <3>2. invoices[i] \in Sent
      BY SentIs DEF Somewhere
    <3>3. invoices[i].key = key /\ key # None
      BY <2>1, <2>3, <3>1, NullAssumption DEF KeysStandForBills, Row
    <3>4. cart # None => VersionOf(invoices[i].bill, cart)
      BY <3>2, <3>3 DEF KeysStandForBills
    <3>5. saved' = saved \cup ({cart} \ {None})
      BY <1>4, <2>3 DEF Saved
    <3>6. QED
      BY <1>2, <3>1, <3>4, <3>5 DEF SavedBillsSold
  <2>4. QED
    BY <2>2, <2>3
<1>5. CASE ~Saved
  BY <1>3, <1>5, SyncServerSends
     DEF Next, Till, Send, Keep, QueueSale, EditCart, LeavePage, Sync, Tick, Unreachable, Push,
         Pushed, PushFailed, Server, Handle, NextOp, BatchDone, Lock, Check, Create, Commit,
         Reject, CreateLate, Unheard, ServerFails, LockExpires, vars, till, said
<1>6. QED
  BY <1>4, <1>5

(* A row that leaves the queue is settled. *)
LEMMA KeptKept ==
  ASSUME OfflineBillsKept, Grown, amended \subseteq amended',
         offline' = offline,
         \A r \in queue : r \in queue' \/ Settled(r.bill)
  PROVE  OfflineBillsKept'
<1> SUFFICES ASSUME NEW b \in offline
             PROVE  Settled(b)' \/ \E r \in queue' : r.bill = b
  BY DEF OfflineBillsKept
<1>1. Settled(b) \/ \E r \in queue : r.bill = b
  BY DEF OfflineBillsKept
<1>2. Settled(b) => Settled(b)'
  BY SettledGrows
<1>3. QED
  BY <1>1, <1>2

LEMMA QueueSaleOffline ==
  ASSUME Owned, OfflineBillsKept, NEW h \in Handlers, QueueSale(h)
  PROVE  OfflineBillsKept'
<1>1. \A b : Settled(b)' <=> Settled(b)
  BY SettledStays DEF QueueSale
<1>2. queue' = queue \cup {jobs[h].row} /\ offline' = offline \cup {jobs[h].row.bill}
  BY DEF QueueSale
<1>3. QED
  BY <1>1, <1>2 DEF OfflineBillsKept

LEMMA OfflineNext ==
  ASSUME Owned, Owned', PushesAccountFor, OfflineBillsKept, [Next]_vars
  PROVE  OfflineBillsKept'
<1>1. Grown /\ amended \subseteq amended'
  BY NextGrows, AmendedGrows
<1>2. CASE offline' = offline /\ queue \subseteq queue'
  BY <1>1, <1>2, KeptKept
<1>3. CASE Till
  <2>1. ASSUME NEW h \in Handlers, QueueSale(h) PROVE OfflineBillsKept'
    BY <2>1, QueueSaleOffline
  <2>2. CASE \A h \in Handlers : ~QueueSale(h)
    BY <1>2, <1>3, <2>2 DEF Till, Send, Keep, Saved, EditCart, LeavePage, said, browser
  <2>3. QED
    BY <2>1, <2>2
<1>4. CASE Sync
  <2>1. PICK l \in Loops : \/ Tick(l) \/ Unreachable(l) \/ Pushed(l) \/ PushFailed(l)
                           \/ \E h \in Handlers : Push(l, h)
    BY <1>4 DEF Sync
  <2>2. CASE Pushed(l)
    <3>1. \A r \in push[l].rows : Settled(r.bill)
      BY <2>2 DEF Pushed, PushesAccountFor
    <3>2. offline' = offline /\ queue' = queue \ push[l].rows
      BY <2>2 DEF Pushed, till, said
    <3>3. QED
      BY <1>1, <3>1, <3>2, KeptKept
  <2>3. CASE ~Pushed(l)
    BY <1>2, <2>1, <2>3 DEF Tick, Unreachable, Push, PushFailed, till, said
  <2>4. QED
    BY <2>2, <2>3
<1>5. CASE Server
  <2>1. PICK h \in Handlers : NextOp(h) \/ Unheard(h) \/ Works(h)
    BY <1>5 DEF Server, Handle, Works
  <2>2. UNCHANGED <<till, browser>>
    BY <2>1 DEF NextOp, Unheard, Works, BatchDone, Lock, Check, Create, Commit, Reject,
                ServerFails, LockExpires, CreateLate
  <2>3. QED
    BY <1>2, <2>2 DEF till, said, browser
<1>6. CASE UNCHANGED vars
  BY <1>2, <1>6 DEF vars, till, said, browser
<1>7. QED
  BY <1>3, <1>4, <1>5, <1>6 DEF Next

LEMMA TillNext ==
  ASSUME TillInv, [Next]_vars
  PROVE  TillInv'
BY OwnedNext, KeysNext, AnswersNext, PushesNext, SavedNext, OfflineNext DEF TillInv

LEMMA InitSent == Init => Sent = {}
<1> SUFFICES ASSUME Init, NEW r \in Sent PROVE FALSE
  OBVIOUS
<1>1. Somewhere(r)
  BY SentIs
<1>2. DOMAIN invoices = {}
  BY DEF Init
<1>3. QED
  BY <1>1, <1>2 DEF Somewhere, Init, Idle, Quiet

(* A key stands for one bill and the versions the cashier made of it under *)
(* that key; what the server answers, what a push has done with its rows   *)
(* and what the till has told the cashier is true of it: also when         *)
(* transactions outlive their time, the cart is edited while a key is kept *)
(* and the cashier leaves the page.                                        *)
THEOREM TillSafety == Spec => []TillInv
<1>1. Init => TillInv
  BY InitOwned, InitSent
     DEF TillInv, Init, KeysStandForBills, AnswersAreTrue, PushesAccountFor, SavedBillsSold,
         OfflineBillsKept, Idle, Quiet
<1>2. TillInv /\ [Next]_vars => TillInv'
  BY TillNext
<1>3. QED
  BY <1>1, <1>2, PTL DEF Spec

(* "Sale is committed" (onSuccess): what was on the screen when the till   *)
(* reported success was sold, or is an edited version of what was sold     *)
(* under the kept key, for any number of bills, edits and requests.        *)
THEOREM SavedSold == Spec => []SavedBillsSold
<1>1. TillInv => SavedBillsSold
  BY DEF TillInv
<1>2. QED
  BY TillSafety, <1>1, PTL

(* "Nothing is ever silently dropped" (processSyncQueue): a bill saved     *)
(* offline is in the queue until it, or a version of it under its key, is  *)
(* stored or it is recorded as failed, for any number of loops that push.  *)
THEOREM OfflineKept == Spec => []OfflineBillsKept
<1>1. TillInv => OfflineBillsKept
  BY DEF TillInv
<1>2. QED
  BY TillSafety, <1>1, PTL

(***************************************************************************)
(* One bill, one key, one sale.                                            *)
(***************************************************************************)

LEMMA BillsKept ==
  ASSUME Owned, BillsHaveOneKey, Sent' \subseteq Sent,
         forgotten \subseteq forgotten',
         \/ cart' = cart /\ (key' = key \/ cart = None \/ cart \in forgotten')
         \/ cart' = NextBill
  PROVE  BillsHaveOneKey'
<1>1. \A r \in Sent : r.bill \in Nat
  BY SentType, BillsAssumption DEF Owned, Row
<1>2. CASE cart' = cart /\ (key' = key \/ cart = None \/ cart \in forgotten')
  BY <1>2 DEF BillsHaveOneKey
<1>3. CASE cart' = NextBill
  <2>1. cart' # None => cart \in Nat /\ cart' = cart + 1
    BY <1>3, BillsAssumption, NullAssumption DEF NextBill, Owned, TypeOK
  <2>2. cart' # None => \A r \in Sent : r.bill <= cart /\ cart # None
    BY <1>3, NullAssumption DEF BillsHaveOneKey, NextBill
  <2>3. cart' # None => \A r \in Sent : r.bill <= cart' /\ r.bill # cart'
    BY <1>1, <2>1, <2>2
  <2>4. QED
    BY <2>3 DEF BillsHaveOneKey
<1>4. QED
  BY <1>2, <1>3

LEMMA SendBills ==
  ASSUME Owned, Owned', BillsHaveOneKey, NEW h \in Handlers, NEW hold \in BOOLEAN, Send(h, hold)
  PROVE  BillsHaveOneKey'
<1>1. PICK k \in Keys :
        /\ minted' = minted \cup {k}
        /\ key' = IF hold THEN key ELSE k
        /\ k \in minted => ~hold /\ k = key
        /\ cart \in Bills /\ cart' = cart /\ waiting' = h
        /\ jobs'[h].row = [key |-> k, bill |-> cart, held |-> hold]
        /\ \A r \in Sent' : r \in Sent \/ r = [key |-> k, bill |-> cart, held |-> hold]
  BY SendSends
<1>2. cart \in Nat /\ cart # None
  BY <1>1, BillsAssumption, NullAssumption
<1>3. /\ \A r \in Sent : r.bill <= cart
      /\ \A r \in Sent : r.bill = cart /\ ~r.held => key = r.key \/ cart \in forgotten
      /\ \A r, s \in Sent : ~r.held /\ ~s.held /\ r.bill = s.bill =>
           r.key = s.key \/ r.bill \in forgotten
      /\ forgotten' = forgotten
  BY <1>2 DEF BillsHaveOneKey, Send, said
<1>4. \A r \in Sent : r.key \in Keys
  BY SentType DEF Owned, Row
<1>5. \A r \in Sent' : r \in Sent \/ (r.key = k /\ r.bill = cart /\ r.held = hold)
  BY <1>1
<1>6. ~hold => key = None \/ key = k
  BY <1>1, NullAssumption DEF Send
<1>7. ~hold => \A r \in Sent : r.bill = cart /\ ~r.held => r.key = k \/ cart \in forgotten
  BY <1>3, <1>4, <1>6, NullAssumption
<1>8. \A r \in Sent' : r.bill <= cart
  BY <1>2, <1>3, <1>5
<1>9. \A r \in Sent' : r.bill = cart /\ ~r.held => key' = r.key \/ cart \in forgotten
  BY <1>1, <1>3, <1>5, <1>7
<1>10. \A r, s \in Sent' : ~r.held /\ ~s.held /\ r.bill = s.bill =>
          r.key = s.key \/ r.bill \in forgotten
  BY <1>3, <1>5, <1>7
<1>11. QED
  BY <1>1, <1>3, <1>8, <1>9, <1>10 DEF BillsHaveOneKey

LEMMA BillsNext ==
  ASSUME Owned, Owned', BillsHaveOneKey, [Next]_vars
  PROVE  BillsHaveOneKey'
<1>1. CASE Till
  <2>1. ASSUME NEW h \in Handlers, NEW hold \in BOOLEAN, Send(h, hold) PROVE BillsHaveOneKey'
    BY <2>1, SendBills
  <2>2. CASE Saved \/ EditCart \/ \E h \in Handlers : Keep(h) \/ QueueSale(h)
    <3>1. Sent' \subseteq Sent
      BY <2>2, TillSends
    <3>2. /\ forgotten' = forgotten
          /\ (cart' = cart /\ key' = key) \/ cart' = NextBill
      BY <2>2 DEF Saved, EditCart, Keep, QueueSale, said
    <3>3. QED
      BY <3>1, <3>2, BillsKept
  <2>3. CASE LeavePage
    <3>1. Sent' \subseteq Sent
      BY <2>3, TillSends
    <3>2. /\ cart' = cart /\ key' = None /\ forgotten \subseteq forgotten'
          /\ key # None /\ cart # None => cart \in forgotten'
      BY <2>3 DEF LeavePage
    <3>3. QED
      BY <3>1, <3>2, BillsKept
  <2>4. QED
    BY <1>1, <2>1, <2>2, <2>3 DEF Till
<1>2. CASE Sync \/ Server
  BY <1>2, SyncServerSends, BillsKept DEF till, said
<1>3. CASE UNCHANGED vars
  <2>1. Sent' = Sent
    BY <1>3 DEF vars, browser, server, Sent
  <2>2. QED
    BY <1>3, <2>1 DEF BillsHaveOneKey, vars, till, said
<1>4. QED
  BY <1>1, <1>2, <1>3 DEF Next

(* As long as transactions end within their five seconds, every bill that  *)
(* is sold goes under one key, unless its key was lost with the page.      *)
THEOREM BillSafety ==
  ASSUME "slow_server" \notin Mishaps
  PROVE  Spec => []BillInv
<1>1. Init => BillsHaveOneKey
  BY InitSent DEF Init, BillsHaveOneKey
<1>2. BillsHaveOneKey /\ Owned /\ Owned' /\ [Next]_vars => BillsHaveOneKey'
  BY BillsNext
<1>3. IInv => Owned
  BY DEF IInv
<1>4. Spec => []IInv
  BY Safety
<1>5. Spec => []TillInv
  BY TillSafety
<1>6. BillInv <=> IInv /\ TillInv /\ BillsHaveOneKey
  BY DEF BillInv
<1>7. QED
  BY <1>1, <1>2, <1>3, <1>4, <1>5, <1>6, PTL DEF Spec

(* The customer is billed once: no cart is finalised twice, although it    *)
(* was retried, queued and pushed by any number of loops, unless its key   *)
(* was lost with the page.                                                 *)
THEOREM OneBill ==
  ASSUME "slow_server" \notin Mishaps
  PROVE  Spec => []OneSalePerBill
<1>1. BillInv => OneSalePerBill
  <2> SUFFICES ASSUME BillInv,
                      NEW i \in DOMAIN invoices, NEW j \in DOMAIN invoices,
                      invoices[i].bill = invoices[j].bill,
                      ~invoices[i].held, ~invoices[j].held,
                      invoices[i].bill \notin forgotten
               PROVE  i = j
    BY DEF OneSalePerBill
  <2>1. invoices[i] \in Sent /\ invoices[j] \in Sent
    BY SentIs DEF Somewhere
  <2>2. invoices[i].key = invoices[j].key
    BY <2>1 DEF BillInv, BillsHaveOneKey
  <2>3. QED
    BY <2>2 DEF BillInv, IInv, OneSalePerKey
<1>2. QED
  BY BillSafety, <1>1, PTL
=============================================================================

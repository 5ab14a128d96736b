------------------------- MODULE TxnRowsBooksProofs -------------------------
(***************************************************************************)
(* Proofs about TxnRows, continued from TxnRowsProofs: what is paid of a   *)
(* bill, and the books as a whole.                                         *)
(*                                                                         *)
(* A bill that is paid is not on hold (Billed), and what was paid of it is *)
(* read under the lock of the party's row.  The totals are sums of what    *)
(* requests have done (Working) and of what came into force or out of it   *)
(* (Turning).                                                              *)
(***************************************************************************)
EXTENDS TxnRowsProofs

(***************************************************************************)
(* A document on hold, and what was found of a document before it is       *)
(* rewritten.                                                              *)
(***************************************************************************)

Rewrites == {"resume", "delete", "restore", "deposit", "reopen"}

LEMMA CollidedStep ==
  ASSUME Kept, Pairs, NEW c \in Clients, AStep(c), Collided
  PROVE  Collided'
<1>1. /\ \A e \in Clients : mode[e] # "idle" => request'[e] = request[e]
      /\ together \subseteq together'
  BY RequestKept
<1>2. PICK pair \in together :
        /\ \A x, y \in pair : request[x].doc = request[y].doc
        /\ \A x \in pair : request[x].op \in {"resume", "delete", "restore", "deposit", "reopen"}
        /\ \E x \in pair : request[x].op \in {"delete", "restore"}
  BY DEF Collided
<1>3. \A x \in pair : request'[x] = request[x]
  BY <1>1, <1>2 DEF Pairs
<1> QED
  BY <1>1, <1>2, <1>3 DEF Collided

LEMMA Collides ==
  ASSUME Pairs, NEW c \in Clients, NEW e \in Clients, c # e, Active(c), Active(e),
         request[c].doc = request[e].doc, request[c].op \in Rewrites, request[e].op \in Rewrites,
         {request[c].op, request[e].op} \cap {"delete", "restore"} # {}
  PROVE  Collided
<1>1. {c, e} \in together
  BY DEF Pairs
<1> QED
  BY <1>1 DEF Collided, Rewrites

(* What is paid or returned is not on hold. *)
Billed ==
  \A c \in Clients :
    mode[c] = "run" /\ pc[c] > 1 =>
      /\ request[c].op = "create" /\ request[c].in.pays # None =>
           db[Status(request[c].in.pays)] # "HELD"
      /\ request[c].op = "refund" => db[Status(request[c].doc)] # "HELD"

LEMMA HeldEnds ==
  ASSUME Kept, SeenOpen, Papers, Billed, NEW c \in Clients, AStep(c), NEW d \in GivenDocs
  PROVE  /\ db[Status(d)] # "HELD" => db'[Status(d)] # "HELD"
         /\ db[Status(d)] = "HELD" /\ db'[Status(d)] # "HELD" =>
              Commits(c) /\ request[c].op = "resume" /\ request[c].doc = d
<1>0. d \in DocIds /\ Status(d) \in Rows /\ d \notin Clients
  BY RowsAre, NamesAssumption DEF DocIds
<1>1. db[Status(d)] # "HELD" => db'[Status(d)] # "HELD"
  BY GivenStatus
<1>2. ASSUME db[Status(d)] = "HELD", db'[Status(d)] # "HELD"
      PROVE  Commits(c) /\ request[c].op = "resume" /\ request[c].doc = d
  <2> DEFINE r == request[c]
             t == TextOf(r)
             y == db'[Status(d)]
  <2>1. Given[d].status = "HELD" /\ Given[d].is.type \notin OrderTypes
    BY <1>2 DEF Papers
  <2>2. \A e \in GivenDocs : Given[e].is.pays # d
    BY <2>1, GivenSound DEF AtRest
  <2>3. PICK k : Puts(c, k, Status(d))
    <3>1. Releases(c) => request[c].doc # d
      BY <2>1, UndoPlaced, RequestsAssumption DEF Releases, Kept, Legal
    <3>2. Status(d) = Status(request[c].doc) => d = request[c].doc
      BY DEF Status
    <3> QED
      BY <1>0, <1>2, <3>1, <3>2, RowChanges
  <2>4. StatusWrite(c, d, y)
    BY <1>0, <2>3, StatusPuts
  <2>5. r \in Requests /\ mode[c] = "run" /\ Legal(r) /\ k \in 1 .. Len(Code(c))
    BY <2>3, RequestsAssumption DEF Puts
  <2>6. r.op \in PostingOps => Sound(t) /\ (r.op # "create" => r.doc \in GivenDocs)
                               /\ (r.op \in {"refund", "convert"} => t.pays = None)
    BY <2>5, TextSound
  <2>7. pc[c] > 1 \/ r.op = "count"
    <3>1. \/ Commits(c) /\ From(c) < k /\ k < Upto(c)
          \/ WritesAlone(c) /\ k = pc[c] /\ k = 3 /\ r.op = "convert"
          \/ WritesAlone(c) /\ k = pc[c] /\ k = Upto(c) + 1 /\ r.op = "refund"
          \/ WritesAlone(c) /\ k = pc[c] /\ r.op = "count"
      BY <2>3, PutsWhere
    <3>2. Commits(c) => pc[c] = Upto(c) /\ From(c) < Upto(c) /\ From(c) \in Nat /\ Upto(c) \in Nat
                        /\ From(c) > 0
      <4>1. Commits(c) => From(c) > 0
        BY <2>5, NowPlaced, CommitPlace DEF Kept, WellPlaced, From
      <4> QED
        BY <4>1, CommitPlace
    <3>3. r.op = "refund" => Upto(c) > 1 /\ Upto(c) \in Nat
      BY EffectsSeq DEF Upto, CommitAt
    <3> QED
      BY <3>1, <3>2, <3>3
  <2>8. ~(r.op = "refund" /\ d = r.doc)
    BY <1>2, <2>5, <2>7 DEF Billed
  <2>9. ~(r.op = "convert" /\ d = r.doc)
    BY <2>1, <2>5 DEF Legal
  <2>10. ~(r.op = "delete" /\ t.source = d)
    <3> SUFFICES ASSUME r.op = "delete", t.source = d PROVE FALSE
      OBVIOUS
    <3>1. Sound(t) /\ t.source # None
      BY <1>0, <2>6, NamesAssumption DEF PostingOps
    <3> QED
      BY <2>1, <3>1 DEF Sound
  <2>11. ~(r.op \in PostingOps /\ t.pays # None /\ d = t.pays)
    <3> SUFFICES ASSUME r.op \in PostingOps, t.pays # None, d = t.pays PROVE FALSE
      OBVIOUS
    <3>1. CASE r.op = "create"
      <4>1. t = r.in
        BY <3>1 DEF TextOf, Made, Makers
      <4> QED
        BY <1>2, <2>5, <2>7, <3>1, <4>1 DEF Billed
    <3>2. CASE r.op \in {"refund", "convert"}
      BY <2>6, <3>2
    <3>3. CASE r.op \in {"resume", "delete", "restore"}
      <4>1. t = Given[r.doc].is /\ r.doc \in GivenDocs
        BY <2>6, <3>3 DEF TextOf, Makers
      <4> QED
        BY <2>2, <4>1
    <3> QED
      BY <3>1, <3>2, <3>3 DEF PostingOps
  <2> HIDE DEF r, t, y
  <2> QED
    BY <1>0, <2>4, <2>8, <2>9, <2>10, <2>11 DEF StatusWrite, r, t, y
<1> QED
  BY <1>1, <1>2

(* The reads at the front are of what is committed. *)
LEMMA FrontStep ==
  ASSUME Kept, NEW c \in Clients, AStep(c), mode[c] = "run", mode'[c] = "run",
         request[c].op \in PostingOps, pc[c] <= FrontReads(request[c])
  PROVE  /\ ReadsIt(c) /\ FrontRead(Now(c), pc[c], request[c]) /\ db' = db
         /\ request'[c] = request[c] /\ pc'[c] = pc[c] + 1
         /\ \A row \in Rows : View(c, row) = db[row]
         /\ seen'[c] = With(seen[c], Now(c).row, View(c, Now(c).row))
<1> DEFINE r == request[c]
<1>1. /\ pc[c] \in 1 .. Len(Code(c)) /\ Len(Code(c)) \in Nat /\ From(c) \in Nat
      /\ c \in open <=> From(c) < pc[c] /\ pc[c] <= Upto(c)
  BY NowPlaced DEF Kept
<1>2. FrontReads(r) \in 0 .. 4 /\ (FrontReads(r) < From(c) \/ r.op \in Makers)
  BY DEF FrontReads, From, BeginAt, PostingOps, Makers, LoanOps
<1>3. r.op \in Makers => FrontReads(r) <= From(c) /\ FrontReads(r) \in Nat
  BY DEF FrontReads, From, BeginAt, Base, Makers, LoanOps
<1>4. c \notin open
  BY <1>1, <1>2, <1>3
<1>5. buf[c] = NothingWritten
  BY <1>4 DEF Kept, Shapes, Shape
<1>6. \A row \in Rows : View(c, row) = db[row]
  BY <1>5, ViewOfRow DEF NothingWritten
<1>7. pc[c] \in 1 .. FrontReads(r)
  BY <1>1, <1>2, <1>3
<1>8. FrontRead(Now(c), pc[c], r)
  BY <1>7, FrontReadsAre DEF Now, Code
<1>9. Now(c).op \in {"check", "read"}
  <2>1. \E x, y : Now(c) = Check(x, y) \/ Now(c) = Read(x)
    BY <1>8, Zenon DEF FrontRead
  <2> QED
    BY <2>1 DEF Check, Read
<1>10. ReadsIt(c)
  BY <1>9 DEF AStep, Starts, Begins, WritesInside, WritesAlone, Commits, Releases, Refuses, Loses,
              Crashes, Fails, MayWrite, Writes
<1> QED
  BY <1>6, <1>8, <1>10 DEF ReadsIt, Goes

(* What a request has found of the document it rewrites is still so. *)
Meant(c) ==
  LET r == request[c]
      d == r.doc
  IN  mode[c] = "run" =>
        /\ r.op \in {"resume", "delete"} /\ pc[c] > 1 => db[Deleted(d)] = FALSE
        /\ r.op = "restore" /\ pc[c] > 1 => db[Deleted(d)] = TRUE
        /\ (r.op = "delete" /\ pc[c] > 3) \/ (r.op = "restore" /\ pc[c] > 2) =>
             (Seen(seen[c], Status(d)) = "HELD" <=> db[Status(d)] = "HELD")
        /\ (r.op = "delete" /\ pc[c] > 4) \/ (r.op = "restore" /\ pc[c] > 3) =>
             Seen(seen[c], Allocated(d)) = Given[d].allocated

LEMMA MeantOther ==
  ASSUME Kept, SeenOpen, Papers, Pairs, Billed, NEW c \in Clients, AStep(c), ~Collided',
         NEW e \in Clients, e # c, Meant(e)
  PROVE  Meant(e)'
<1> DEFINE r == request[e]
           d == r.doc
<1>1. Same(e)
  BY AloneSteps DEF Alone
<1>2. /\ request'[e] = r /\ mode'[e] = mode[e] /\ pc'[e] = pc[e] /\ seen'[e] = seen[e]
  BY <1>1 DEF Same
<1>3. ~Collided
  BY CollidedStep
<1>4. CASE mode[e] = "run" /\ r.op \in {"resume", "delete", "restore"}
  <2>1. r \in Requests /\ d \in GivenDocs
    <3>1. r \in Requests
      BY <1>4 DEF Kept, Shapes, Shape
    <3> QED
      BY <1>4, <3>1, RequestsAssumption DEF Legal
  <2>2. Active(e) /\ r.op \in Rewrites
    BY <1>4 DEF Active, Rewrites
  <2>3. db'[Deleted(d)] = db[Deleted(d)]
    <3> SUFFICES ASSUME db'[Deleted(d)] # db[Deleted(d)] PROVE FALSE
      OBVIOUS
    <3>1. Commits(c) /\ request[c].doc = d /\ request[c].op \in {"delete", "restore"}
      BY <2>1, DeletedStep
    <3>2. Active(c) /\ request[c].op \in Rewrites
      BY <3>1 DEF Commits, Goes, Active, Rewrites
    <3> QED
      BY <1>3, <2>2, <3>1, <3>2, Collides
  <2>4. r.op \in {"delete", "restore"} => (db'[Status(d)] = "HELD" <=> db[Status(d)] = "HELD")
    <3> SUFFICES ASSUME r.op \in {"delete", "restore"}, ~(db'[Status(d)] = "HELD" <=> db[Status(d)] = "HELD")
                 PROVE  FALSE
      OBVIOUS
    <3>1. Commits(c) /\ request[c].doc = d /\ request[c].op = "resume"
      BY <2>1, HeldEnds
    <3>2. Active(c) /\ request[c].op \in Rewrites
      BY <3>1 DEF Commits, Goes, Active, Rewrites
    <3> QED
      BY <1>3, <2>2, <3>1, <3>2, Collides
  <2>5. /\ r.op \in {"resume", "delete"} /\ pc[e] > 1 => db[Deleted(d)] = FALSE
        /\ r.op = "restore" /\ pc[e] > 1 => db[Deleted(d)] = TRUE
        /\ (r.op = "delete" /\ pc[e] > 3) \/ (r.op = "restore" /\ pc[e] > 2) =>
             (Seen(seen[e], Status(d)) = "HELD" <=> db[Status(d)] = "HELD")
        /\ (r.op = "delete" /\ pc[e] > 4) \/ (r.op = "restore" /\ pc[e] > 3) =>
             Seen(seen[e], Allocated(d)) = Given[d].allocated
    BY <1>4 DEF Meant
  <2> HIDE DEF r, d
  <2>6. /\ r.op \in {"resume", "delete"} /\ pc[e] > 1 => db'[Deleted(d)] = FALSE
        /\ r.op = "restore" /\ pc[e] > 1 => db'[Deleted(d)] = TRUE
        /\ (r.op = "delete" /\ pc[e] > 3) \/ (r.op = "restore" /\ pc[e] > 2) =>
             (Seen(seen[e], Status(d)) = "HELD" <=> db'[Status(d)] = "HELD")
    BY <2>3, <2>4, <2>5
  <2> QED
    BY <1>2, <2>5, <2>6 DEF Meant, r, d, Deleted, Status, Allocated, Seen
<1>5. CASE ~(mode[e] = "run" /\ r.op \in {"resume", "delete", "restore"})
  BY <1>2, <1>5 DEF Meant
<1> QED
  BY <1>4, <1>5

LEMMA CheckPassed ==
  ASSUME NEW s, NEW x, NEW row, NEW b \in BOOLEAN, s = Check(row, {b}),
         s.op = "check" => x \in s.ok
  PROVE  s.op = "check" /\ s.row = row /\ x = b
<1> DEFINE ok == {b}
<1>1. s = Check(row, ok)
  OBVIOUS
<1> HIDE DEF ok
<1>2. s.op = "check" /\ s.row = row /\ s.ok = ok
  BY <1>1 DEF Check
<1>3. x \in ok
  BY <1>2
<1>4. x = b
  BY <1>3 DEF ok
<1> QED
  BY <1>2, <1>4

LEMMA MeantOwn ==
  ASSUME Kept, SeenOpen, Papers, Pairs, Billed, NEW c \in Clients, AStep(c), Meant(c)
  PROVE  Meant(c)'
<1> DEFINE r == request[c]
           d == r.doc
           v == seen[c]
<1>1. SUFFICES ASSUME mode'[c] = "run", pc'[c] > 1, request'[c].op \in {"resume", "delete", "restore"}
               PROVE  Meant(c)'
  <2> SUFFICES ASSUME ~(mode'[c] = "run" /\ pc'[c] > 1
                        /\ request'[c].op \in {"resume", "delete", "restore"})
               PROVE  Meant(c)'
    BY <1>1
  <2>1. pc'[c] \in Int
    <3>1. Kept'
      BY KeptStep
    <3> QED
      BY <3>1 DEF Kept, Shapes, Shape
  <2> QED
    BY <2>1 DEF Meant
<1>2. ~Starts(c)
  BY <1>1 DEF Starts, Kept, Shapes, Shape
<1>3. /\ mode[c] = "run" /\ request'[c] = r /\ pc'[c] = pc[c] + 1
      /\ Begins(c) \/ ReadsIt(c) \/ WritesInside(c) \/ WritesAlone(c) \/ Commits(c)
  BY <1>1, <1>2 DEF AStep, Begins, ReadsIt, WritesInside, WritesAlone, Commits, Goes, Releases,
                    Refuses, Loses, Crashes, Fails, Stops
<1>4. /\ r \in Requests /\ Len(Code(c)) \in Nat /\ pc[c] \in 1 .. Len(Code(c))
      /\ r.op \in {"resume", "delete", "restore"} /\ r.op \in PostingOps
  BY <1>1, <1>3, NowPlaced DEF Kept, PostingOps
<1>5. d \in GivenDocs /\ d \in DocIds
  BY <1>4, RequestsAssumption DEF Legal, DocIds
<1>6. Status(d) \in Rows /\ Deleted(d) \in Rows /\ Allocated(d) \in Rows
  BY <1>5, RowsAre
<1>7. ~Commits(c)
  <2>1. Commits(c) => pc[c] = Upto(c)
    BY CommitPlace
  <2>2. Upto(c) = Len(Code(c))
    BY <1>4 DEF Upto, CommitAt, Code
  <2> QED
    BY <1>1, <2>1, <2>2 DEF Commits, EndsOrNot
<1>8. /\ db'[Deleted(d)] = db[Deleted(d)]
      /\ db'[Status(d)] = "HELD" <=> db[Status(d)] = "HELD"
      /\ db[Allocated(d)] = Given[d].allocated
  BY <1>5, <1>7, DeletedStep, HeldEnds DEF Papers
<1>9. Meant(c)' <=>
        /\ r.op \in {"resume", "delete"} => db'[Deleted(d)] = FALSE
        /\ r.op = "restore" => db'[Deleted(d)] = TRUE
        /\ (r.op = "delete" /\ pc[c] + 1 > 3) \/ (r.op = "restore" /\ pc[c] + 1 > 2) =>
             (Seen(seen'[c], Status(d)) = "HELD" <=> db'[Status(d)] = "HELD")
        /\ (r.op = "delete" /\ pc[c] + 1 > 4) \/ (r.op = "restore" /\ pc[c] + 1 > 3) =>
             Seen(seen'[c], Allocated(d)) = Given[d].allocated
  BY <1>1, <1>3 DEF Meant, Seen, Deleted, Status, Allocated
<1>10. /\ r.op \in {"resume", "delete"} /\ pc[c] > 1 => db[Deleted(d)] = FALSE
       /\ r.op = "restore" /\ pc[c] > 1 => db[Deleted(d)] = TRUE
       /\ (r.op = "delete" /\ pc[c] > 3) \/ (r.op = "restore" /\ pc[c] > 2) =>
             (Seen(v, Status(d)) = "HELD" <=> db[Status(d)] = "HELD")
       /\ (r.op = "delete" /\ pc[c] > 4) \/ (r.op = "restore" /\ pc[c] > 3) =>
             Seen(v, Allocated(d)) = Given[d].allocated
  BY <1>3 DEF Meant
<1>11. CASE pc[c] <= FrontReads(r)
  <2>1. /\ ReadsIt(c) /\ FrontRead(Now(c), pc[c], r) /\ db' = db
        /\ \A row \in Rows : View(c, row) = db[row]
        /\ seen'[c] = With(v, Now(c).row, View(c, Now(c).row))
    BY <1>1, <1>3, <1>4, <1>11, FrontStep
  <2>2. Now(c).op = "check" => View(c, Now(c).row) \in Now(c).ok
    BY <2>1 DEF ReadsIt
  <2>3. \A x : Seen(seen'[c], x) = IF x = Now(c).row THEN View(c, x) ELSE Seen(v, x)
    BY <2>1, SeenWith
  <2> HIDE DEF d
  <2>4. CASE r.op = "resume"
    <3>1. pc[c] = 1 => Now(c) = Check(Deleted(d), {FALSE})
      BY <2>1, <2>4 DEF FrontRead, d
    <3>2. pc[c] = 1 => db[Deleted(d)] = FALSE
      <4> SUFFICES ASSUME pc[c] = 1 PROVE db[Deleted(d)] = FALSE
        OBVIOUS
      <4>1. Now(c) = Check(Deleted(d), {FALSE})
        BY <3>1
      <4>3. Now(c).row = Deleted(d) /\ View(c, Now(c).row) = FALSE
        BY <2>2, <4>1, CheckPassed
      <4> QED
        BY <1>6, <2>1, <4>3
    <3>3. pc[c] = 1 \/ pc[c] > 1
      BY <1>4
    <3> QED
      BY <1>8, <1>9, <1>10, <2>4, <3>2, <3>3
  <2>5. CASE r.op = "delete"
    <3>1. /\ pc[c] = 1 => Now(c) = Check(Deleted(d), {FALSE})
          /\ pc[c] = 2 => Now(c) = Check(<<"linked", d>>, {FALSE})
          /\ pc[c] = 3 => Now(c) = Read(Status(d))
          /\ pc[c] = 4 => Now(c) = Read(Allocated(d))
      BY <2>1, <2>5 DEF FrontRead, d
    <3>2. pc[c] \in {1, 2, 3, 4}
      BY <1>4, <1>11, <2>5 DEF FrontReads
    <3>3. CASE pc[c] = 1
      <4>1. Now(c) = Check(Deleted(d), {FALSE})
        BY <3>1, <3>3
      <4>3. Now(c).row = Deleted(d) /\ View(c, Now(c).row) = FALSE
        BY <2>2, <4>1, CheckPassed
      <4>2. db[Deleted(d)] = FALSE
        BY <1>6, <2>1, <4>3
      <4> QED
        BY <1>8, <1>9, <2>5, <3>3, <4>2
    <3>4. CASE pc[c] = 2
      BY <1>8, <1>9, <1>10, <2>5, <3>4
    <3>5. CASE pc[c] = 3
      <4>1. Now(c).row = Status(d)
        BY <3>1, <3>5 DEF Read
      <4>2. Seen(seen'[c], Status(d)) = db[Status(d)]
        BY <1>6, <2>1, <2>3, <4>1
      <4> QED
        BY <1>8, <1>9, <1>10, <2>5, <3>5, <4>2
    <3>6. CASE pc[c] = 4
      <4>1. Now(c).row = Allocated(d) /\ Allocated(d) # Status(d)
        BY <3>1, <3>6 DEF Read, Allocated, Status
      <4>2. Seen(seen'[c], Allocated(d)) = db[Allocated(d)]
            /\ Seen(seen'[c], Status(d)) = Seen(v, Status(d))
        BY <1>6, <2>1, <2>3, <4>1
      <4> QED
        BY <1>8, <1>9, <1>10, <2>5, <3>6, <4>2
    <3> QED
      BY <3>2, <3>3, <3>4, <3>5, <3>6
  <2>6. CASE r.op = "restore"
    <3>1. /\ pc[c] = 1 => Now(c) = Check(Deleted(d), {TRUE})
          /\ pc[c] = 2 => Now(c) = Read(Status(d))
          /\ pc[c] = 3 => Now(c) = Read(Allocated(d))
      BY <2>1, <2>6 DEF FrontRead, d
    <3>2. pc[c] \in {1, 2, 3}
      BY <1>4, <1>11, <2>6 DEF FrontReads
    <3>3. CASE pc[c] = 1
      <4>1. Now(c) = Check(Deleted(d), {TRUE})
        BY <3>1, <3>3
      <4>3. Now(c).row = Deleted(d) /\ View(c, Now(c).row) = TRUE
        BY <2>2, <4>1, CheckPassed
      <4>2. db[Deleted(d)] = TRUE
        BY <1>6, <2>1, <4>3
      <4> QED
        BY <1>8, <1>9, <2>6, <3>3, <4>2
    <3>5. CASE pc[c] = 2
      <4>1. Now(c).row = Status(d)
        BY <3>1, <3>5 DEF Read
      <4>2. Seen(seen'[c], Status(d)) = db[Status(d)]
        BY <1>6, <2>1, <2>3, <4>1
      <4> QED
        BY <1>8, <1>9, <1>10, <2>6, <3>5, <4>2
    <3>6. CASE pc[c] = 3
      <4>1. Now(c).row = Allocated(d) /\ Allocated(d) # Status(d)
        BY <3>1, <3>6 DEF Read, Allocated, Status
      <4>2. Seen(seen'[c], Allocated(d)) = db[Allocated(d)]
            /\ Seen(seen'[c], Status(d)) = Seen(v, Status(d))
        BY <1>6, <2>1, <2>3, <4>1
      <4> QED
        BY <1>8, <1>9, <1>10, <2>6, <3>6, <4>2
    <3> QED
      BY <3>2, <3>3, <3>5, <3>6
  <2> QED
    BY <1>4, <2>4, <2>5, <2>6
<1>12. CASE ~(pc[c] <= FrontReads(r))
  <2>1. FrontReads(r) \in Nat /\ (r.op = "resume" => FrontReads(r) = 2)
        /\ (r.op = "delete" => FrontReads(r) = 4) /\ (r.op = "restore" => FrontReads(r) = 3)
    BY <1>4 DEF FrontReads
  <2>2. FrontReads(r) < pc[c]
    BY <1>4, <1>12, <2>1
  <2>3. /\ AmountOf(r, seen'[c]) = AmountOf(r, v)
        /\ Seen(seen'[c], Status(d)) = Seen(v, Status(d))
    BY <1>3, <1>4, <2>2, DecidedStep
  <2>4. r.op \in {"delete", "restore"} => Seen(seen'[c], Allocated(d)) = Seen(v, Allocated(d))
    BY <2>3 DEF AmountOf
  <2> HIDE DEF r, d
  <2> QED
    BY <1>4, <1>8, <1>9, <1>10, <2>1, <2>2, <2>3, <2>4
<1> QED
  BY <1>11, <1>12

LEMMA BilledOther ==
  ASSUME Kept, SeenOpen, Papers, Billed, NEW c \in Clients, AStep(c), NEW e \in Clients, e # c,
         mode'[e] = "run", pc'[e] > 1
  PROVE  /\ request'[e].op = "create" /\ request'[e].in.pays # None =>
              db'[Status(request'[e].in.pays)] # "HELD"
         /\ request'[e].op = "refund" => db'[Status(request'[e].doc)] # "HELD"
<1>1. /\ request'[e] = request[e] /\ mode[e] = "run" /\ pc[e] > 1
  BY AloneSteps DEF Alone, Same
<1>2. Legal(request[e])
  BY <1>1, RequestsAssumption DEF Kept, Shapes, Shape
<1>3. CASE request[e].op = "create" /\ request[e].in.pays # None
  <2>1. request[e].in.pays \in GivenDocs
    BY <1>2, <1>3 DEF Legal, Sound, Content
  <2>2. db[Status(request[e].in.pays)] # "HELD"
    BY <1>1, <1>3 DEF Billed
  <2>3. db'[Status(request[e].in.pays)] # "HELD"
    BY <2>1, <2>2, HeldEnds
  <2> QED
    BY <1>1, <1>3, <2>3 DEF Status
<1>4. CASE request[e].op = "refund"
  <2>1. request[e].doc \in GivenDocs
    BY <1>2, <1>4 DEF Legal
  <2>2. db[Status(request[e].doc)] # "HELD"
    BY <1>1, <1>4 DEF Billed
  <2>3. db'[Status(request[e].doc)] # "HELD"
    BY <2>1, <2>2, HeldEnds
  <2> QED
    BY <1>1, <1>4, <2>3 DEF Status
<1> QED
  BY <1>1, <1>3, <1>4

LEMMA BilledOwn ==
  ASSUME Kept, SeenOpen, Papers, Billed, NEW c \in Clients, AStep(c),
         mode'[c] = "run", pc'[c] > 1
  PROVE  /\ request'[c].op = "create" /\ request'[c].in.pays # None =>
              db'[Status(request'[c].in.pays)] # "HELD"
         /\ request'[c].op = "refund" => db'[Status(request'[c].doc)] # "HELD"
<1>1. ~Starts(c)
  BY DEF Starts, Kept, Shapes, Shape
<1>2. /\ mode[c] = "run" /\ request'[c] = request[c] /\ pc'[c] = pc[c] + 1
  BY <1>1 DEF AStep, Begins, ReadsIt, WritesInside, WritesAlone, Commits, Goes, Releases,
              Refuses, Loses, Crashes, Fails, Stops
<1>3. Legal(request[c]) /\ pc[c] \in Nat \ {0}
  BY <1>2, RequestsAssumption DEF Kept, Shapes, Shape
<1>4. CASE request[c].op = "create" /\ request[c].in.pays # None
  <2> DEFINE i == request[c].in.pays
  <2>1. i \in GivenDocs /\ i \in DocIds
    BY <1>3, <1>4 DEF Legal, Sound, Content, DocIds
  <2>2. db[Status(i)] # "HELD" /\ pc[c] > 1 => db'[Status(i)] # "HELD"
    BY <2>1, HeldEnds
  <2>3. pc[c] > 1 => db[Status(i)] # "HELD"
    BY <1>2, <1>4 DEF Billed
  <2>4. ASSUME pc[c] = 1 PROVE db'[Status(i)] # "HELD"
    <3>1. FrontReads(request[c]) = 3 /\ request[c].op \in PostingOps
      BY <1>4 DEF FrontReads, PostingOps
    <3>2. ReadsIt(c) /\ FrontRead(Now(c), pc[c], request[c]) /\ db' = db
          /\ \A row \in Rows : View(c, row) = db[row]
      BY <1>2, <2>4, <3>1, FrontStep
    <3> HIDE DEF i
    <3>3. Now(c) = Check(Status(i), {"OPEN", "PARTIAL"})
      BY <1>4, <2>4, <3>2 DEF FrontRead, i
    <3>4. Now(c).op = "check" /\ Now(c).row = Status(i) /\ Now(c).ok = {"OPEN", "PARTIAL"}
      BY <3>3 DEF Check
    <3>5. View(c, Status(i)) \in {"OPEN", "PARTIAL"}
      BY <3>2, <3>4 DEF ReadsIt
    <3> QED
      BY <2>1, <3>2, <3>5, RowsAre
  <2>5. db'[Status(i)] # "HELD"
    BY <1>3, <2>2, <2>3, <2>4
  <2> QED
    BY <1>2, <1>4, <2>5 DEF Status
<1>5. CASE request[c].op = "refund"
  <2> DEFINE i == request[c].doc
  <2>1. i \in GivenDocs /\ i \in DocIds
    BY <1>3, <1>5 DEF Legal, DocIds
  <2>2. db[Status(i)] # "HELD" /\ pc[c] > 1 => db'[Status(i)] # "HELD"
    BY <2>1, HeldEnds
  <2>3. pc[c] > 1 => db[Status(i)] # "HELD"
    BY <1>2, <1>5 DEF Billed
  <2>4. ASSUME pc[c] = 1 PROVE db'[Status(i)] # "HELD"
    <3>1. FrontReads(request[c]) = 3 /\ request[c].op \in PostingOps
      BY <1>5 DEF FrontReads, PostingOps
    <3>2. ReadsIt(c) /\ FrontRead(Now(c), pc[c], request[c]) /\ db' = db
          /\ \A row \in Rows : View(c, row) = db[row]
      BY <1>2, <2>4, <3>1, FrontStep
    <3> HIDE DEF i
    <3>3. Now(c) = Check(Status(i), {"OPEN", "PARTIAL", "PAID", "REFUNDED"})
      BY <1>5, <2>4, <3>2 DEF FrontRead, i
    <3>4. Now(c).op = "check" /\ Now(c).row = Status(i)
          /\ Now(c).ok = {"OPEN", "PARTIAL", "PAID", "REFUNDED"}
      BY <3>3 DEF Check
    <3>5. View(c, Status(i)) \in {"OPEN", "PARTIAL", "PAID", "REFUNDED"}
      BY <3>2, <3>4 DEF ReadsIt
    <3> QED
      BY <2>1, <3>2, <3>5, RowsAre
  <2>5. db'[Status(i)] # "HELD"
    BY <1>3, <2>2, <2>3, <2>4
  <2> QED
    BY <1>2, <1>5, <2>5 DEF Status
<1> QED
  BY <1>2, <1>4, <1>5

Intent == Billed /\ (Collided \/ \A c \in Clients : Meant(c))

LEMMA IntentInit == Init => Intent
<1> SUFFICES ASSUME Init PROVE Intent
  OBVIOUS
<1>1. \A c \in Clients : mode[c] = "idle"
  BY DEF Init
<1> QED
  BY <1>1 DEF Intent, Billed, Meant

LEMMA IntentStep ==
  ASSUME Kept, SeenOpen, Papers, Pairs, Intent, NEW c \in Clients, AStep(c)
  PROVE  Intent'
<1>1. Billed'
  <2> SUFFICES ASSUME NEW e \in Clients, mode'[e] = "run", pc'[e] > 1
               PROVE  /\ request'[e].op = "create" /\ request'[e].in.pays # None =>
                           db'[Status(request'[e].in.pays)] # "HELD"
                      /\ request'[e].op = "refund" => db'[Status(request'[e].doc)] # "HELD"
    BY DEF Billed, Status
  <2>1. Billed
    BY DEF Intent
  <2> QED
    BY <2>1, BilledOther, BilledOwn
<1>2. ~Collided' => \A e \in Clients : Meant(e)'
  <2> SUFFICES ASSUME ~Collided', NEW e \in Clients PROVE Meant(e)'
    OBVIOUS
  <2>1. Meant(e) /\ Meant(c) /\ Billed
    BY CollidedStep DEF Intent
  <2> QED
    BY <2>1, MeantOther, MeantOwn
<1> QED
  BY <1>1, <1>2 DEF Intent

LEMMA IntentSame ==
  ASSUME Intent, UNCHANGED vars
  PROVE  Intent'
BY DEF Intent, Billed, Meant, Collided, vars, Seen, Status, Deleted, Allocated

(***************************************************************************)
(* What comes into force, and out of it, in a step.                        *)
(***************************************************************************)

LEMMA CommitPuts ==
  ASSUME Kept, NEW c \in Clients, Commits(c), NEW k \in 1 .. Len(Code(c)),
         From(c) < k, k < Upto(c), Code(c)[k].op \in Writes
  PROVE  \E j : Puts(c, j, Code(c)[k].row)
<1>1. PICK j \in 1 .. Len(Code(c)) :
        /\ Written(c, j) /\ Code(c)[j].row = Code(c)[k].row
        /\ Code(c)[j].op # "add" => db'[Code(c)[k].row] = Code(c)[j].v
  BY CommitsWhatItWrote
<1>2. /\ Code(c)[k].row \in DOMAIN buf[c]
      /\ db'[Code(c)[k].row] = buf[c][Code(c)[k].row]
  BY CommitsWhatItWrote
<1>3. /\ mode[c] = "run" /\ request[c] \in Requests /\ request'[c] = request[c]
      /\ pc'[c] = pc[c] + 1 /\ seen'[c] = seen[c]
  BY CommitPlace
<1>4. Puts(c, j, Code(c)[k].row)
  BY <1>1, <1>2, <1>3 DEF Puts, Written
<1> QED
  BY <1>4

LEMMA DeletedThen ==
  ASSUME Kept, NEW c \in Clients, Commits(c), request[c].op \in {"delete", "restore"}
  PROVE  db'[Deleted(request[c].doc)] = (request[c].op = "delete")
<1> DEFINE r == request[c]
           d == r.doc
           n == Len(Effects(c, r, seen[c]))
<1>1. /\ pc[c] = Upto(c) /\ Upto(c) \in Nat /\ From(c) < Upto(c) /\ r \in Requests /\ mode[c] = "run"
      /\ n \in Nat /\ r.op \in PostingOps /\ d \in GivenDocs /\ d \in DocIds
  BY CommitPlace, EffectsSeq, RequestsAssumption DEF PostingOps, Legal, DocIds
<1>2. Upto(c) = Len(Code(c))
  BY DEF Upto, CommitAt, Code
<1>3. \E t : OpLaid(Code(c), Effects(c, r, seen[c]), c, r, seen[c])
  BY <1>1, PostingHandler DEF HandlerLaid, Code
<1> HIDE DEF n, d, r
<1>4. PICK k : k = Upto(c) - 1
  OBVIOUS
<1>5. /\ k \in 1 .. Len(Code(c)) /\ From(c) < k /\ k < Upto(c)
      /\ Code(c)[k] = Put(Deleted(d), TRUE) \/ Code(c)[k] = Put(Deleted(d), FALSE)
  <2>1. CASE r.op = "delete"
    <3>1. From(c) = 5
      BY <2>1 DEF From, BeginAt, Makers, LoanOps, r
    <3>2. \/ Len(Code(c)) = n + 7 /\ Code(c)[n + 6] = Put(Deleted(d), TRUE)
          \/ Len(Code(c)) = n + 8 /\ Code(c)[n + 7] = Put(Deleted(d), TRUE)
      BY <1>3, <2>1 DEF OpLaid, n, d
    <3>3. CASE Len(Code(c)) = n + 7 /\ Code(c)[n + 6] = Put(Deleted(d), TRUE)
      <4>1. k = n + 6
        BY <1>1, <1>2, <1>4, <3>3
      <4>2. Code(c)[k] = Put(Deleted(d), TRUE)
        BY <3>3, <4>1
      <4> QED
        <5>1. k \in 1 .. Len(Code(c)) /\ From(c) < k /\ k < Upto(c)
          BY <1>1, <1>2, <3>1, <3>3, <4>1
        <5> QED
          BY <4>2, <5>1
    <3>4. CASE Len(Code(c)) = n + 8 /\ Code(c)[n + 7] = Put(Deleted(d), TRUE)
      <4>1. k = n + 7
        BY <1>1, <1>2, <1>4, <3>4
      <4>2. Code(c)[k] = Put(Deleted(d), TRUE)
        BY <3>4, <4>1
      <4> QED
        <5>1. k \in 1 .. Len(Code(c)) /\ From(c) < k /\ k < Upto(c)
          BY <1>1, <1>2, <3>1, <3>4, <4>1
        <5> QED
          BY <4>2, <5>1
    <3> QED
      BY <3>2, <3>3, <3>4
  <2>2. CASE r.op = "restore"
    <3>1. From(c) = 4
      BY <2>2 DEF From, BeginAt, Makers, LoanOps, r
    <3>2. Len(Code(c)) = n + 6 /\ Code(c)[n + 5] = Put(Deleted(d), FALSE)
      BY <1>3, <2>2 DEF OpLaid, n, d
    <3>3. k = n + 5
      BY <1>1, <1>2, <1>4, <3>2
    <3>4. Code(c)[k] = Put(Deleted(d), FALSE)
      BY <3>2, <3>3
    <3> QED
      <4>1. k \in 1 .. Len(Code(c)) /\ From(c) < k /\ k < Upto(c)
        BY <1>1, <1>2, <3>1, <3>2, <3>3
      <4> QED
        BY <3>4, <4>1
  <2> QED
    BY <2>1, <2>2 DEF r
<1>6. Code(c)[k].op \in Writes /\ Code(c)[k].row = Deleted(d)
  BY <1>5 DEF Put, Writes
<1>7. PICK j : Puts(c, j, Deleted(d))
  BY <1>5, <1>6, CommitPuts
<1>8. \/ r.op = "delete" /\ db'[Deleted(d)] = TRUE
      \/ r.op = "restore" /\ db'[Deleted(d)] = FALSE
  BY <1>1, <1>7, DeletedPuts DEF r
<1> QED
  BY <1>8 DEF r, d

LEMMA ResumeThen ==
  ASSUME Kept, NEW c \in Clients, Commits(c), request[c].op = "resume"
  PROVE  /\ db[Status(request[c].doc)] = "HELD"
         /\ db'[Status(request[c].doc)] # "HELD"
<1> DEFINE r == request[c]
           d == r.doc
           n == Len(Effects(c, r, seen[c]))
<1>1. /\ pc[c] = Upto(c) /\ Upto(c) \in Nat /\ r \in Requests /\ mode[c] = "run" /\ c \in open
      /\ n \in Nat /\ r.op \in PostingOps /\ d \in GivenDocs /\ d \in DocIds
      /\ Legal(r)
  BY CommitPlace, EffectsSeq, RequestsAssumption DEF PostingOps, Legal, DocIds
<1>2. Upto(c) = Len(Code(c)) /\ From(c) = 3
  BY DEF Upto, CommitAt, Code, From, BeginAt, Makers, LoanOps
<1>3. OpLaid(Code(c), Effects(c, r, seen[c]), c, r, seen[c])
  BY <1>1, PostingHandler DEF HandlerLaid, Code
<1> HIDE DEF n, d, r
<1>4. Len(Code(c)) = n + 7 /\ Code(c)[4] = Claim(Status(d), "HELD", "OPEN")
  BY <1>3 DEF OpLaid, n, d, r
<1>5. 4 \in 1 .. Len(Code(c)) /\ From(c) < 4 /\ 4 < Upto(c)
  BY <1>1, <1>2, <1>4
<1>6. Code(c)[4].op = "claim" /\ Code(c)[4].row = Status(d) /\ Code(c)[4].from = "HELD"
  BY <1>4 DEF Claim
<1>7. Written(c, 4)
  BY <1>1, <1>5, <1>6 DEF Written, Writes
<1>8. \A j : Written(c, j) /\ j < 4 => Code(c)[j].row # Code(c)[4].row
  BY <1>2 DEF Written
<1>9. db[Status(d)] = "HELD"
  BY <1>1, <1>6, <1>7, <1>8 DEF Kept, Buffers, Buffer
<1>10. PICK j : Puts(c, j, Status(d))
  BY <1>5, <1>6, CommitPuts DEF Writes
<1>11. StatusWrite(c, d, db'[Status(d)])
  BY <1>1, <1>10, StatusPuts
<1>12. r.op = "resume" /\ FirstStatus(TextOf(r)) # "HELD"
  BY FirstStatusIs DEF r
<1>13. db'[Status(d)] # "HELD"
  BY <1>11, <1>12 DEF StatusWrite, r, Makers
<1> QED
  BY <1>9, <1>13 DEF r, d

(* The commit that posts the effects of a document. *)
Toggled(c) == Commits(c) /\ request[c].op \in PostingOps /\ Posts(request[c], seen[c])

LEMMA ForceStep ==
  ASSUME Kept, SeenOpen, Papers, Pairs, Intent, NEW c \in Clients, AStep(c), ~Collided',
         NEW d \in DocIds
  PROVE  /\ Toggled(c) /\ d = DocOf(c, request[c]) =>
              /\ InForce(d) <=> request[c].op = "delete"
              /\ InForce(d)' <=> request[c].op # "delete"
         /\ ~(Toggled(c) /\ d = DocOf(c, request[c])) => (InForce(d)' <=> InForce(d))
<1> DEFINE r == request[c]
<1>1. Papers' /\ Billed /\ Meant(c)
  BY PapersStep, CollidedStep DEF Intent
<1>2. Commits(c) => r \in Requests /\ Legal(r) /\ mode[c] = "run"
  BY CommitPlace, RequestsAssumption
<1>3. Commits(c) /\ r.op \in PostingOps \ Makers => r.doc \in GivenDocs /\ r.doc \notin Clients
  BY <1>2, NamesAssumption DEF Legal, PostingOps, Makers
<1>4. CASE d \in Clients
  <2>1. (InForce(d) <=> Committed(d)) /\ (InForce(d)' <=> Committed(d)')
    <3>1. InForce(d)' <=> Committed(d)'
      <4>1. FirstStatus(TextOf(request'[d])) \notin {"NONE", "HELD"}
        BY FirstStatusIs, Zenon
      <4>2. /\ db'[Status(d)] = IF Committed(d)' THEN FirstStatus(TextOf(request'[d])) ELSE "NONE"
            /\ db'[Deleted(d)] = FALSE
        BY <1>1, <1>4 DEF Papers, Status, Deleted, TextOf, Made
      <4> QED
        BY <4>1, <4>2 DEF InForce, There, Status, Deleted
    <3> QED
      BY <1>4, <3>1, InForceIs
  <2>2. d # c => (Committed(d)' <=> Committed(d))
    BY <1>4, CommittedStep
  <2>3. /\ Committed(c)' <=> Committed(c) \/ (Commits(c) /\ r.op \in Makers)
        /\ Commits(c) => ~Committed(c)
    BY CommittedStep
  <2>4. Toggled(c) /\ d = DocOf(c, r) <=> d = c /\ Commits(c) /\ r.op \in Makers
    BY <1>3, <1>4 DEF Toggled, DocOf, Posts, Makers, PostingOps
  <2>5. r.op \in Makers => r.op # "delete"
    BY DEF Makers
  <2> QED
    BY <2>1, <2>2, <2>3, <2>4, <2>5
<1>5. CASE d \in GivenDocs
  <2>1. /\ InForce(d) <=> db[Status(d)] # "HELD" /\ db[Deleted(d)] = FALSE
        /\ InForce(d)' <=> db'[Status(d)] # "HELD" /\ db'[Deleted(d)] = FALSE
        /\ db[Deleted(d)] \in BOOLEAN /\ db'[Deleted(d)] \in BOOLEAN
    BY <1>1, <1>5 DEF Papers, InForce, There, Status, Deleted
  <2>2. /\ db[Status(d)] # "HELD" => db'[Status(d)] # "HELD"
        /\ db[Status(d)] = "HELD" /\ db'[Status(d)] # "HELD" =>
              Commits(c) /\ r.op = "resume" /\ r.doc = d
    BY <1>1, <1>5, HeldEnds
  <2>3. db'[Deleted(d)] # db[Deleted(d)] =>
           Commits(c) /\ r.doc = d /\ r.op \in {"delete", "restore"}
    BY <1>5, DeletedStep
  <2>4. Commits(c) => pc[c] = Upto(c) /\ From(c) < Upto(c) /\ From(c) \in Nat /\ Upto(c) \in Nat
    BY CommitPlace
  <2>5. /\ r.op = "delete" => From(c) = 5
        /\ r.op = "restore" => From(c) = 4
        /\ r.op = "resume" => From(c) = 3
    BY DEF From, BeginAt, Makers, LoanOps
  <2>6. Commits(c) /\ r.doc = d =>
          /\ r.op \in {"resume", "delete"} => db[Deleted(d)] = FALSE
          /\ r.op = "restore" => db[Deleted(d)] = TRUE
          /\ r.op \in {"delete", "restore"} =>
               (Seen(seen[c], Status(d)) = "HELD" <=> db[Status(d)] = "HELD")
    <3> SUFFICES ASSUME Commits(c), r.doc = d
                 PROVE  /\ r.op \in {"resume", "delete"} => db[Deleted(d)] = FALSE
                        /\ r.op = "restore" => db[Deleted(d)] = TRUE
                        /\ r.op \in {"delete", "restore"} =>
                             (Seen(seen[c], Status(d)) = "HELD" <=> db[Status(d)] = "HELD")
      OBVIOUS
    <3>1. /\ r.op \in {"resume", "delete"} => pc[c] > 1
          /\ r.op = "restore" => pc[c] > 1
          /\ r.op \in {"delete", "restore"} => pc[c] > 3
      BY <2>4, <2>5
    <3>2. mode[c] = "run" /\ pc[c] \in Int /\ (pc[c] > 3 => pc[c] > 2)
      BY <1>2, <2>4
    <3> QED
      BY <1>1, <3>1, <3>2 DEF Meant
  <2>7. Commits(c) /\ r.doc = d /\ r.op \in {"delete", "restore"} =>
          (db'[Deleted(d)] = (r.op = "delete"))
    BY DeletedThen
  <2>8. Commits(c) /\ r.doc = d /\ r.op = "resume" =>
          db[Status(d)] = "HELD" /\ db'[Status(d)] # "HELD"
    BY ResumeThen
  <2>9. Toggled(c) /\ d = DocOf(c, r) =>
          /\ Commits(c) /\ r.doc = d /\ r.op \in {"resume", "delete", "restore"}
          /\ r.op \in {"delete", "restore"} => Seen(seen[c], Status(d)) # "HELD"
    BY <1>5, NamesAssumption DEF Toggled, DocOf, Posts, Makers, PostingOps
  <2>10. Commits(c) /\ r.doc = d /\ r.op \in {"resume", "delete", "restore"}
           /\ (r.op \in {"delete", "restore"} => Seen(seen[c], Status(d)) # "HELD")
         => Toggled(c) /\ d = DocOf(c, r)
    BY DEF Toggled, DocOf, Posts, Makers, PostingOps
  <2> HIDE DEF r
  <2>11. CASE Toggled(c) /\ d = DocOf(c, r)
    <3>1. CASE r.op = "resume"
      BY <2>1, <2>3, <2>6, <2>8, <2>9, <2>11, <3>1 DEF r
    <3>2. CASE r.op = "delete"
      BY <2>1, <2>2, <2>6, <2>7, <2>9, <2>11, <3>2 DEF r
    <3>3. CASE r.op = "restore"
      BY <2>1, <2>2, <2>6, <2>7, <2>9, <2>11, <3>3 DEF r
    <3> QED
      BY <2>9, <2>11, <3>1, <3>2, <3>3
  <2>12. CASE ~(Toggled(c) /\ d = DocOf(c, r))
    <3>1. db[Status(d)] = "HELD" <=> db'[Status(d)] = "HELD"
      BY <2>2, <2>10, <2>12
    <3>2. db'[Deleted(d)] # db[Deleted(d)] => db[Status(d)] = "HELD"
      BY <2>3, <2>6, <2>10, <2>12
    <3> QED
      BY <2>1, <2>12, <3>1, <3>2 DEF r
  <2> QED
    BY <2>11, <2>12 DEF r
<1> QED
  BY <1>4, <1>5 DEF DocIds

(***************************************************************************)
(* What was paid: read under the lock of the party's row.                  *)
(***************************************************************************)

(* What a client has passed, it has read. *)
ReadSoFar ==
  \A c \in Clients : mode[c] = "run" =>
    \A k \in Nat \ {0} : k < pc[c] /\ Code(c)[k].op \in Reads => Code(c)[k].row \in DOMAIN seen[c]

LEMMA ReadSoFarStep ==
  ASSUME Kept, ReadSoFar, NEW c \in Clients, AStep(c)
  PROVE  ReadSoFar'
<1> SUFFICES ASSUME NEW e \in Clients, mode'[e] = "run", NEW k \in Nat \ {0}, k < pc'[e],
                    Code(e)'[k].op \in Reads
             PROVE  Code(e)'[k].row \in DOMAIN seen'[e]
  BY DEF ReadSoFar
<1>1. CASE e # c
  <2>1. Same(e)
    BY <1>1, AloneSteps DEF Alone
  <2>2. Code(e)' = Code(e) /\ mode[e] = "run" /\ pc'[e] = pc[e] /\ seen'[e] = seen[e]
    BY <2>1, CodeSame DEF Same
  <2> QED
    BY <2>2 DEF ReadSoFar
<1>2. CASE e = c /\ ReadsIt(c)
  <2>1. /\ pc'[c] = pc[c] + 1 /\ mode[c] = "run" /\ pc[c] \in Nat \ {0}
        /\ seen'[c] = With(seen[c], Now(c).row, View(c, Now(c).row))
    BY <1>2 DEF ReadsIt, Goes, Kept, Shapes, Shape
  <2>2. \A j \in 1 .. pc[c] : Code(c)'[j] = Code(c)[j]
    BY <1>2, CodeKept DEF Kept
  <2>3. k \in 1 .. pc[c] /\ Code(c)'[k] = Code(c)[k]
    BY <1>2, <2>1, <2>2
  <2>4. DOMAIN seen'[c] = DOMAIN seen[c] \cup {Now(c).row}
    BY <2>1 DEF With
  <2>5. k < pc[c] => Code(c)[k].row \in DOMAIN seen[c]
    BY <1>2, <2>1, <2>3 DEF ReadSoFar
  <2>6. k = pc[c] => Code(c)[k].row = Now(c).row
    BY DEF Now
  <2>7. k < pc[c] \/ k = pc[c]
    BY <2>1, <2>3
  <2> QED
    BY <1>2, <2>3, <2>4, <2>5, <2>6, <2>7
<1>3. CASE e = c /\ ~ReadsIt(c)
  <2>1. ~Starts(c)
    BY <1>3 DEF Starts, Kept, Shapes, Shape
  <2>2. Begins(c) \/ WritesInside(c) \/ WritesAlone(c) \/ Commits(c)
    BY <1>3, <2>1 DEF AStep, Releases, Refuses, Loses, Crashes, Fails
  <2>3. /\ mode[c] = "run" /\ pc'[c] = pc[c] + 1 /\ seen'[c] = seen[c] /\ request'[c] = request[c]
        /\ Now(c).op \notin Reads /\ pc[c] \in Nat \ {0}
    BY <2>2 DEF Begins, WritesInside, WritesAlone, Commits, Goes, MayWrite, Reads, Writes,
                Kept, Shapes, Shape
  <2>4. Code(c)' = Code(c)
    BY <2>3, CodeSame
  <2>5. k < pc[c] \/ k = pc[c]
    BY <1>3, <2>3
  <2> QED
    BY <1>3, <2>3, <2>4, <2>5 DEF ReadSoFar, Now
<1> QED
  BY <1>1, <1>2, <1>3

(* The read of what was paid. *)
LEMMA PaidRead ==
  ASSUME Kept, NEW c \in Clients, ReadsIt(c), Now(c).row[1] = "paid"
  PROVE  LET r == request[c]
         IN  /\ r.op \in PostingOps /\ Posts(r, seen[c]) /\ TextOf(r).pays # None
             /\ AmountOf(r, seen[c]) # 0 /\ Now(c).row = Paid(TextOf(r).pays)
             /\ pc[c] = Base(r) + AllotFrom(r, seen[c]) + 1 /\ c \in open
             /\ FrontReads(r) < pc[c]
<1> DEFINE r == request[c]
           v == seen[c]
<1>1. /\ r \in Requests /\ pc[c] \in 1 .. Len(Code(c)) /\ Now(c).op \in Reads /\ Legal(r)
      /\ Len(Code(c)) \in Nat
  BY NowPlaced, RequestsAssumption DEF Kept, ReadsIt, Goes
<1>2. r.op \in PostingOps
  <2> SUFFICES ASSUME r.op \in OtherOps PROVE FALSE
    BY <1>1 DEF Legal, Ops, PostingOps, OtherOps
  <2>1. Now(c).row[1] \in {"cheque", "level"}
    <3>1. \E x, y : \/ Now(c) = Check(Cheque(x), y) \/ Now(c) = Read(Level(x))
                    \/ Now(c) = Enough(Level(x), y)
      <4>1. \/ Now(c) = Check(Cheque(r.doc), {"OPEN"}) \/ Now(c) = Check(Cheque(r.doc), {"CLOSED"})
            \/ Now(c) = Read(Level(r.shop)) \/ Now(c) = Enough(Level(r.shop), -r.qty)
            \/ Now(c) = Read(Level(r.to))
        BY <1>1, OtherReadsAre DEF Now, Code
      <4> QED
        BY <4>1, Zenon
    <3> QED
      BY <3>1 DEF Check, Read, Enough, Cheque, Level
  <2> QED
    BY <2>1
<1>3. FrontReads(r) < pc[c]
  <2> SUFFICES ASSUME ~(FrontReads(r) < pc[c]) PROVE FALSE
    OBVIOUS
  <2>1. pc[c] \in 1 .. FrontReads(r)
    BY <1>1, <1>2 DEF FrontReads, PostingOps
  <2>2. FrontRead(Now(c), pc[c], r)
    BY <1>2, <2>1, FrontReadsAre DEF Now, Code
  <2>3. \E x, y : \/ Now(c) = Check(Status(x), y) \/ Now(c) = Check(Deleted(x), y)
                  \/ Now(c) = Read(Status(x)) \/ Now(c) = Read(Allocated(x))
                  \/ \E z \in {"linked", "owed", "returned", "received"} :
                       Now(c) = Check(<<z, x>>, y) \/ Now(c) = Read(<<z, x>>)
    <3> HIDE DEF r
    <3>1. {"linked", "owed", "returned", "received"} # {}
      OBVIOUS
    <3> QED
      BY <2>2, Zenon DEF FrontRead
  <2> QED
    BY <2>3 DEF Check, Read, Status, Deleted, Allocated
<1>4. /\ Posts(r, v) /\ pc[c] - Base(r) \in 1 .. Len(Effects(c, r, v))
      /\ EffectRead(Now(c), pc[c] - Base(r), c, r, v)
  BY <1>2, <1>3, ReadsInside
<1>5. /\ TextOf(r).pays # None /\ AmountOf(r, v) # 0 /\ pc[c] - Base(r) = AllotFrom(r, v) + 1
      /\ Now(c) = Read(Paid(TextOf(r).pays))
  BY <1>4 DEF EffectRead
<1>6. Base(r) \in Nat /\ AllotFrom(r, v) \in Nat
  BY <1>2, Lengths DEF Base, PostingOps
<1>7. Now(c).row = Paid(TextOf(r).pays)
  BY <1>5 DEF Read
<1>8. pc[c] = Base(r) + AllotFrom(r, v) + 1
  BY <1>1, <1>5, <1>6
<1>9. c \in open
  <2>1. BeginAt(r) < Base(r) + (AllotFrom(r, v) + 1) /\ Base(r) + (AllotFrom(r, v) + 1) < CommitAt(c, r, v)
    BY <1>2, <1>4, <1>5, EffectInside
  <2>2. From(c) < pc[c] /\ pc[c] <= Upto(c)
    <3>1. BeginAt(r) \in Nat /\ CommitAt(c, r, v) \in Nat
      BY <1>1, NowPlaced DEF Kept, WellPlaced, ReadsIt, Goes
    <3> QED
      BY <1>6, <1>8, <2>1, <3>1 DEF From, Upto
  <2> QED
    BY <1>1, <2>2, NowPlaced DEF Kept, ReadsIt, Goes
<1> QED
  BY <1>2, <1>3, <1>4, <1>5, <1>7, <1>8, <1>9

(* What a document allocates is no more than its total. *)
LEMMA AmountBounded ==
  ASSUME Kept, Numbers, Papers, NEW c \in Clients, Meant(c), c \in open,
         request[c].op \in PostingOps, Posts(request[c], seen[c])
  PROVE  /\ AmountOf(request[c], seen[c]) \in 0 .. TextOf(request[c]).total
         /\ request[c].op \in {"delete", "restore"} =>
              AmountOf(request[c], seen[c]) = Given[request[c].doc].allocated
         /\ TextOf(request[c]).pays = None => AmountOf(request[c], seen[c]) = 0
<1> DEFINE r == request[c]
           v == seen[c]
<1>1. /\ mode[c] = "run" /\ r \in Requests /\ Legal(r) /\ From(c) < pc[c] /\ pc[c] \in Nat
  BY NowPlaced, RequestsAssumption DEF Kept, Shapes, Shape
<1>2. Numeric(v)
  BY DEF Numbers
<1>3. /\ r.op \in Makers => AmountOf(r, v) \in Nat /\ AmountOf(r, v) <= TextOf(r).total
      /\ Sound(TextOf(r)) /\ TextOf(r).total \in Nat
  BY <1>1, <1>2, AmountNumber, TextSound DEF Sound, Content
<1>4. r.op = "resume" => AmountOf(r, v) = 0
  BY DEF AmountOf
<1>5. ASSUME r.op \in {"delete", "restore"}
      PROVE  /\ AmountOf(r, v) = Given[r.doc].allocated /\ TextOf(r) = Given[r.doc].is
             /\ AtRest(r.doc)
  <2>1. Seen(v, Allocated(r.doc)) = Given[r.doc].allocated
    <3>1. r.op = "delete" => From(c) = 5
      BY DEF From, BeginAt, Makers, LoanOps
    <3>2. r.op = "restore" => From(c) = 4
      BY DEF From, BeginAt, Makers, LoanOps
    <3>3. r.op = "delete" => pc[c] > 4
      BY <1>1, <3>1
    <3>4. r.op = "restore" => pc[c] > 3
      BY <1>1, <3>2
    <3> QED
      BY <1>1, <1>5, <3>3, <3>4 DEF Meant
  <2>2. AmountOf(r, v) = Seen(v, Allocated(r.doc)) /\ TextOf(r) = Given[r.doc].is
    BY <1>5 DEF AmountOf, TextOf, Makers
  <2>3. r.doc \in GivenDocs
    BY <1>1, <1>5 DEF Legal
  <2> QED
    BY <2>1, <2>2, <2>3, GivenSound
<1>6. r.op \in Makers /\ TextOf(r).pays = None => AmountOf(r, v) = 0
  <2>1. r.op = "create" => TextOf(r) = r.in
    BY DEF TextOf, Made, Makers
  <2> QED
    BY <2>1 DEF AmountOf, Makers
<1>7. r.op \in {"delete", "restore"} =>
        /\ AmountOf(r, v) \in 0 .. TextOf(r).total
        /\ TextOf(r).pays = None => AmountOf(r, v) = 0
  BY <1>5 DEF AtRest
<1>8. r.op \in Makers \cup {"resume", "delete", "restore"}
  BY DEF PostingOps, Makers
<1> HIDE DEF r, v
<1>9. r.op \in {"delete", "restore"} => AmountOf(r, v) = Given[r.doc].allocated
  BY <1>5
<1>10. AmountOf(r, v) \in 0 .. TextOf(r).total
  BY <1>3, <1>4, <1>7, <1>8
<1>11. TextOf(r).pays = None => AmountOf(r, v) = 0
  BY <1>4, <1>6, <1>7, <1>8
<1> QED
  BY <1>9, <1>10, <1>11 DEF r, v

(* Before its transaction and in it, a client has read what is paid of a   *)
(* bill only under the lock of the bill's party, and it still is.          *)
Fresh(c) == mode[c] = "idle" \/ (mode[c] = "run" /\ pc[c] <= Upto(c))

KnowsPaid(c, d) ==
  /\ c \in open /\ request[c].op \in PostingOps /\ TextOf(request[c]).pays = d
  /\ Party(TextOf(request[c]).party) \in DOMAIN buf[c]
  /\ seen[c][Paid(d)] = db[Paid(d)]

PaidKnown ==
  \A c \in Clients, d \in GivenDocs : Fresh(c) /\ Paid(d) \in DOMAIN seen[c] => KnowsPaid(c, d)

(* A payment that allocates something changes what its party owes. *)
LEMMA PartyPays ==
  ASSUME Kept, Numbers, Papers, NEW c \in Clients, Meant(c), c \in open,
         request[c].op \in PostingOps, Posts(request[c], seen[c]),
         TextOf(request[c]).pays # None, AmountOf(request[c], seen[c]) # 0
  PROVE  OnParty(TextOf(request[c])) # 0 /\ PartyLen(request[c]) = 1
<1> DEFINE r == request[c]
           v == seen[c]
           t == TextOf(r)
<1>1. r \in Requests /\ Legal(r)
  BY RequestsAssumption DEF Kept, Shapes, Shape
<1>2. Sound(t) /\ AmountOf(r, v) \in 0 .. t.total /\ t.total \in Nat
  BY <1>1, AmountBounded, TextSound DEF Sound, Content
<1>3. t.type \in PaymentTypes /\ t.party # None
  BY <1>2 DEF Sound
<1>4. OnParty(t) # 0
  <2>1. t.total # 0 /\ t.total \in Int
    BY <1>2
  <2>2. OnParty(t) = -t.total \/ OnParty(t) = t.total
    BY <1>3 DEF OnParty, PartyDelta, PaymentTypes
  <2> QED
    BY <2>1, <2>2
<1> QED
  BY <1>4 DEF PartyLen

(* A payment that allocates something locks its party on the way. *)
LEMMA PartyLocked ==
  ASSUME Kept, Numbers, Papers, NEW c \in Clients, Meant(c), c \in open,
         request[c].op \in PostingOps, Posts(request[c], seen[c]),
         TextOf(request[c]).pays # None, AmountOf(request[c], seen[c]) # 0,
         pc[c] > Base(request[c]) + StockLen(request[c]) + 1
  PROVE  Party(TextOf(request[c]).party) \in DOMAIN buf[c]
<1> DEFINE r == request[c]
           v == seen[c]
           t == TextOf(r)
           e == Effects(c, r, v)
           j == StockLen(r) + 1
<1>1. /\ mode[c] = "run" /\ r \in Requests /\ Legal(r) /\ pc[c] \in Nat
  BY RequestsAssumption DEF Kept, Shapes, Shape
<1>4. OnParty(t) # 0 /\ PartyLen(r) = 1
  BY PartyPays
<1>5. PartyLen(r) = 1
  BY <1>4
<1>6. EffectsLaid(e, c, r, v)
  BY EffectsAre
<1>7. Len(e) = AllotFrom(r, v) + AllotLen(r, v) /\ e[j] = Add(Party(t.party), Signed(OnParty(t), Undoes(r)))
  BY <1>4, <1>6 DEF EffectsLaid
<1>8. j \in 1 .. Len(e) /\ j \in Nat
  <2>1. StockLen(r) \in Nat /\ MoneyLen(r, v) \in Nat /\ AllotLen(r, v) \in Nat
    BY Lengths
  <2> QED
    BY <1>5, <1>7, <2>1 DEF AllotFrom, MoneyFrom
<1>9. /\ Base(r) + j \in 1 .. Len(Code(c)) /\ Code(c)[Base(r) + j] = e[j] /\ From(c) < Base(r) + j
      /\ Base(r) \in Nat
  BY <1>8, EffectInside DEF Code, From, Base, PostingOps
<1> HIDE DEF e, j
<1>10. Base(r) + j < pc[c] /\ Base(r) + j \in Nat
  <2>1. StockLen(r) \in Nat
    BY Lengths
  <2> QED
    BY <1>1, <1>9, <2>1 DEF j
<1>11. Code(c)[Base(r) + j].op = "add" /\ Code(c)[Base(r) + j].row = Party(t.party)
  BY <1>7, <1>9 DEF Add
<1>12. Written(c, Base(r) + j)
  BY <1>9, <1>10, <1>11 DEF Written, Writes
<1> QED
  BY <1>11, <1>12 DEF Kept, Buffers, Buffer

(* Who writes what is paid of a document. *)
PaidWrite(c, d, y) ==
  LET r == request[c]
      v == seen[c]
      t == TextOf(r)
  IN  /\ Commits(c) /\ r.op \in PostingOps
      /\ \/ /\ Posts(r, v) /\ t.pays = d /\ AmountOf(r, v) # 0 /\ y = PaidThen(r, v)
         \/ r.op = "resume" /\ d = r.doc /\ y = t.own

LEMMA PaidPuts ==
  ASSUME Kept, NEW c \in Clients, NEW d \in GivenDocs, NEW k, Puts(c, k, Paid(d))
  PROVE  PaidWrite(c, d, db'[Paid(d)])
<1> DEFINE r == request[c]
           v == seen[c]
           t == TextOf(r)
           s == Code(c)[k]
<1>1. PutKinds(s, k, c, r, v) /\ s.row = Paid(d)
  BY PutsKinds
<1>2. s.op # "add" => db'[Paid(d)] = s.v
  BY DEF Puts
<1>3. s.row[1] = "paid"
  BY <1>1 DEF Paid
<1>4. \A x, y : s = Put(Paid(x), y) => x = d /\ s.op # "add" /\ s.v = y
  BY <1>1 DEF Put, Paid
<1> HIDE DEF s, r, v
<1>5. CASE /\ r.op \in PostingOps /\ Commits(c) /\ Posts(r, v)
           /\ EffectKinds(s, k - Base(r), c, r, v)
  <2>1. t.pays # None /\ AmountOf(r, v) # 0 /\ s = Put(Paid(t.pays), PaidThen(r, v))
    BY <1>3, <1>5 DEF EffectKinds
  <2> QED
    BY <1>2, <1>4, <1>5, <2>1 DEF PaidWrite, r, v
<1>6. CASE r.op \in PostingOps /\ FrameKinds(s, k, c, r)
  <2>1. \/ r.op \in Makers /\ s = Put(Paid(c), t.own)
        \/ r.op = "resume" /\ k = 6 /\ s = Put(Paid(r.doc), t.own)
    BY <1>3, <1>6 DEF FrameKinds
  <2>2. r.op = "resume" /\ d = r.doc /\ db'[Paid(d)] = t.own
    BY <1>2, <1>4, <2>1, NamesAssumption
  <2>3. Commits(c)
    BY <2>2, PutsWhere DEF r
  <2> QED
    BY <1>6, <2>2, <2>3 DEF PaidWrite, r, v
<1>7. CASE OtherKinds(s, k, c, r, v)
  BY <1>3, <1>7 DEF OtherKinds
<1> QED
  BY <1>1, <1>5, <1>6, <1>7 DEF PutKinds

LEMMA PaidKnownOther ==
  ASSUME Kept, Numbers, SeenOpen, Papers, Billed, PaidKnown, NEW c \in Clients, AStep(c), Meant(c),
         NEW e \in Clients, e # c, NEW d \in GivenDocs, Fresh(e)', Paid(d) \in DOMAIN seen'[e]
  PROVE  KnowsPaid(e, d)'
<1>1. Same(e)
  BY AloneSteps DEF Alone
<1>2. Upto(e)' = Upto(e)
  BY <1>1, CodeSame DEF Same
<1>3. Fresh(e) /\ Paid(d) \in DOMAIN seen[e]
  BY <1>1, <1>2 DEF Fresh, Same
<1>4. KnowsPaid(e, d)
  BY <1>3 DEF PaidKnown
<1>5. d \in DocIds /\ Paid(d) \in Rows /\ Paid(d) # Status(request[c].doc)
  BY RowsAre DEF DocIds, Paid, Status
<1>6. db'[Paid(d)] = db[Paid(d)]
  <2> SUFFICES ASSUME db'[Paid(d)] # db[Paid(d)] PROVE FALSE
    OBVIOUS
  <2>1. PICK k : Puts(c, k, Paid(d))
    BY <1>5, RowChanges
  <2>2. PaidWrite(c, d, db'[Paid(d)])
    BY <2>1, PaidPuts
  <2>3. /\ mode[e] = "run" /\ request[e] \in Requests /\ Legal(request[e]) /\ From(e) < pc[e]
        /\ From(e) \in Nat /\ pc[e] \in Nat /\ pc[e] > 1
    <3>1. mode[e] = "run" /\ From(e) < pc[e] /\ request[e] \in Requests
      BY <1>4 DEF KnowsPaid, Kept, Shapes, Shape
    <3>2. From(e) \in Nat /\ pc[e] \in Nat /\ From(e) > 0
      BY <1>4, <3>1, NowPlaced DEF KnowsPaid, Kept, Shapes, Shape, WellPlaced, From, PostingOps
    <3> QED
      BY <3>1, <3>2, RequestsAssumption
  <2>4. Sound(TextOf(request[e])) /\ d # None
    BY <1>4, <1>5, <2>3, TextSound, NamesAssumption DEF KnowsPaid
  <2>5. CASE /\ Commits(c) /\ request[c].op \in PostingOps /\ Posts(request[c], seen[c])
             /\ TextOf(request[c]).pays = d /\ AmountOf(request[c], seen[c]) # 0
    <3>1. /\ request[c] \in Requests /\ c \in open /\ pc[c] = Upto(c) /\ Legal(request[c])
      BY <2>5, CommitPlace, RequestsAssumption
    <3>2. Sound(TextOf(request[c]))
      BY <2>5, <3>1, TextSound
    <3>3. TextOf(request[c]).party = TextOf(request[e]).party
      BY <1>4, <2>4, <2>5, <3>2 DEF Sound, KnowsPaid
    <3>4. pc[c] > Base(request[c]) + StockLen(request[c]) + 1
      <4> DEFINE r == request[c]
                 v == seen[c]
      <4>1. EffectsLaid(Effects(c, r, v), c, r, v)
        BY <2>5, EffectsAre
      <4>2. Len(Effects(c, r, v)) = AllotFrom(r, v) + 3
        BY <2>4, <2>5, <4>1 DEF EffectsLaid, AllotLen
      <4>3. AllotFrom(r, v) \in Nat /\ StockLen(r) \in Nat /\ AllotFrom(r, v) >= StockLen(r)
        BY Lengths DEF AllotFrom, MoneyFrom
      <4>4. 1 \in 1 .. Len(Effects(c, r, v)) /\ AllotFrom(r, v) + 3 \in 1 .. Len(Effects(c, r, v))
        BY <4>2, <4>3
      <4>5. Base(r) + (AllotFrom(r, v) + 3) < Upto(c) /\ Base(r) \in Nat
        <5>1. Len(Effects(c, r, v)) \in 1 .. Len(Effects(c, r, v))
          BY <4>2, <4>4
        <5> QED
          BY <2>5, <4>2, <5>1, EffectCommits
      <4>6. Upto(c) \in Nat
        BY <2>5, CommitPlace
      <4> QED
        BY <3>1, <4>3, <4>5, <4>6
    <3>5. Party(TextOf(request[c]).party) \in DOMAIN buf[c]
      BY <2>4, <2>5, <3>1, <3>4, PartyLocked
    <3> QED
      BY <1>4, <3>3, <3>5 DEF KnowsPaid, Kept, Apart
  <2>6. CASE Commits(c) /\ request[c].op = "resume" /\ d = request[c].doc
    <3>1. db[Status(d)] = "HELD" /\ Given[d].status = "HELD"
      BY <2>6, ResumeThen DEF Papers
    <3>2. \A x \in GivenDocs : Given[x].is.pays # d
      BY <3>1, GivenSound DEF AtRest
    <3>3. CASE request[e].op = "create"
      <4>1. TextOf(request[e]) = request[e].in
        BY <3>3 DEF TextOf, Made, Makers
      <4> QED
        BY <1>4, <2>3, <2>4, <3>1, <3>3, <4>1 DEF Billed, KnowsPaid
    <3>4. CASE request[e].op \in {"refund", "convert"}
      BY <1>4, <2>3, <2>4, <3>4, TextSound DEF KnowsPaid
    <3>5. CASE request[e].op \in {"resume", "delete", "restore"}
      <4>1. TextOf(request[e]) = Given[request[e].doc].is /\ request[e].doc \in GivenDocs
        BY <2>3, <3>5 DEF TextOf, Makers, Legal
      <4> QED
        BY <1>4, <3>2, <4>1 DEF KnowsPaid
    <3> QED
      BY <1>4, <3>3, <3>4, <3>5 DEF KnowsPaid, PostingOps
  <2> QED
    BY <2>2, <2>5, <2>6 DEF PaidWrite
<1> QED
  <2>1. /\ request'[e] = request[e] /\ seen'[e] = seen[e] /\ buf'[e] = buf[e] /\ e \in open'
    BY <1>1, <1>4 DEF Same, KnowsPaid
  <2> QED
    BY <1>4, <1>6, <2>1 DEF KnowsPaid, Paid, Party

(* While a client is in its transaction, the amount it reads is committed. *)
LEMMA PaidUnwritten ==
  ASSUME Kept, NEW c \in Clients, ReadsIt(c), NEW d \in GivenDocs, Now(c).row = Paid(d)
  PROVE  View(c, Paid(d)) = db[Paid(d)]
<1> DEFINE r == request[c]
           v == seen[c]
<1>1. /\ r.op \in PostingOps /\ Posts(r, v) /\ TextOf(r).pays # None
      /\ AmountOf(r, v) # 0 /\ Now(c).row = Paid(TextOf(r).pays)
      /\ pc[c] = Base(r) + AllotFrom(r, v) + 1
  BY PaidRead DEF Paid
<1>2. d \in DocIds /\ Paid(d) \in Rows /\ Paid(d)[1] = "paid" /\ d \notin Clients
  BY RowsAre, NamesAssumption DEF DocIds, Paid
<1>3. Paid(d) \notin DOMAIN buf[c]
  <2> SUFFICES ASSUME Paid(d) \in DOMAIN buf[c] PROVE FALSE
    OBVIOUS
  <2>1. PICK k \in 1 .. Len(Code(c)) :
          Written(c, k) /\ Code(c)[k].row = Paid(d) /\ k < pc[c]
    BY BufferRows
  <2>2. r \in Requests /\ Legal(r)
    BY RequestsAssumption, NowPlaced DEF ReadsIt, Goes, Kept
  <2>3. WroteKinds(Code(c)[k], k, c, r, v)
    BY <2>1, <2>2, WritesKinds DEF Code, Written
  <2>4. Base(r) \in Nat /\ AllotFrom(r, v) \in Nat /\ k \in Int
    BY <1>1, <2>1, Lengths DEF Base, PostingOps, Written
  <2>5. r.op \notin OtherOps
    BY <1>1 DEF PostingOps, OtherOps
  <2>6. r.op # "resume"
    <3>1. r.op = "resume" => AmountOf(r, v) = 0
      BY DEF AmountOf
    <3> QED
      BY <1>1, <3>1
  <2>7. CASE EffectKinds(Code(c)[k], k - Base(r), c, r, v)
    <3>1. k - Base(r) = AllotFrom(r, v) + 2
      BY <1>2, <2>1, <2>7 DEF EffectKinds
    <3> QED
      BY <1>1, <2>1, <2>4, <3>1
  <2>8. CASE FrameKinds(Code(c)[k], k, c, r)
    <3>1. Code(c)[k] = Put(Paid(c), TextOf(r).own)
      BY <1>2, <2>1, <2>6, <2>8 DEF FrameKinds
    <3>2. Code(c)[k].row = Paid(c)
      BY <3>1 DEF Put
    <3> QED
      BY <1>2, <2>1, <3>2 DEF Paid
  <2> HIDE DEF r, v
  <2> QED
    BY <2>3, <2>5, <2>7, <2>8 DEF WroteKinds
<1> QED
  BY <1>2, <1>3, ViewOfRow

LEMMA PaidKnownOwn ==
  ASSUME Kept, Numbers, Papers, PaidKnown, NEW c \in Clients, AStep(c), Meant(c),
         NEW d \in GivenDocs, Fresh(c)', Paid(d) \in DOMAIN seen'[c]
  PROVE  KnowsPaid(c, d)'
<1>1. CASE Starts(c)
  <2>1. Fresh(c) /\ Paid(d) \in DOMAIN seen[c] /\ mode[c] = "idle"
    BY <1>1 DEF Fresh, Starts
  <2>2. c \in open
    BY <2>1 DEF PaidKnown, KnowsPaid
  <2> QED
    BY <2>1, <2>2 DEF Kept, Shapes, Shape
<1>2. CASE ReadsIt(c)
  <2>1. /\ pc[c] <= Upto(c) /\ mode[c] = "run" /\ request'[c] = request[c] /\ buf'[c] = buf[c]
        /\ open' = open /\ db' = db
        /\ seen'[c] = With(seen[c], Now(c).row, View(c, Now(c).row))
    <3>1. pc[c] < Upto(c) /\ pc[c] \in Nat /\ Upto(c) \in Nat
      BY <1>2, NowPlaced DEF Kept, ReadsIt, Goes, Placed, Upto
    <3> QED
      BY <1>2, <3>1 DEF ReadsIt, Goes
  <2>2. Fresh(c)
    BY <2>1 DEF Fresh
  <2>3. CASE Now(c).row = Paid(d)
    <3>1. /\ request[c].op \in PostingOps /\ Posts(request[c], seen[c])
          /\ TextOf(request[c]).pays # None /\ AmountOf(request[c], seen[c]) # 0
          /\ Now(c).row = Paid(TextOf(request[c]).pays)
          /\ pc[c] = Base(request[c]) + AllotFrom(request[c], seen[c]) + 1 /\ c \in open
      BY <1>2, <2>3, PaidRead DEF Paid
    <3>2. TextOf(request[c]).pays = d
      BY <2>3, <3>1 DEF Paid
    <3>3. pc[c] > Base(request[c]) + StockLen(request[c]) + 1
          \/ pc[c] = Base(request[c]) + StockLen(request[c]) + 1
      <4>1. /\ AllotFrom(request[c], seen[c]) \in Nat /\ StockLen(request[c]) \in Nat
            /\ AllotFrom(request[c], seen[c]) >= StockLen(request[c])
        BY Lengths DEF AllotFrom, MoneyFrom
      <4>2. Base(request[c]) \in Nat
        BY <3>1 DEF Base, PostingOps
      <4> QED
        BY <3>1, <4>1, <4>2
    <3>4. Party(TextOf(request[c]).party) \in DOMAIN buf[c]
      <4>1. PartyLen(request[c]) = 1
        BY <2>1, <3>1, PartyPays
      <4>2. /\ AllotFrom(request[c], seen[c]) \in Nat /\ StockLen(request[c]) \in Nat
            /\ AllotFrom(request[c], seen[c]) >= StockLen(request[c]) + 1
        BY <4>1, Lengths DEF AllotFrom, MoneyFrom
      <4>3. Base(request[c]) \in Nat
        BY <3>1 DEF Base, PostingOps
      <4>4. pc[c] > Base(request[c]) + StockLen(request[c]) + 1
        BY <3>1, <4>2, <4>3
      <4> QED
        BY <3>1, <4>4, PartyLocked
    <3>5. View(c, Paid(d)) = db[Paid(d)]
      BY <1>2, <2>3, PaidUnwritten
    <3>6. seen'[c][Paid(d)] = db[Paid(d)]
      BY <2>1, <2>3, <3>5 DEF With
    <3> QED
      BY <2>1, <3>1, <3>2, <3>4, <3>6 DEF KnowsPaid, Paid, Party
  <2>4. CASE Now(c).row # Paid(d)
    <3>1. Paid(d) \in DOMAIN seen[c] /\ seen'[c][Paid(d)] = seen[c][Paid(d)]
      BY <2>1, <2>4 DEF With
    <3>2. KnowsPaid(c, d)
      BY <2>2, <3>1 DEF PaidKnown
    <3> QED
      BY <2>1, <3>1, <3>2 DEF KnowsPaid, Paid, Party
  <2> QED
    BY <2>3, <2>4
<1>3. CASE ~Starts(c) /\ ~ReadsIt(c)
  <2>1. Begins(c) \/ WritesInside(c) \/ WritesAlone(c) \/ Commits(c)
    BY <1>3 DEF AStep, Releases, Refuses, Loses, Crashes, Fails, Fresh
  <2>2. /\ mode[c] = "run" /\ pc'[c] = pc[c] + 1 /\ seen'[c] = seen[c] /\ request'[c] = request[c]
    BY <2>1 DEF Begins, WritesInside, WritesAlone, Commits, Goes
  <2>3. Upto(c)' = Upto(c) /\ Upto(c) \in Nat /\ pc[c] \in Nat
    BY <2>2, CodeSame, NowPlaced DEF Kept
  <2>4. mode'[c] \in {"run", "done"}
    BY <2>1 DEF Begins, WritesInside, WritesAlone, Commits, EndsOrNot
  <2>5. pc[c] + 1 <= Upto(c)
    BY <2>2, <2>3, <2>4 DEF Fresh
  <2>6. Fresh(c) /\ pc[c] # Upto(c)
    BY <2>2, <2>3, <2>5 DEF Fresh
  <2>7. KnowsPaid(c, d)
    BY <2>2, <2>6 DEF PaidKnown
  <2>8. Begins(c) \/ WritesInside(c)
    BY <2>1, <2>6, <2>7, CommitPlace DEF KnowsPaid, WritesAlone
  <2>9. db' = db /\ c \in open' /\ DOMAIN buf[c] \subseteq DOMAIN buf'[c]
    BY <2>7, <2>8 DEF Begins, WritesInside, With, KnowsPaid
  <2> QED
    BY <2>2, <2>7, <2>9 DEF KnowsPaid, Paid, Party
<1> QED
  BY <1>1, <1>2, <1>3

(* Nobody pays a bill on hold. *)
HeldUnpaid ==
  \A e \in Clients : Committed(e) /\ TextOf(request[e]).pays # None =>
    db[Status(TextOf(request[e]).pays)] # "HELD"

LEMMA PaysGiven ==
  ASSUME NEW r, Legal(r), r.op \in PostingOps, TextOf(r).pays # None
  PROVE  /\ TextOf(r).pays \in GivenDocs /\ r.op # "resume"
         /\ r.op \in Makers => r.op = "create" /\ r.in.pays = TextOf(r).pays
<1>1. Sound(TextOf(r))
  BY TextSound
<1>2. TextOf(r).pays \in GivenDocs /\ TextOf(r).type \in PaymentTypes
  BY <1>1 DEF Sound, Content
<1>3. r.op # "resume"
  BY <1>2 DEF Legal, TextOf, Makers, PaymentTypes
<1>4. r.op \in Makers => r.op = "create"
  BY TextSound DEF Makers
<1>5. r.op = "create" => TextOf(r) = r.in
  BY DEF TextOf, Made, Makers
<1> QED
  BY <1>2, <1>3, <1>4, <1>5

LEMMA HeldUnpaidStep ==
  ASSUME Kept, SeenOpen, Papers, Billed, HeldUnpaid, NEW c \in Clients, AStep(c)
  PROVE  HeldUnpaid'
<1> SUFFICES ASSUME NEW e \in Clients, Committed(e)', TextOf(request'[e]).pays # None
             PROVE  db'[Status(TextOf(request'[e]).pays)] # "HELD"
  BY DEF HeldUnpaid, Status
<1> DEFINE d == TextOf(request'[e]).pays
<1>1. CASE Committed(e)
  <2>1. request'[e] = request[e]
    <3>1. mode[e] # "idle"
      BY <1>1 DEF Committed
    <3> QED
      BY <3>1, RequestKept
  <2>2. db[Status(d)] # "HELD"
    BY <1>1, <2>1 DEF HeldUnpaid
  <2>3. Legal(request[e]) /\ request[e].op \in PostingOps
    BY <1>1, RequestsAssumption DEF Committed, Kept, Shapes, Shape, PostingOps, Makers
  <2>4. d \in GivenDocs
    BY <2>1, <2>3, PaysGiven
  <2> QED
    BY <2>2, <2>4, HeldEnds
<1>2. CASE ~Committed(e)
  <2>1. e = c /\ Commits(c) /\ request[c].op \in Makers
    BY <1>2, CommittedStep
  <2>2. /\ mode[c] = "run" /\ request[c] \in Requests /\ request'[c] = request[c]
        /\ From(c) \in Nat /\ From(c) < Upto(c) /\ pc[c] = Upto(c) /\ Upto(c) \in Nat
    BY <2>1, CommitPlace
  <2>3. From(c) > 0
    BY <2>1, <2>2, NowPlaced DEF Kept, WellPlaced, From, Makers
  <2>4. pc[c] > 1
    BY <2>2, <2>3
  <2>5. Legal(request[c]) /\ request[c].op \in PostingOps
    BY <2>1, <2>2, RequestsAssumption DEF PostingOps, Makers
  <2>6. d \in GivenDocs /\ request[c].op = "create" /\ request[c].in.pays = d
    BY <2>1, <2>2, <2>5, PaysGiven
  <2>7. db[Status(d)] # "HELD"
    BY <1>2, <2>1, <2>2, <2>4, <2>6, NamesAssumption DEF Billed
  <2> QED
    BY <2>6, <2>7, HeldEnds
<1> QED
  BY <1>1, <1>2

(* The commit of a payment changes what is paid by what it allocates. *)
LEMMA PaidStep ==
  ASSUME Kept, Numbers, Papers, PaidKnown, ReadSoFar, NEW c \in Clients, AStep(c), Meant(c),
         NEW d \in GivenDocs
  PROVE  LET r == request[c]
             v == seen[c]
         IN  /\ Toggled(c) /\ TextOf(r).pays = d /\ AmountOf(r, v) # 0 =>
                  db'[Paid(d)] = db[Paid(d)] + Signed(AmountOf(r, v), Undoes(r))
             /\ Commits(c) /\ r.op = "resume" /\ r.doc = d => db'[Paid(d)] = Given[d].is.own
             /\ db'[Paid(d)] # db[Paid(d)] =>
                  \/ Toggled(c) /\ TextOf(r).pays = d /\ AmountOf(r, v) # 0
                  \/ Commits(c) /\ r.op = "resume" /\ r.doc = d
<1> DEFINE r == request[c]
           v == seen[c]
           t == TextOf(r)
           e == Effects(c, r, v)
<1>1. d \in DocIds /\ Paid(d) \in Rows /\ Paid(d) # Status(r.doc) /\ d # None
  BY RowsAre, NamesAssumption DEF DocIds, Paid, Status
<1>2. Commits(c) => /\ r \in Requests /\ Legal(r) /\ c \in open /\ mode[c] = "run"
                    /\ pc[c] = Upto(c) /\ Upto(c) \in Nat
  BY CommitPlace, RequestsAssumption
<1>3. ASSUME Toggled(c), t.pays = d, AmountOf(r, v) # 0
      PROVE  db'[Paid(d)] = db[Paid(d)] + Signed(AmountOf(r, v), Undoes(r))
  <2>1. r.op \in PostingOps /\ Posts(r, v) /\ Commits(c) /\ Legal(r) /\ r.op # "resume"
    BY <1>1, <1>2, <1>3, PaysGiven DEF Toggled
  <2>2. EffectsLaid(e, c, r, v)
    BY <2>1, EffectsAre
  <2>3. /\ Len(e) = AllotFrom(r, v) + 3 /\ e[AllotFrom(r, v) + 1] = Read(Paid(d))
        /\ e[AllotFrom(r, v) + 2] = Put(Paid(d), PaidThen(r, v))
    BY <1>1, <1>3, <2>2 DEF EffectsLaid, AllotLaid, AllotLen
  <2>4. AllotFrom(r, v) \in Nat
    BY Lengths
  <2>5. PICK i : i = AllotFrom(r, v) + 1
    OBVIOUS
  <2>6. PICK j : j = AllotFrom(r, v) + 2
    OBVIOUS
  <2> HIDE DEF e
  <2>7. i \in 1 .. Len(e) /\ j \in 1 .. Len(e) /\ e[i] = Read(Paid(d))
        /\ e[j] = Put(Paid(d), PaidThen(r, v))
    BY <2>3, <2>4, <2>5, <2>6
  <2>8. /\ Base(r) + i \in 1 .. Len(Code(c)) /\ Code(c)[Base(r) + i] = Read(Paid(d))
        /\ Base(r) + i < Upto(c) /\ Base(r) \in Nat
    BY <2>1, <2>7, EffectCommits DEF e
  <2>9. /\ Base(r) + j \in 1 .. Len(Code(c)) /\ Code(c)[Base(r) + j] = Put(Paid(d), PaidThen(r, v))
        /\ From(c) < Base(r) + j /\ Base(r) + j < Upto(c)
    BY <2>1, <2>7, EffectCommits DEF e
  <2>10. Paid(d) \in DOMAIN v
    <3>1. Code(c)[Base(r) + i].op \in Reads /\ Code(c)[Base(r) + i].row = Paid(d)
      BY <2>8 DEF Read, Reads
    <3>2. Base(r) + i \in Nat \ {0} /\ Base(r) + i < pc[c]
      <4>1. Base(r) + i \in Nat \ {0}
        BY <2>4, <2>5, <2>8
      <4> QED
        BY <1>2, <2>1, <2>8, <4>1
    <3> QED
      BY <1>2, <2>1, <3>1, <3>2 DEF ReadSoFar
  <2>11. Fresh(c)
    BY <1>2, <2>1 DEF Fresh
  <2>12. Seen(v, Paid(d)) = db[Paid(d)]
    BY <2>10, <2>11 DEF PaidKnown, KnowsPaid, Seen
  <2>13. Code(c)[Base(r) + j].op \in Writes /\ Code(c)[Base(r) + j].row = Paid(d)
    BY <2>9 DEF Put, Writes
  <2>14. PICK k : Puts(c, k, Paid(d))
    BY <2>1, <2>9, <2>13, CommitPuts
  <2>15. PaidWrite(c, d, db'[Paid(d)])
    BY <2>14, PaidPuts
  <2>16. db'[Paid(d)] = PaidThen(r, v)
    BY <2>1, <2>15 DEF PaidWrite
  <2> QED
    BY <1>3, <2>12, <2>16 DEF PaidThen
<1>4. ASSUME Commits(c), r.op = "resume", r.doc = d
      PROVE  db'[Paid(d)] = Given[d].is.own
  <2>1. r.op \in PostingOps /\ Legal(r) /\ t = Given[d].is
    BY <1>2, <1>4 DEF PostingOps, TextOf, Makers
  <2>2. OpLaid(Code(c), e, c, r, v) /\ Len(e) \in Nat
    BY <2>1, PostingHandler DEF HandlerLaid, Code
  <2>3. Len(Code(c)) = Len(e) + 7 /\ Code(c)[6] = Put(Paid(d), t.own)
    BY <1>4, <2>2 DEF OpLaid
  <2>4. Upto(c) = Len(Code(c)) /\ From(c) = 3
    BY <1>4 DEF Upto, CommitAt, Code, From, BeginAt, Makers, LoanOps
  <2>5. 6 \in 1 .. Len(Code(c)) /\ From(c) < 6 /\ 6 < Upto(c)
    BY <2>2, <2>3, <2>4
  <2>6. Code(c)[6].op \in Writes /\ Code(c)[6].row = Paid(d)
    BY <2>3 DEF Put, Writes
  <2>7. PICK k : Puts(c, k, Paid(d))
    BY <1>4, <2>5, <2>6, CommitPuts
  <2>8. PaidWrite(c, d, db'[Paid(d)])
    BY <2>7, PaidPuts
  <2>9. t.pays = None
    BY <1>4, <2>1, PaysGiven
  <2> QED
    BY <1>1, <2>1, <2>8, <2>9 DEF PaidWrite
<1>5. ASSUME db'[Paid(d)] # db[Paid(d)]
      PROVE  \/ Toggled(c) /\ t.pays = d /\ AmountOf(r, v) # 0
             \/ Commits(c) /\ r.op = "resume" /\ r.doc = d
  <2>1. PICK k : Puts(c, k, Paid(d))
    BY <1>1, <1>5, RowChanges
  <2>2. PaidWrite(c, d, db'[Paid(d)])
    BY <2>1, PaidPuts
  <2> QED
    BY <2>2 DEF PaidWrite, Toggled
<1> QED
  BY <1>3, <1>4, <1>5

(* What is read of documents in force stays as it is. *)
LEMMA DocumentKept ==
  ASSUME Kept, SeenOpen, Papers, NEW c \in Clients, AStep(c), NEW e \in DocIds, InForce(e)
  PROVE  /\ Is(e)' = Is(e) /\ db'[Allocated(e)] = db[Allocated(e)]
         /\ e \in Clients => MakesDoc(e) /\ MakesDoc(e)'
<1>1. Papers'
  BY PapersStep
<1>2. CASE e \in GivenDocs
  <2>1. e \notin Clients
    BY <1>2, NamesAssumption
  <2>2. db[Allocated(e)] = Given[e].allocated /\ db'[Allocated(e)] = Given[e].allocated
    BY <1>1, <1>2 DEF Papers, Allocated
  <2> QED
    BY <1>2, <2>1, <2>2 DEF Is
<1>3. CASE e \in Clients
  <2>1. Committed(e) /\ e \notin GivenDocs
    BY <1>3, InForceIs, NamesAssumption
  <2>2. Committed(e)' /\ request'[e] = request[e] /\ seen'[e] = seen[e]
    <3>1. CASE e = c
      BY <2>1, <3>1, CommittedStep
    <3>2. CASE e # c
      BY <1>3, <2>1, <3>2, CommittedStep, AloneSteps DEF Alone, Same
    <3> QED
      BY <3>1, <3>2
  <2>3. Is(e) = Made(request[e]) /\ Is(e)' = Made(request'[e])
    BY <2>1 DEF Is
  <2>4. MakesDoc(e) /\ MakesDoc(e)'
    BY <2>1, <2>2 DEF Committed, MakesDoc
  <2>5. db[Allocated(e)] = AmountOf(request[e], seen[e])
    BY <1>3, <2>1 DEF Papers
  <2>6. db'[Allocated(e)] = AmountOf(request'[e], seen'[e])
    BY <1>1, <1>3, <2>2 DEF Papers, Allocated
  <2> QED
    BY <2>2, <2>3, <2>4, <2>5, <2>6
<1> QED
  BY <1>2, <1>3 DEF DocIds

(* A document that comes into force, or out of it, says what was posted.   *)
LEMMA ToggledText ==
  ASSUME Kept, Numbers, SeenOpen, Papers, NEW c \in Clients, AStep(c), Meant(c), Toggled(c),
         NEW e, e = DocOf(c, request[c])
  PROVE  LET r == request[c]
         IN  /\ e \in DocIds /\ Is(e)' = TextOf(r)
             /\ r.op \notin Makers => Is(e) = TextOf(r)
             /\ r.op = "delete" => db[Allocated(e)] = AmountOf(r, seen[c])
             /\ r.op # "delete" /\ TextOf(r).pays # None =>
                  db'[Allocated(e)] = AmountOf(r, seen[c])
<1> DEFINE r == request[c]
           v == seen[c]
<1>1. /\ r \in Requests /\ Legal(r) /\ r.op \in PostingOps /\ Posts(r, v) /\ c \in open
      /\ request'[c] = r /\ seen'[c] = v /\ Commits(c)
  BY CommitPlace, RequestsAssumption DEF Toggled
<1>2. Papers'
  BY PapersStep
<1>3. CASE r.op \in Makers
  <2>1. e = c /\ TextOf(r) = Made(r) /\ r.op # "delete" /\ c \notin GivenDocs
    BY <1>3, NamesAssumption DEF DocOf, TextOf, Makers
  <2>2. Committed(c)'
    BY <1>1, <1>3, CommittedStep
  <2>3. Is(c)' = Made(request'[c])
    BY <2>1 DEF Is
  <2>4. db'[Allocated(c)] = AmountOf(request'[c], seen'[c])
    BY <1>2, <2>2 DEF Papers, Allocated
  <2> QED
    BY <1>1, <1>3, <2>1, <2>3, <2>4 DEF DocIds
<1>4. CASE r.op \notin Makers
  <2>1. e = r.doc /\ TextOf(r) = Given[e].is /\ e \in GivenDocs
    BY <1>1, <1>4 DEF DocOf, TextOf, Legal, PostingOps, Makers
  <2>2. Is(e) = Given[e].is /\ Is(e)' = Given[e].is
    BY <2>1 DEF Is
  <2>3. db[Allocated(e)] = Given[e].allocated /\ db'[Allocated(e)] = Given[e].allocated
    BY <1>2, <2>1 DEF Papers, Allocated
  <2>4. r.op \in {"delete", "restore"} => AmountOf(r, v) = Given[e].allocated
    BY <1>1, <2>1, AmountBounded
  <2>5. TextOf(r).pays # None => r.op # "resume"
    BY <1>1, PaysGiven
  <2>6. TextOf(r).pays # None => r.op \in {"delete", "restore"}
    BY <1>1, <1>4, <2>5 DEF PostingOps, Makers
  <2> QED
    BY <1>4, <2>1, <2>2, <2>3, <2>4, <2>6 DEF DocIds
<1> QED
  BY <1>3, <1>4

Share(e, d) == IF InForce(e) /\ Is(e).pays = d THEN db[Allocated(e)] ELSE 0

Shares(d) == SumFunctionOnSet([e \in DocIds |-> Share(e, d)], DocIds)

ShareGain(c, e, d) ==
  LET r == request[c]
  IN  IF Toggled(c) /\ e = DocOf(c, r) /\ TextOf(r).pays = d
      THEN Signed(AmountOf(r, seen[c]), Undoes(r)) ELSE 0

LEMMA ShareStep ==
  ASSUME Kept, Numbers, SeenOpen, Papers, Pairs, Intent, NEW c \in Clients, AStep(c), ~Collided',
         NEW e \in DocIds, NEW d \in GivenDocs
  PROVE  /\ Share(e, d) \in Int /\ Share(e, d)' \in Int
         /\ Share(e, d)' = Share(e, d) + ShareGain(c, e, d)
<1> DEFINE r == request[c]
           v == seen[c]
<1>1. Meant(c) /\ Billed /\ Numbers' /\ Papers' /\ Kept'
  BY CollidedStep, NumbersStep, PapersStep, KeptStep DEF Intent
<1>2. db[Allocated(e)] \in Int /\ db'[Allocated(e)] \in Int
  <2>1. Allocated(e) \in Rows /\ Allocated(e)[1] \in Number
    BY RowsAre DEF Allocated, Number
  <2>2. DOMAIN db = Rows /\ DOMAIN db' = Rows
    BY <1>1 DEF Kept, Shapes
  <2> QED
    BY <1>1, <2>1, <2>2 DEF Numbers, Numeric
<1>3. Share(e, d) = (IF InForce(e) /\ Is(e).pays = d THEN db[Allocated(e)] ELSE 0)
      /\ Share(e, d)' = (IF InForce(e)' /\ Is(e)'.pays = d THEN db'[Allocated(e)] ELSE 0)
  BY DEF Share, Allocated
<1>4. CASE ~(Toggled(c) /\ e = DocOf(c, r))
  <2>1. InForce(e)' <=> InForce(e)
    BY <1>4, ForceStep
  <2>2. ShareGain(c, e, d) = 0
    BY <1>4 DEF ShareGain
  <2>3. InForce(e) => Is(e)' = Is(e) /\ db'[Allocated(e)] = db[Allocated(e)]
    BY DocumentKept
  <2>4. Share(e, d)' = Share(e, d)
    BY <1>3, <2>1, <2>3
  <2> QED
    BY <1>2, <1>3, <2>2, <2>4
<1>5. CASE Toggled(c) /\ e = DocOf(c, r)
  <2>1. /\ InForce(e) <=> r.op = "delete"
        /\ InForce(e)' <=> r.op # "delete"
    BY <1>5, ForceStep
  <2>2. /\ Is(e)' = TextOf(r)
        /\ r.op \notin Makers => Is(e) = TextOf(r)
        /\ r.op = "delete" => db[Allocated(e)] = AmountOf(r, v)
        /\ r.op # "delete" /\ TextOf(r).pays # None => db'[Allocated(e)] = AmountOf(r, v)
    BY <1>1, <1>5, ToggledText
  <2>3. d # None /\ (r.op = "delete" => r.op \notin Makers)
    BY NamesAssumption DEF DocIds, Makers
  <2>4. CASE r.op = "delete"
    <3>1. Share(e, d)' = 0 /\ Share(e, d) = IF TextOf(r).pays = d THEN AmountOf(r, v) ELSE 0
      BY <1>3, <2>1, <2>2, <2>3, <2>4
    <3>2. ShareGain(c, e, d) = IF TextOf(r).pays = d THEN -AmountOf(r, v) ELSE 0
      BY <1>5, <2>4 DEF ShareGain, Signed, Undoes
    <3>3. AmountOf(r, v) \in Int
      BY <1>2, <2>2, <2>4
    <3> QED
      BY <3>1, <3>2, <3>3
  <2>5. CASE r.op # "delete"
    <3>1. Share(e, d) = 0 /\ Share(e, d)' = IF TextOf(r).pays = d THEN AmountOf(r, v) ELSE 0
      BY <1>3, <2>1, <2>2, <2>3, <2>5
    <3>2. ShareGain(c, e, d) = IF TextOf(r).pays = d THEN AmountOf(r, v) ELSE 0
      BY <1>5, <2>5 DEF ShareGain, Signed, Undoes
    <3>3. TextOf(r).pays = d => AmountOf(r, v) \in Int
      BY <1>2, <2>2, <2>3, <2>5
    <3> QED
      BY <3>1, <3>2, <3>3
  <2> QED
    BY <2>4, <2>5
<1> QED
  BY <1>4, <1>5

LEMMA SharesStep ==
  ASSUME Kept, Numbers, SeenOpen, Papers, Pairs, Intent, NEW c \in Clients, AStep(c), ~Collided',
         NEW d \in GivenDocs
  PROVE  LET r == request[c]
         IN  /\ Shares(d) \in Int
             /\ Shares(d)' = Shares(d) + IF Toggled(c) /\ TextOf(r).pays = d
                                         THEN Signed(AmountOf(r, seen[c]), Undoes(r)) ELSE 0
<1> DEFINE r == request[c]
           f == [e \in DocIds |-> Share(e, d)]
           g == [e \in DocIds |-> ShareGain(c, e, d)]
           h == [e \in DocIds |-> Share(e, d)']
           n == IF Toggled(c) /\ TextOf(r).pays = d
                THEN Signed(AmountOf(r, seen[c]), Undoes(r)) ELSE 0
<1>1. Shares(d) = SumFunctionOnSet(f, DocIds) /\ Shares(d)' = SumFunctionOnSet(h, DocIds)
  BY DEF Shares
<1>2. IsFiniteSet(DocIds)
  BY NamesAssumption
<1>3. \A e \in DocIds : f[e] \in Int /\ g[e] \in Int /\ h[e] = f[e] + g[e]
  <2> TAKE e \in DocIds
  <2>1. /\ Share(e, d) \in Int /\ Share(e, d)' \in Int
        /\ Share(e, d)' = Share(e, d) + ShareGain(c, e, d)
    BY ShareStep
  <2>2. ShareGain(c, e, d) \in Int
    <3>1. CASE Toggled(c) /\ e = DocOf(c, r) /\ TextOf(r).pays = d
      <4>1. r \in Requests /\ Legal(r) /\ r.op \in PostingOps
        BY <3>1, CommitPlace, RequestsAssumption DEF Toggled
      <4>2. AmountOf(r, seen[c]) \in Int
        BY <4>1, AmountNumber DEF Numbers
      <4> QED
        BY <3>1, <4>2 DEF ShareGain, Signed
    <3>2. CASE ~(Toggled(c) /\ e = DocOf(c, r) /\ TextOf(r).pays = d)
      BY <3>2 DEF ShareGain
    <3> QED
      BY <3>1, <3>2
  <2> QED
    BY <2>1, <2>2
<1>4. ASSUME Toggled(c)
      PROVE  DocOf(c, r) \in DocIds
  <2>1. PICK e : e = DocOf(c, r)
    OBVIOUS
  <2> QED
    BY <1>4, <2>1, ToggledText, CollidedStep DEF Intent
<1>5. \A e \in DocIds : g[e] = IF Toggled(c) /\ e = DocOf(c, r) THEN n ELSE 0
  BY DEF ShareGain
<1> HIDE DEF f, g, h
<1>6. Shares(d) \in Int /\ Shares(d)' = Shares(d) + SumFunctionOnSet(g, DocIds)
  BY <1>1, <1>2, <1>3, SumPlus, SumInt
<1>7. SumFunctionOnSet(g, DocIds) = n
  <2>1. CASE Toggled(c)
    <3>1. \A e \in DocIds \ {DocOf(c, r)} : g[e] = 0
      BY <1>5, <2>1
    <3>2. g[DocOf(c, r)] = n
      BY <1>4, <1>5, <2>1
    <3> HIDE DEF n
    <3>3. SumFunctionOnSet(g, DocIds) = IF DocOf(c, r) \in DocIds THEN g[DocOf(c, r)] ELSE 0
      BY <1>2, <1>3, <3>1, SumPoint
    <3> QED
      BY <1>4, <2>1, <3>2, <3>3
  <2>2. CASE ~Toggled(c)
    <3>1. \A e \in DocIds : g[e] = 0
      BY <1>5, <2>2
    <3> QED
      BY <1>2, <2>2, <3>1, SumZero
  <2> QED
    BY <2>1, <2>2
<1> QED
  BY <1>6, <1>7

(* What is paid of a bill is its own payment and the shares of the others. *)
Tallied ==
  \A d \in GivenInvoices :
    db[Status(d)] # "HELD" => db[Paid(d)] = Given[d].is.own + Shares(d)

LEMMA HeldShares ==
  ASSUME Papers, HeldUnpaid, NEW d \in GivenDocs, db[Status(d)] = "HELD"
  PROVE  Shares(d) = 0
<1> DEFINE f == [e \in DocIds |-> Share(e, d)]
<1>1. \A e \in DocIds : f[e] = 0
  <2> SUFFICES ASSUME NEW e \in DocIds, InForce(e), Is(e).pays = d PROVE FALSE
    BY DEF Share
  <2>1. d # None
    BY NamesAssumption DEF DocIds
  <2>2. CASE e \in GivenDocs
    <3>1. Given[d].status = "HELD" /\ Given[e].is.pays = d
      BY <2>2 DEF Papers, Is
    <3> QED
      BY <2>2, <3>1, GivenAssumption DEF AtRest
  <2>3. CASE e \in Clients
    <3>1. Committed(e) /\ Is(e) = Made(request[e])
      BY <2>3, InForceIs, NamesAssumption DEF Is
    <3>2. TextOf(request[e]) = Made(request[e])
      BY <3>1 DEF Committed, TextOf
    <3> QED
      BY <2>1, <2>3, <3>1, <3>2 DEF HeldUnpaid
  <2> QED
    BY <2>2, <2>3 DEF DocIds
<1>2. Shares(d) = SumFunctionOnSet(f, DocIds)
  BY DEF Shares
<1> HIDE DEF f
<1> QED
  BY <1>1, <1>2, SumZero, NamesAssumption

LEMMA TalliedStep ==
  ASSUME Kept, Numbers, SeenOpen, Papers, Pairs, Intent, HeldUnpaid, ReadSoFar, PaidKnown, Tallied,
         NEW c \in Clients, AStep(c), ~Collided'
  PROVE  Tallied'
<1> SUFFICES ASSUME NEW d \in GivenInvoices, db'[Status(d)] # "HELD"
             PROVE  db'[Paid(d)] = Given[d].is.own + Shares(d)'
  BY DEF Tallied, Status, Paid, GivenInvoices
<1> DEFINE r == request[c]
           v == seen[c]
           gain == IF Toggled(c) /\ TextOf(r).pays = d
                   THEN Signed(AmountOf(r, v), Undoes(r)) ELSE 0
<1>1. d \in GivenDocs /\ d \in DocIds /\ d # None
  BY NamesAssumption DEF GivenInvoices, DocIds
<1>2. Meant(c) /\ Billed
  BY CollidedStep DEF Intent
<1>3. Shares(d) \in Int /\ Shares(d)' = Shares(d) + gain
  BY <1>1, SharesStep
<1>4. Given[d].is.own \in Nat
  BY <1>1, GivenSound DEF Sound, Content
<1>5. Toggled(c) => AmountOf(r, v) \in Int
  <2>1. ASSUME Toggled(c)
        PROVE  AmountOf(r, v) \in Int
    <3>1. r \in Requests /\ Legal(r) /\ r.op \in PostingOps
      BY <2>1, CommitPlace, RequestsAssumption DEF Toggled
    <3> QED
      BY <3>1, AmountNumber DEF Numbers
  <2> QED
    BY <2>1
<1>6. gain \in Int
  BY <1>5 DEF Signed
<1>7. /\ Toggled(c) /\ TextOf(r).pays = d /\ AmountOf(r, v) # 0 =>
           db'[Paid(d)] = db[Paid(d)] + Signed(AmountOf(r, v), Undoes(r))
      /\ Commits(c) /\ r.op = "resume" /\ r.doc = d => db'[Paid(d)] = Given[d].is.own
      /\ db'[Paid(d)] # db[Paid(d)] =>
           \/ Toggled(c) /\ TextOf(r).pays = d /\ AmountOf(r, v) # 0
           \/ Commits(c) /\ r.op = "resume" /\ r.doc = d
  BY <1>1, <1>2, PaidStep
<1>8. Toggled(c) /\ TextOf(r).pays # None => r.op # "resume"
  <2>1. ASSUME Toggled(c), TextOf(r).pays # None
        PROVE  r.op # "resume"
    <3>1. r \in Requests /\ Legal(r) /\ r.op \in PostingOps
      BY <2>1, CommitPlace, RequestsAssumption DEF Toggled
    <3> QED
      BY <2>1, <3>1, PaysGiven
  <2> QED
    BY <2>1
<1>9. CASE db[Status(d)] = "HELD"
  <2>1. Commits(c) /\ r.op = "resume" /\ r.doc = d
    BY <1>1, <1>2, <1>9, HeldEnds
  <2>2. db'[Paid(d)] = Given[d].is.own
    BY <1>7, <2>1
  <2>3. Shares(d) = 0
    BY <1>1, <1>9, HeldShares
  <2>4. gain = 0
    BY <1>1, <1>8, <2>1
  <2> HIDE DEF gain
  <2> QED
    BY <1>3, <1>4, <2>2, <2>3, <2>4
<1>10. CASE db[Status(d)] # "HELD"
  <2>1. db[Paid(d)] = Given[d].is.own + Shares(d)
    BY <1>10 DEF Tallied
  <2>2. ~(Commits(c) /\ r.op = "resume" /\ r.doc = d)
    BY <1>10, ResumeThen
  <2>3. CASE Toggled(c) /\ TextOf(r).pays = d /\ AmountOf(r, v) # 0
    <3>1. db'[Paid(d)] = db[Paid(d)] + gain
      BY <1>7, <2>3
    <3> HIDE DEF gain
    <3> QED
      BY <1>3, <1>4, <1>6, <2>1, <3>1
  <2>4. CASE ~(Toggled(c) /\ TextOf(r).pays = d /\ AmountOf(r, v) # 0)
    <3>1. db'[Paid(d)] = db[Paid(d)]
      BY <1>7, <2>2, <2>4
    <3>2. gain = 0
      BY <2>4 DEF Signed
    <3> HIDE DEF gain
    <3> QED
      BY <1>3, <1>4, <2>1, <3>1, <3>2
  <2> QED
    BY <2>3, <2>4
<1> QED
  BY <1>9, <1>10

LEMMA TalliedInit == Init => Tallied
<1> SUFFICES ASSUME Init, NEW d \in GivenInvoices, db[Status(d)] # "HELD"
             PROVE  db[Paid(d)] = Given[d].is.own + Shares(d)
  BY DEF Tallied
<1> DEFINE S == {e \in GivenDocs : Rests(e) /\ Given[e].is.pays = d}
           f == [e \in S |-> Given[e].allocated]
           g == [e \in DocIds |-> Share(e, d)]
<1>1. /\ d \in GivenDocs /\ d \in DocIds /\ Given[d].is.type = "SALE_INVOICE"
      /\ IsFiniteSet(DocIds) /\ S \subseteq DocIds
  BY NamesAssumption DEF GivenInvoices, DocIds
<1>2. \A e \in DocIds : Status(e) \in Rows /\ Deleted(e) \in Rows /\ Allocated(e) \in Rows
                        /\ Paid(e) \in Rows
  BY RowsAre
<1>3. /\ db[Status(d)] = Given[d].status /\ db[Paid(d)] = Given[d].paid
  BY <1>1, <1>2 DEF Init, Status, Paid
<1>4. Given[d].paid = Given[d].is.own + Allotted(d)
  BY <1>1, <1>3, GivenAssumption DEF AtRest
<1>5. Allotted(d) = SumFunctionOnSet(f, S)
  BY DEF Allotted, Sum
<1>6. Shares(d) = SumFunctionOnSet(g, DocIds)
  BY DEF Shares
<1>7. \A e \in GivenDocs : /\ InForce(e) <=> Rests(e)
                           /\ db[Allocated(e)] = Given[e].allocated /\ Given[e].allocated \in Int
                           /\ Is(e) = Given[e].is
  <2> TAKE e \in GivenDocs
  <2>1. /\ db[Status(e)] = Given[e].status /\ db[Deleted(e)] = Given[e].deleted
        /\ db[Allocated(e)] = Given[e].allocated
    <3>1. Status(e) \in Rows /\ Deleted(e) \in Rows /\ Allocated(e) \in Rows
      BY <1>2 DEF DocIds
    <3>2. db[Status(e)] = Given[e].status
      BY <3>1 DEF Init, Status
    <3>3. db[Deleted(e)] = (e \in GivenDocs /\ Given[e].deleted)
      BY <3>1 DEF Init, Deleted
    <3>4. db[Allocated(e)] = Given[e].allocated
      BY <3>1 DEF Init, Allocated
    <3>5. Given[e].deleted \in BOOLEAN
      BY GivenAssumption DEF AtRest
    <3> QED
      BY <3>2, <3>3, <3>4, <3>5
  <2>2. Given[e].status # "NONE" /\ Given[e].deleted \in BOOLEAN
    <3>1. AtRest(e)
      BY GivenAssumption
    <3> QED
      BY <3>1 DEF AtRest, StatusesOf
  <2>3. Given[e].allocated \in Int
    <3>1. Given[e].allocated \in 0 .. Given[e].is.total /\ Given[e].is.total \in Nat
      BY GivenAssumption, GivenSound DEF AtRest, Sound, Content
    <3> QED
      BY <3>1
  <2> QED
    BY <2>1, <2>2, <2>3 DEF InForce, There, Rests, Is
<1>8. \A e \in DocIds \ GivenDocs : ~InForce(e)
  BY <1>2 DEF Init, InForce, There, Status
<1>9. \A e \in S : f[e] = g[e]
  BY <1>7, <1>1 DEF Share
<1>10. \A e \in DocIds \ S : g[e] = 0
  BY <1>7, <1>8 DEF Share
<1>11. \A e \in DocIds : g[e] \in Int
  BY <1>7, <1>8 DEF Share
<1> HIDE DEF f, g, S
<1>12. SumFunctionOnSet(f, S) = SumFunctionOnSet(g, DocIds)
  BY <1>1, <1>9, <1>10, <1>11, SumExtend
<1> QED
  BY <1>3, <1>4, <1>5, <1>6, <1>12

(***************************************************************************)
(* What is paid of a bill.                                                 *)
(***************************************************************************)

Payments == Intent /\ HeldUnpaid /\ ReadSoFar /\ (Collided \/ (PaidKnown /\ Tallied))

LEMMA PaymentsStep ==
  ASSUME Sane, Payments, NEW c \in Clients, AStep(c)
  PROVE  Payments'
<1>1. Kept /\ SeenOpen /\ Papers /\ Pairs /\ Numbers /\ Intent /\ Billed /\ HeldUnpaid /\ ReadSoFar
  BY DEF Sane, Payments, Intent
<1>2. Intent' /\ HeldUnpaid' /\ ReadSoFar'
  BY <1>1, IntentStep, HeldUnpaidStep, ReadSoFarStep
<1>3. ASSUME ~Collided'
      PROVE  PaidKnown' /\ Tallied'
  <2>1. ~Collided
    BY <1>1, <1>3, CollidedStep
  <2>2. PaidKnown /\ Tallied /\ Meant(c)
    BY <2>1 DEF Payments, Intent
  <2>3. Tallied'
    BY <1>1, <1>3, <2>2, TalliedStep
  <2>4. PaidKnown'
    <3> SUFFICES ASSUME NEW e \in Clients, NEW d \in GivenDocs, Fresh(e)', Paid(d) \in DOMAIN seen'[e]
                 PROVE  KnowsPaid(e, d)'
      BY DEF PaidKnown, Paid
    <3>1. CASE e = c
      BY <1>1, <2>2, <3>1, PaidKnownOwn
    <3>2. CASE e # c
      BY <1>1, <2>2, <3>2, PaidKnownOther
    <3> QED
      BY <3>1, <3>2
  <2> QED
    BY <2>3, <2>4
<1> QED
  BY <1>2, <1>3 DEF Payments

(* applyAllocations reads paidAmount and writes it back: whatever the      *)
(* interleaving, no allocated amount is lost and none is counted twice,    *)
(* because payments of one party meet at the party's row first.            *)
THEOREM RowsPaidIsAllocated == Spec => []PaidIsAllocated
<1>1. Init => Sane /\ Payments
  <2> SUFFICES ASSUME Init PROVE Payments
    BY SaneInit
  <2>1. \A c \in Clients : mode[c] = "idle" /\ seen[c] = NothingWritten
    BY DEF Init
  <2>2. HeldUnpaid /\ ReadSoFar /\ PaidKnown
    BY <2>1 DEF HeldUnpaid, Committed, ReadSoFar, PaidKnown, NothingWritten
  <2> QED
    BY <2>2, IntentInit, TalliedInit DEF Payments
<1>2. Sane /\ Payments /\ [Next]_vars => (Sane /\ Payments)'
  <2> SUFFICES ASSUME Sane, Payments, [Next]_vars PROVE Sane' /\ Payments'
    OBVIOUS
  <2>1. Sane' /\ (UNCHANGED vars \/ \E c \in Clients : AStep(c))
    BY SaneNext
  <2>2. CASE UNCHANGED vars
    <3>1. Intent'
      BY <2>2, IntentSame DEF Payments
    <3>2. HeldUnpaid'
      BY <2>2 DEF Payments, HeldUnpaid, Committed, CommitAt, Upto, vars
    <3>3. ReadSoFar'
      BY <2>2 DEF Payments, ReadSoFar, Code, vars
    <3>4. PaidKnown => PaidKnown'
      BY <2>2 DEF PaidKnown, KnowsPaid, Fresh, Upto, vars
    <3>5. Tallied => Tallied'
      BY <2>2 DEF Tallied, Shares, Share, InForce, There, Is, vars
    <3>6. Collided => Collided'
      BY <2>2 DEF Collided, vars
    <3>7. Collided \/ (PaidKnown /\ Tallied)
      BY DEF Payments
    <3>8. (Collided \/ (PaidKnown /\ Tallied))'
      BY <3>4, <3>5, <3>6, <3>7
    <3> QED
      BY <2>1, <3>1, <3>2, <3>3, <3>8 DEF Payments
  <2>3. ASSUME NEW c \in Clients, AStep(c)
        PROVE  Payments'
    BY <2>3, PaymentsStep
  <2> QED
    BY <2>1, <2>2, <2>3
<1>3. Sane /\ Payments => PaidIsAllocated
  <2> SUFFICES ASSUME Sane, Payments, ~Collided, NEW d \in GivenInvoices, db[Status(d)] # "HELD"
               PROVE  db[Paid(d)] = Given[d].is.own
                        + Sum(LAMBDA e : db[Allocated(e)],
                              {e \in {x \in GivenPayments \cup NewDocs : InForce(x)} : Is(e).pays = d})
    BY DEF PaidIsAllocated
  <2> DEFINE S == {e \in {x \in GivenPayments \cup NewDocs : InForce(x)} : Is(e).pays = d}
             f == [e \in S |-> db[Allocated(e)]]
             g == [e \in DocIds |-> Share(e, d)]
  <2>1. db[Paid(d)] = Given[d].is.own + Shares(d)
    BY DEF Payments, Tallied
  <2>2. /\ Sum(LAMBDA e : db[Allocated(e)], S) = SumFunctionOnSet(f, S)
        /\ Shares(d) = SumFunctionOnSet(g, DocIds)
    BY DEF Sum, Shares
  <2>3. IsFiniteSet(DocIds) /\ S \subseteq DocIds /\ d # None
    BY NamesAssumption DEF DocIds, GivenPayments, NewDocs, GivenInvoices
  <2>4. \A e \in DocIds : InForce(e) /\ Is(e).pays = d => e \in S
    <3> SUFFICES ASSUME NEW e \in DocIds, InForce(e), Is(e).pays = d
                 PROVE  e \in GivenPayments \cup NewDocs
      OBVIOUS
    <3>1. CASE e \in GivenDocs
      BY <2>3, <3>1 DEF Is, GivenPayments
    <3>2. CASE e \in Clients
      <4>1. Committed(e)
        BY <3>2, InForceIs, NamesAssumption DEF Sane
      <4> QED
        BY <3>2, <4>1 DEF Committed, NewDocs, MakesDoc
    <3> QED
      BY <3>1, <3>2 DEF DocIds
  <2>5. \A e \in S : f[e] = g[e]
    BY <2>3 DEF Share
  <2>6. \A e \in DocIds \ S : g[e] = 0
    BY <2>4 DEF Share
  <2>7. \A e \in DocIds : g[e] \in Int
    <3> TAKE e \in DocIds
    <3>1. Allocated(e) \in Rows /\ Allocated(e)[1] \in Number
      BY RowsAre DEF Allocated, Number
    <3>2. db[Allocated(e)] \in Int
      BY <3>1 DEF Sane, Kept, Shapes, Numbers, Numeric
    <3> QED
      BY <3>2 DEF Share
  <2> HIDE DEF f, g, S
  <2>8. SumFunctionOnSet(f, S) = SumFunctionOnSet(g, DocIds)
    BY <2>3, <2>5, <2>6, <2>7, SumExtend
  <2> QED
    BY <2>1, <2>2, <2>8 DEF S
<1> QED
  BY <1>1, <1>2, <1>3, PTL DEF Spec

(***************************************************************************)
(* The books: what documents that came into force or out of it add up to.  *)
(* F says what one of them counts for, W what a request does that is done. *)
(***************************************************************************)

Turned(e, F) ==
  IF InForce(e) <=> e \in GivenInForce THEN 0 ELSE Signed(F[Is(e)], ~InForce(e))

Turning(F) == SumFunctionOnSet([e \in DocIds |-> Turned(e, F)], DocIds)

TurnGain(c, e, F) ==
  IF Toggled(c) /\ e = DocOf(c, request[c])
  THEN Signed(F[TextOf(request[c])], Undoes(request[c])) ELSE 0

LEMMA ContentOf ==
  ASSUME Kept, Papers, NEW e \in DocIds, e \in GivenDocs \/ InForce(e)
  PROVE  Is(e) \in Content
<1>1. CASE e \in GivenDocs
  BY <1>1, GivenSound DEF Is, Sound
<1>2. CASE e \in Clients /\ InForce(e)
  <2>1. Committed(e) /\ Is(e) = TextOf(request[e])
    BY <1>2, InForceIs
  <2>2. request[e] \in Requests /\ request[e].op \in PostingOps
    BY <1>2, <2>1 DEF Committed, Kept, Shapes, Shape, PostingOps, Makers
  <2>3. Sound(TextOf(request[e]))
    BY <2>2, RequestsAssumption, TextSound
  <2> QED
    BY <2>1, <2>3 DEF Sound
<1> QED
  BY <1>1, <1>2 DEF DocIds

LEMMA ToggledContent ==
  ASSUME Kept, NEW c \in Clients, Toggled(c)
  PROVE  /\ request[c] \in Requests /\ Legal(request[c]) /\ TextOf(request[c]) \in Content
         /\ DocOf(c, request[c]) \in DocIds
<1>1. request[c] \in Requests /\ Legal(request[c]) /\ request[c].op \in PostingOps
  BY CommitPlace, RequestsAssumption DEF Toggled
<1>2. TextOf(request[c]) \in Content
  BY <1>1, TextSound DEF Sound
<1>3. DocOf(c, request[c]) \in DocIds
  BY <1>1 DEF DocOf, DocIds, Legal, PostingOps, Makers
<1> QED
  BY <1>1, <1>2, <1>3

LEMMA TurnStep ==
  ASSUME Kept, Numbers, SeenOpen, Papers, Pairs, Intent, NEW c \in Clients, AStep(c), ~Collided',
         NEW e \in DocIds, NEW F \in [Content -> Int]
  PROVE  /\ Turned(e, F) \in Int /\ Turned(e, F)' \in Int /\ TurnGain(c, e, F) \in Int
         /\ Turned(e, F)' = Turned(e, F) + TurnGain(c, e, F)
<1> DEFINE r == request[c]
<1>1. Meant(c) /\ Billed /\ Papers' /\ Kept'
  BY CollidedStep, PapersStep, KeptStep DEF Intent
<1>2. Turned(e, F) \in Int
  <2>1. e \in GivenDocs \/ InForce(e) => F[Is(e)] \in Int
    BY ContentOf
  <2>2. e \in GivenInForce => e \in GivenDocs
    BY DEF GivenInForce
  <2> QED
    BY <2>1, <2>2 DEF Turned, Signed
<1>3. Turned(e, F)' = IF InForce(e)' <=> e \in GivenInForce THEN 0
                      ELSE Signed(F[Is(e)'], ~InForce(e)')
  BY DEF Turned
<1>4. CASE ~(Toggled(c) /\ e = DocOf(c, r))
  <2>1. InForce(e)' <=> InForce(e)
    BY <1>4, ForceStep
  <2>2. TurnGain(c, e, F) = 0
    BY <1>4 DEF TurnGain
  <2>3. InForce(e) \/ e \in GivenDocs => Is(e)' = Is(e)
    <3>1. InForce(e) => Is(e)' = Is(e)
      BY DocumentKept
    <3>2. e \in GivenDocs => Is(e)' = Is(e)
      BY DEF Is
    <3> QED
      BY <3>1, <3>2
  <2>4. e \in GivenInForce => e \in GivenDocs
    BY DEF GivenInForce
  <2>5. Turned(e, F)' = Turned(e, F)
    BY <1>3, <2>1, <2>3, <2>4 DEF Turned
  <2> QED
    BY <1>2, <2>2, <2>5
<1>5. CASE Toggled(c) /\ e = DocOf(c, r)
  <2>1. /\ InForce(e) <=> r.op = "delete"
        /\ InForce(e)' <=> r.op # "delete"
    BY <1>5, ForceStep
  <2>2. Is(e)' = TextOf(r) /\ (r.op \notin Makers => Is(e) = TextOf(r))
    BY <1>1, <1>5, ToggledText
  <2>3. F[TextOf(r)] \in Int
    BY <1>5, ToggledContent
  <2>4. TurnGain(c, e, F) = Signed(F[TextOf(r)], r.op = "delete")
    BY <1>5 DEF TurnGain, Undoes
  <2>5. r.op \in Makers => e \notin GivenInForce /\ r.op # "delete"
    BY <1>5, NamesAssumption DEF DocOf, GivenInForce, Makers
  <2> HIDE DEF r
  <2>6. CASE r.op = "delete"
    <3>1. /\ Turned(e, F) = IF e \in GivenInForce THEN 0 ELSE F[TextOf(r)]
          /\ Turned(e, F)' = IF e \in GivenInForce THEN -F[TextOf(r)] ELSE 0
      BY <1>3, <2>1, <2>2, <2>5, <2>6 DEF Turned, Signed
    <3> QED
      BY <2>3, <2>4, <2>6, <3>1 DEF Signed
  <2>7. CASE r.op # "delete"
    <3>1. /\ Turned(e, F) = IF e \in GivenInForce THEN -F[TextOf(r)] ELSE 0
          /\ Turned(e, F)' = IF e \in GivenInForce THEN 0 ELSE F[TextOf(r)]
      BY <1>3, <2>1, <2>2, <2>5, <2>7 DEF Turned, Signed
    <3> QED
      BY <2>3, <2>4, <2>7, <3>1 DEF Signed
  <2> QED
    BY <2>6, <2>7
<1> QED
  BY <1>4, <1>5

LEMMA TurningStep ==
  ASSUME Kept, Numbers, SeenOpen, Papers, Pairs, Intent, NEW c \in Clients, AStep(c), ~Collided',
         NEW F \in [Content -> Int]
  PROVE  /\ Turning(F) \in Int
         /\ Turning(F)' = Turning(F) + IF Toggled(c)
                                       THEN Signed(F[TextOf(request[c])], Undoes(request[c])) ELSE 0
         /\ Toggled(c) => F[TextOf(request[c])] \in Int
<1> DEFINE r == request[c]
           y == DocOf(c, r)
           f == [e \in DocIds |-> Turned(e, F)]
           g == [e \in DocIds |-> TurnGain(c, e, F)]
           h == [e \in DocIds |-> Turned(e, F)']
           n == IF Toggled(c) THEN Signed(F[TextOf(r)], Undoes(r)) ELSE 0
<1>1. Turning(F) = SumFunctionOnSet(f, DocIds) /\ Turning(F)' = SumFunctionOnSet(h, DocIds)
  BY DEF Turning
<1>2. IsFiniteSet(DocIds)
  BY NamesAssumption
<1>3. \A e \in DocIds : f[e] \in Int /\ g[e] \in Int /\ h[e] = f[e] + g[e]
  BY TurnStep
<1>4. Toggled(c) => y \in DocIds /\ F[TextOf(r)] \in Int
  BY ToggledContent
<1>5. \A e \in DocIds : g[e] = IF Toggled(c) /\ e = y THEN n ELSE 0
  BY DEF TurnGain
<1> HIDE DEF f, g, h, y
<1>6. Turning(F) \in Int /\ Turning(F)' = Turning(F) + SumFunctionOnSet(g, DocIds)
  BY <1>1, <1>2, <1>3, SumPlus, SumInt
<1>7. SumFunctionOnSet(g, DocIds) = n
  <2>1. CASE Toggled(c)
    <3>1. \A e \in DocIds \ {y} : g[e] = 0
      BY <1>5, <2>1
    <3>2. g[y] = n
      BY <1>4, <1>5, <2>1
    <3> HIDE DEF n
    <3>3. SumFunctionOnSet(g, DocIds) = IF y \in DocIds THEN g[y] ELSE 0
      BY <1>2, <1>3, <3>1, SumPoint
    <3> QED
      BY <1>4, <2>1, <3>2, <3>3
  <2>2. CASE ~Toggled(c)
    <3>1. \A e \in DocIds : g[e] = 0
      BY <1>5, <2>2
    <3> QED
      BY <1>2, <2>2, <3>1, SumZero
  <2> QED
    BY <2>1, <2>2
<1> QED
  BY <1>4, <1>6, <1>7

Worked(e, W) == IF mode[e] = "done" THEN W[request[e]] ELSE 0

Working(W) == SumFunctionOnSet([e \in Clients |-> Worked(e, W)], Clients)

Ends(c) == mode[c] # "done" /\ mode'[c] = "done"

LEMMA WorkStep ==
  ASSUME Kept, NEW c \in Clients, AStep(c), NEW W \in [Requests -> Int], NEW e \in Clients
  PROVE  /\ Worked(e, W) \in Int
         /\ Ends(c) => W[request[c]] \in Int
         /\ Worked(e, W)' = Worked(e, W) + IF Ends(c) /\ e = c THEN W[request[c]] ELSE 0
<1>1. Worked(e, W)' = IF mode'[e] = "done" THEN W[request'[e]] ELSE 0
  BY DEF Worked
<1>2. Worked(e, W) \in Int
  BY DEF Worked, Kept, Shapes, Shape
<1>3. CASE e # c
  <2>1. Same(e)
    BY <1>3, AloneSteps DEF Alone
  <2>2. Worked(e, W)' = Worked(e, W)
    BY <1>1, <2>1 DEF Same, Worked
  <2>3. Ends(c) => W[request[c]] \in Int
    BY DEF Ends, AStep, Starts, Begins, ReadsIt, WritesInside, WritesAlone, Commits, Goes, EndsOrNot,
           Releases, Refuses, Loses, Crashes, Fails, Stops, Kept, Shapes, Shape
  <2> QED
    BY <1>2, <1>3, <2>2, <2>3
<1>4. CASE e = c
  <2>1. mode[c] \in {"idle", "run", "undo"} /\ (mode'[c] = "done" => mode[c] # "idle")
    BY DEF AStep, Starts, Begins, ReadsIt, WritesInside, WritesAlone, Commits, Goes, EndsOrNot,
           Releases, Refuses, Loses, Crashes, Fails, Stops, Active
  <2>2. mode'[c] = "done" => request'[c] = request[c] /\ request[c] \in Requests
    BY <2>1, RequestKept DEF Kept, Shapes, Shape
  <2>3. Worked(e, W) = 0
    BY <1>4, <2>1 DEF Worked
  <2> QED
    BY <1>1, <1>4, <2>1, <2>2, <2>3 DEF Ends
<1> QED
  BY <1>3, <1>4

LEMMA WorkingStep ==
  ASSUME Kept, NEW c \in Clients, AStep(c), NEW W \in [Requests -> Int]
  PROVE  /\ Working(W) \in Int
         /\ Ends(c) => W[request[c]] \in Int
         /\ Working(W)' = Working(W) + IF Ends(c) THEN W[request[c]] ELSE 0
<1> DEFINE n == IF Ends(c) THEN W[request[c]] ELSE 0
           f == [e \in Clients |-> Worked(e, W)]
           g == [e \in Clients |-> IF e = c THEN n ELSE 0]
           h == [e \in Clients |-> Worked(e, W)']
<1>1. Working(W) = SumFunctionOnSet(f, Clients) /\ Working(W)' = SumFunctionOnSet(h, Clients)
  BY DEF Working
<1>2. IsFiniteSet(Clients)
  BY NamesAssumption, FS_Subset DEF DocIds
<1>3. n \in Int
  BY WorkStep
<1>4. \A e \in Clients : Worked(e, W) \in Int /\ Worked(e, W)' = Worked(e, W) + IF e = c THEN n ELSE 0
  BY WorkStep
<1> HIDE DEF n
<1>5. \A e \in Clients : f[e] \in Int /\ g[e] \in Int /\ h[e] = f[e] + g[e]
  BY <1>3, <1>4
<1>6. g[c] = n /\ \A e \in Clients \ {c} : g[e] = 0
  OBVIOUS
<1> HIDE DEF f, g, h
<1>7. /\ SumFunctionOnSet(h, Clients) = SumFunctionOnSet(f, Clients) + SumFunctionOnSet(g, Clients)
      /\ SumFunctionOnSet(f, Clients) \in Int
  BY <1>2, <1>5, SumPlus, SumInt
<1>8. SumFunctionOnSet(g, Clients) = n
  BY <1>2, <1>3, <1>6, SumPoint
<1>9. Ends(c) => W[request[c]] \in Int
  BY WorkStep
<1> QED
  BY <1>1, <1>7, <1>8, <1>9 DEF n

(* Everything but a document ends with its last statement, and at once. *)
LEMMA EndsAt ==
  ASSUME Kept, NEW c \in Clients, AStep(c)
  PROVE  /\ Ends(c) => mode[c] # "idle" /\ request'[c] = request[c] /\ request[c] \in Requests
         /\ mode[c] # "idle" /\ request[c].op \in OtherOps =>
              (Ends(c) <=> IF request[c].op = "count" THEN WritesAlone(c) /\ pc[c] = 2
                           ELSE Commits(c))
<1> DEFINE r == request[c]
           q == Code(c)
<1>1. mode[c] \in {"run", "undo", "idle"} /\ (Ends(c) => mode[c] # "idle")
  BY DEF Ends, AStep, Starts, Begins, ReadsIt, WritesInside, WritesAlone, Commits, Goes, EndsOrNot,
         Releases, Refuses, Loses, Crashes, Fails, Stops, Active
<1>2. mode[c] # "idle" => request'[c] = request[c] /\ request[c] \in Requests
  BY RequestKept DEF Kept, Shapes, Shape
<1>3. ASSUME mode[c] # "idle", r.op \in OtherOps
      PROVE  Ends(c) <=> IF r.op = "count" THEN WritesAlone(c) /\ pc[c] = 2 ELSE Commits(c)
  <2>1. mode[c] = "run" /\ r \in Requests /\ pc[c] \in 1 .. Len(q)
    BY <1>1, <1>2, <1>3 DEF Kept, Shapes, Shape, OtherOps
  <2>2. OtherCode(q, c, r, seen[c])
    BY <1>3, OtherCodes DEF Code
  <2>3. /\ Len(q) \in {2, 3, 4, 5, 7} /\ (r.op = "count" <=> Len(q) = 2)
        /\ r.op # "count" => q[Len(q)] = Commit
    <3>1. /\ r.op \in {"deposit", "reopen"} => Len(q) = 5 /\ q[5] = Commit
          /\ r.op = "adjust" => Len(q) = 5 /\ q[5] = Commit
          /\ r.op = "count" => Len(q) = 2
          /\ r.op = "move" => Len(q) = 7 /\ q[7] = Commit
          /\ r.op = "transfer" => Len(q) = 4 /\ q[4] = Commit
          /\ r.op = "borrow" => Len(q) = 4 /\ q[4] = Commit
          /\ r.op = "loan" => Len(q) = 4 /\ q[4] = Commit
          /\ r.op \in {"openLoan", "loanEntry"} => Len(q) = 3 /\ q[3] = Commit
      BY <2>2 DEF OtherCode
    <3> HIDE DEF q, r
    <3>2. \/ r.op = "count" /\ Len(q) = 2
          \/ r.op # "count" /\ Len(q) = 5 /\ q[5] = Commit
          \/ r.op # "count" /\ Len(q) = 7 /\ q[7] = Commit
          \/ r.op # "count" /\ Len(q) = 4 /\ q[4] = Commit
          \/ r.op # "count" /\ Len(q) = 3 /\ q[3] = Commit
      BY <1>3, <3>1 DEF OtherOps
    <3> QED
      BY <3>2
  <2>4. r.op = "count" => \A k \in 1 .. 2 : q[k].op = "add"
    BY <2>2 DEF OtherCode, Add
  <2>5. Upto(c) = IF r.op = "count" THEN 0 ELSE Len(q)
    BY <1>3 DEF Upto, CommitAt, Code, OtherOps
  <2>6. Commit.op = "commit"
    BY DEF Commit
  <2>7. ASSUME Ends(c)
        PROVE  (WritesAlone(c) \/ Commits(c)) /\ pc[c] = Len(q)
    BY <1>3, <2>1, <2>7 DEF Ends, AStep, Starts, Begins, ReadsIt, WritesInside, WritesAlone, Commits,
       Goes, EndsOrNot, Releases, Refuses, Loses, Crashes, Fails
  <2>8. Commits(c) => r.op # "count" /\ pc[c] = Upto(c)
    BY CommitPlace
  <2>9. WritesAlone(c) => Now(c).op \in Writes
    BY DEF WritesAlone, MayWrite
  <2>10. Now(c) = q[pc[c]]
    BY DEF Now
  <2> HIDE DEF r, q
  <2>11. Ends(c) => IF r.op = "count" THEN WritesAlone(c) /\ pc[c] = 2 ELSE Commits(c)
    BY <2>3, <2>6, <2>7, <2>8, <2>9, <2>10 DEF Writes
  <2>12. ASSUME r.op = "count", WritesAlone(c), pc[c] = 2
         PROVE  Ends(c)
    BY <2>1, <2>3, <2>12 DEF Ends, WritesAlone, EndsOrNot, q
  <2>13. ASSUME r.op # "count", Commits(c)
         PROVE  Ends(c)
    BY <2>1, <2>5, <2>8, <2>13 DEF Ends, Commits, EndsOrNot, q
  <2> QED
    BY <2>11, <2>12, <2>13
<1> QED
  BY <1>1, <1>2, <1>3

(* What a step adds to the account of a party. *)
PartyGain(c, p) ==
  LET r == request[c]
  IN  IF Toggled(c) /\ TextOf(r).party = p THEN Signed(OnParty(TextOf(r)), Undoes(r)) ELSE 0

LEMMA PartyPosted ==
  ASSUME NEW c, NEW r, NEW v, Posts(r, v), OnParty(TextOf(r)) # 0
  PROVE  /\ StockLen(r) + 1 \in 1 .. Len(Effects(c, r, v))
         /\ Effects(c, r, v)[StockLen(r) + 1]
              = Add(Party(TextOf(r).party), Signed(OnParty(TextOf(r)), Undoes(r)))
<1>1. EffectsLaid(Effects(c, r, v), c, r, v)
  BY EffectsAre
<1>2. /\ Len(Effects(c, r, v)) = AllotFrom(r, v) + AllotLen(r, v)
      /\ Effects(c, r, v)[StockLen(r) + 1]
           = Add(Party(TextOf(r).party), Signed(OnParty(TextOf(r)), Undoes(r)))
  BY <1>1 DEF EffectsLaid
<1>3. /\ StockLen(r) \in Nat /\ MoneyLen(r, v) \in Nat /\ AllotLen(r, v) \in Nat /\ PartyLen(r) = 1
  BY Lengths DEF PartyLen
<1> QED
  BY <1>2, <1>3 DEF AllotFrom, MoneyFrom

LEMMA PartyStep ==
  ASSUME Kept, Numbers, NEW c \in Clients, AStep(c), NEW p \in Parties
  PROVE  db'[Party(p)] = db[Party(p)] + PartyGain(c, p)
<1> DEFINE r == request[c]
           v == seen[c]
           t == TextOf(r)
           n == Signed(OnParty(t), Undoes(r))
<1>1. Party(p) \in Rows /\ DOMAIN db = Rows /\ Party(p)[1] = "party" /\ Party(p)[2] = p
  BY RowsAre DEF Kept, Shapes, Party
<1>2. db[Party(p)] \in Int
  BY <1>1 DEF Numbers, Numeric, Number
<1>3. CASE Toggled(c) /\ t.party = p /\ OnParty(t) # 0
  <2> DEFINE j == StockLen(r) + 1
             k == Base(r) + j
  <2>0. Commits(c) /\ r.op \in PostingOps /\ Posts(r, v)
    BY <1>3 DEF Toggled
  <2>1. j \in 1 .. Len(Effects(c, r, v)) /\ Effects(c, r, v)[j] = Add(Party(p), n)
    BY <1>3, <2>0, PartyPosted
  <2>2. /\ k \in 1 .. Len(Code(c)) /\ Code(c)[k] = Add(Party(p), n)
        /\ From(c) < k /\ k < Upto(c) /\ Base(r) \in Nat
    BY <2>0, <2>1, EffectCommits
  <2>3. Code(c)[k].op = "add" /\ Code(c)[k].row = Party(p) /\ Code(c)[k].n = n
    BY <2>2 DEF Add
  <2>4. ASSUME NEW i, Written(c, i), i # k
        PROVE  Code(c)[i].row # Party(p)
    <3>1. WroteKinds(Code(c)[i], i, c, r, v) /\ i \in 1 .. Len(Code(c))
      BY <2>0, <2>4, WrittenKinds
    <3>2. r.op \notin OtherOps
      BY <2>0 DEF PostingOps, OtherOps
    <3>3. Len(Code(c)) \in Nat
      BY <2>0, NowPlaced DEF Kept, Commits, Goes
    <3> HIDE DEF r, v, t
    <3>4. CASE EffectKinds(Code(c)[i], i - Base(r), c, r, v)
      <4>1. Code(c)[i].row[1] = "party" => i - Base(r) = j
        BY <3>4 DEF EffectKinds
      <4> QED
        BY <1>1, <2>2, <2>4, <3>1, <3>3, <4>1
    <3>5. CASE FrameKinds(Code(c)[i], i, c, r)
      BY <1>1, <3>5 DEF FrameKinds
    <3> QED
      BY <3>1, <3>2, <3>4, <3>5 DEF WroteKinds
  <2> HIDE DEF k, n
  <2>5. db'[Party(p)] = db[Party(p)] + n
    BY <2>0, <2>2, <2>3, <2>4, AddedOnce
  <2> QED
    BY <1>3, <2>5 DEF PartyGain, n
<1>4. CASE ~(Toggled(c) /\ t.party = p /\ OnParty(t) # 0)
  <2>1. PartyGain(c, p) = 0
    BY <1>4 DEF PartyGain, Signed
  <2>2. SUFFICES ASSUME db'[Party(p)] # db[Party(p)]
                 PROVE  FALSE
    BY <1>2, <2>1
  <2>3. PICK k : Puts(c, k, Party(p))
    <3>1. Party(p) # Status(r.doc)
      BY <1>1 DEF Status
    <3> QED
      BY <1>1, <2>2, <3>1, RowChanges
  <2>4. PutKinds(Code(c)[k], k, c, r, v) /\ Code(c)[k].row = Party(p)
    BY <1>1, <2>3, PutsKinds
  <2>5. CASE r.op \in PostingOps /\ Commits(c) /\ Posts(r, v)
             /\ EffectKinds(Code(c)[k], k - Base(r), c, r, v)
    <3>1. OnParty(t) # 0 /\ Code(c)[k] = Add(Party(t.party), n)
      BY <1>1, <2>4, <2>5 DEF EffectKinds
    <3>2. t.party = p
      BY <1>1, <2>4, <3>1 DEF Add, Party
    <3> QED
      BY <1>4, <2>5, <3>1, <3>2 DEF Toggled
  <2>6. CASE FrameKinds(Code(c)[k], k, c, r)
    BY <1>1, <2>4, <2>6 DEF FrameKinds
  <2>7. CASE OtherKinds(Code(c)[k], k, c, r, v)
    BY <1>1, <2>4, <2>7 DEF OtherKinds
  <2> HIDE DEF r, v, t
  <2> QED
    BY <2>4, <2>5, <2>6, <2>7 DEF PutKinds
<1> QED
  BY <1>3, <1>4

(* What the books say, and what it takes that every step keeps it.         *)
Counted == [r \in Requests |-> IF r.op \in {"adjust", "count"} THEN r.qty ELSE 0]
Loaned == [r \in Requests |-> IF r.op \in LoanOps THEN r.qty ELSE 0]
Moves(s) ==
  [r \in Requests |->
     IF r.op = "transfer"
     THEN (IF r.to = s THEN r.qty ELSE 0) - (IF r.shop = s THEN r.qty ELSE 0)
     ELSE IF r.op \in {"borrow", "loan"} /\ r.shop = s THEN r.qty ELSE 0]

ByStock == [t \in Content |-> OnStock(t)]
ByParty(p) == [t \in Content |-> IF t.party = p THEN OnParty(t) ELSE 0]
ByMoney(s) == [t \in Content |-> IF t.shop = s /\ ~t.cheque THEN OnMoney(t) ELSE 0]

(* What a cheque has brought into the account of its shop since the start. *)
CashAt(d, s) ==
  LET t == Given[d].is
  IN  IF t.cheque /\ t.shop = s
      THEN (IF db[Cheque(d)] = "CLOSED" THEN OnMoney(t) ELSE 0)
           - (IF Given[d].cheque = "CLOSED" THEN OnMoney(t) ELSE 0)
      ELSE 0

Cashing(s) == SumFunctionOnSet([d \in GivenDocs |-> CashAt(d, s)], GivenDocs)

Stocked == db[Stock] = Stock0 + Working(Counted) + Turning(ByStock)
Owed == \A p \in Parties : db[Party(p)] = Turning(ByParty(p))
Funded == \A s \in Shops : db[Money(s)] = Turning(ByMoney(s)) + Cashing(s) + Working(Moves(s))

Lenders == Clients \cup {None}
Lent == SumFunctionOnSet([l \in Lenders |-> db[Loan(l)]], Lenders) = Working(Loaned)

(* A loan is there once its request is done. *)
Lends == {"borrow", "openLoan"}
Unlent == \A c \in Clients : mode[c] # "done" \/ request[c].op \notin Lends => db[Loan(c)] = 0

(* A transfer of an account to itself leaves what was there. *)
Circular ==
  \A c \in Clients :
    mode[c] = "run" /\ request[c].op = "transfer" /\ request[c].to = request[c].shop /\ pc[c] = 4
    => buf[c][Money(request[c].shop)] = db[Money(request[c].shop)]

(* A document out of force has no cheque. *)
NoCheque ==
  \A d \in GivenCheques : Given[d].is.own # 0 /\ ~InForce(d) => db[Cheque(d)] = "NONE"

Blank == \A c \in Clients : mode[c] = "idle" => seen[c] = NothingWritten

(* Who deletes a document knows what became of its cheque. *)
ChequeKnown ==
  \A c \in Clients :
    mode[c] = "run" /\ request[c].op = "delete" /\ Cheque(request[c].doc) \in DOMAIN seen[c]
    => seen[c][Cheque(request[c].doc)] = db[Cheque(request[c].doc)]

LoanGain(c, l) ==
  LET r == request[c]
  IN  IF /\ Commits(c)
         /\ (r.op \in Lends /\ l = c) \/ (r.op \in LoanOps \ Lends /\ l = None)
      THEN r.qty ELSE 0

LEMMA LoanStep ==
  ASSUME Kept, Numbers, Unlent, NEW c \in Clients, AStep(c), NEW l \in Lenders
  PROVE  db'[Loan(l)] = db[Loan(l)] + LoanGain(c, l) /\ db[Loan(l)] \in Int /\ LoanGain(c, l) \in Int
<1> DEFINE r == request[c]
           v == seen[c]
           q == Code(c)
<1>1. Loan(l) \in Rows /\ DOMAIN db = Rows /\ Loan(l)[1] = "loan" /\ None \notin Clients
  BY NamesAssumption DEF Kept, Shapes, Loan, Rows, Lenders, DocIds
<1>2. db[Loan(l)] \in Int
  BY <1>1 DEF Numbers, Numeric, Number
<1>3. Commits(c) => mode[c] = "run" /\ r \in Requests /\ r.qty \in Int
  BY CommitPlace, RequestsAssumption DEF Legal
<1>4. LoanGain(c, l) \in Int
  BY <1>3 DEF LoanGain
<1>5. ASSUME Commits(c), r.op \in LoanOps
      PROVE  \E k \in 1 .. Len(q) :
               /\ From(c) < k /\ k < Upto(c)
               /\ r.op \in Lends => q[k] = Put(Loan(c), r.qty)
               /\ r.op \notin Lends => q[k] = Add(Loan(None), r.qty)
               /\ \A i : Written(c, i) /\ i # k => q[i].row # Loan(l)
  <2> DEFINE k == IF r.op = "loan" THEN 3 ELSE 2
             z == IF r.op \in {"borrow", "loan"} THEN 4 ELSE 3
  <2>1. OtherCode(q, c, r, v)
    BY <1>5, OtherCodes DEF OtherOps, Code, LoanOps
  <2>2. /\ Len(q) = z
        /\ r.op \in Lends => q[k] = Put(Loan(c), r.qty)
        /\ r.op \notin Lends => q[k] = Add(Loan(None), r.qty)
        /\ r.op = "borrow" => q[3] = Add(Money(r.shop), r.qty)
        /\ r.op = "loan" => q[2] = Add(Money(r.shop), r.qty)
    BY <1>5, <2>1 DEF OtherCode, Lends, LoanOps
  <2>3. From(c) = 1 /\ Upto(c) = z
    BY <1>5, <2>2 DEF From, BeginAt, Makers, Upto, CommitAt, Code, LoanOps
  <2>4. pc[c] = z
    BY <1>5, <2>3, CommitPlace
  <2>5. \A i : Written(c, i) => i \in 2 .. (z - 1)
    BY <2>3, <2>4 DEF Written
  <2>6. \A x : Add(Money(r.shop), x).row # Loan(l)
    BY DEF Money, Loan, Add
  <2>7. \A i : Written(c, i) /\ i # k => q[i].row # Loan(l)
    BY <1>5, <2>2, <2>5, <2>6 DEF LoanOps
  <2>8. k \in 1 .. Len(q) /\ From(c) < k /\ k < Upto(c)
    BY <2>2, <2>3
  <2> HIDE DEF k
  <2> QED
    BY <2>2, <2>7, <2>8
<1>6. CASE Commits(c) /\ r.op \in Lends /\ l = c
  <2>0. r.op \in LoanOps
    BY <1>6 DEF Lends, LoanOps
  <2>1. PICK k \in 1 .. Len(q) : /\ From(c) < k /\ k < Upto(c) /\ q[k] = Put(Loan(c), r.qty)
                                  /\ \A i : Written(c, i) /\ i # k => q[i].row # Loan(l)
    BY <1>5, <1>6, <2>0
  <2>2. q[k].op = "put" /\ q[k].row = Loan(l) /\ q[k].v = r.qty
    BY <1>6, <2>1 DEF Put
  <2>3. db'[Loan(l)] = r.qty
    BY <1>6, <2>1, <2>2, PutOnce
  <2>4. db[Loan(l)] = 0
    BY <1>3, <1>6 DEF Unlent
  <2> QED
    BY <1>2, <1>3, <1>4, <1>6, <2>3, <2>4 DEF LoanGain
<1>7. CASE Commits(c) /\ r.op \in LoanOps \ Lends /\ l = None
  <2>1. PICK k \in 1 .. Len(q) : /\ From(c) < k /\ k < Upto(c) /\ q[k] = Add(Loan(None), r.qty)
                                  /\ \A i : Written(c, i) /\ i # k => q[i].row # Loan(l)
    BY <1>5, <1>7
  <2>2. q[k].op = "add" /\ q[k].row = Loan(l) /\ q[k].n = r.qty
    BY <1>7, <2>1 DEF Add
  <2>3. db'[Loan(l)] = db[Loan(l)] + r.qty
    BY <1>7, <2>1, <2>2, AddedOnce
  <2> QED
    BY <1>2, <1>4, <1>7, <2>3 DEF LoanGain
<1>8. CASE ~(/\ Commits(c)
             /\ (r.op \in Lends /\ l = c) \/ (r.op \in LoanOps \ Lends /\ l = None))
  <2>1. LoanGain(c, l) = 0
    BY <1>8 DEF LoanGain
  <2>2. SUFFICES ASSUME db'[Loan(l)] # db[Loan(l)]
                 PROVE  FALSE
    BY <1>2, <2>1
  <2>3. PICK k : Puts(c, k, Loan(l))
    <3>1. Loan(l) # Status(r.doc)
      BY <1>1 DEF Status
    <3> QED
      BY <1>1, <2>2, <3>1, RowChanges
  <2>4. PutKinds(q[k], k, c, r, v) /\ q[k].row = Loan(l)
    BY <2>3, PutsKinds
  <2>5. CASE EffectKinds(q[k], k - Base(r), c, r, v)
    BY <1>1, <2>4, <2>5 DEF EffectKinds
  <2>6. CASE FrameKinds(q[k], k, c, r)
    BY <1>1, <2>4, <2>6 DEF FrameKinds
  <2>7. CASE OtherKinds(q[k], k, c, r, v) /\ r.op = "count"
    BY <1>1, <2>4, <2>7 DEF OtherKinds
  <2>8. CASE OtherKinds(q[k], k, c, r, v) /\ Commits(c)
    <3>1. \/ r.op \in Lends /\ q[k] = Put(Loan(c), r.qty)
          \/ r.op \in LoanOps \ Lends /\ q[k] = Add(Loan(None), r.qty)
      BY <1>1, <2>4, <2>8 DEF OtherKinds, Lends, LoanOps
    <3>2. \/ r.op \in Lends /\ l = c
          \/ r.op \in LoanOps \ Lends /\ l = None
      BY <2>4, <3>1 DEF Put, Add, Loan
    <3> QED
      BY <1>8, <2>8, <3>2
  <2> HIDE DEF r, v, q
  <2> QED
    BY <2>4, <2>5, <2>6, <2>7, <2>8 DEF PutKinds
<1> QED
  BY <1>2, <1>4, <1>6, <1>7, <1>8

LEMMA UnlentStep ==
  ASSUME Kept, Numbers, Unlent, NEW c \in Clients, AStep(c)
  PROVE  Unlent'
<1> SUFFICES ASSUME NEW e \in Clients, mode'[e] # "done" \/ request'[e].op \notin Lends
             PROVE  db'[Loan(e)] = 0
  BY DEF Unlent, Loan
<1>1. e \in Lenders /\ None \notin Clients
  BY NamesAssumption DEF Lenders, DocIds
<1>2. db'[Loan(e)] = db[Loan(e)] + LoanGain(c, e)
  BY <1>1, LoanStep
<1>3. LoanGain(c, e) = 0
  <2> SUFFICES ASSUME Commits(c), request[c].op \in Lends, e = c PROVE FALSE
    BY <1>1 DEF LoanGain
  <2>1. mode[c] = "run"
    BY CommitPlace
  <2>2. Ends(c)
    BY <2>1, EndsAt DEF OtherOps, Lends
  <2> QED
    BY <2>2, EndsAt DEF Ends
<1>4. db[Loan(e)] = 0
  <2>1. CASE e = c
    <3>1. mode[c] # "done"
      BY DEF AStep, Starts, Begins, ReadsIt, WritesInside, WritesAlone, Commits, Goes,
             Releases, Refuses, Loses, Crashes, Fails, Active
    <3> QED
      BY <2>1, <3>1 DEF Unlent
  <2>2. CASE e # c
    BY <2>2, AloneSteps DEF Alone, Same, Unlent
  <2> QED
    BY <2>1, <2>2
<1> QED
  BY <1>2, <1>3, <1>4

LEMMA LoanedInt == Counted \in [Requests -> Int] /\ Loaned \in [Requests -> Int]
                   /\ \A s : Moves(s) \in [Requests -> Int]
<1>1. \A r \in Requests : r.qty \in Int
  BY RequestsAssumption DEF Legal
<1>2. Counted \in [Requests -> Int] /\ Loaned \in [Requests -> Int]
  BY <1>1 DEF Counted, Loaned
<1>3. ASSUME NEW s PROVE Moves(s) \in [Requests -> Int]
  BY <1>1 DEF Moves
<1> QED
  BY <1>2, <1>3

LEMMA LentStep ==
  ASSUME Kept, Numbers, Unlent, Lent, NEW c \in Clients, AStep(c)
  PROVE  Lent'
<1> DEFINE r == request[c]
           f == [l \in Lenders |-> db[Loan(l)]]
           g == [l \in Lenders |-> LoanGain(c, l)]
           h == [l \in Lenders |-> db'[Loan(l)]]
           n == IF Ends(c) THEN Loaned[r] ELSE 0
           y == IF r.op \in Lends THEN c ELSE None
<1>1. IsFiniteSet(Lenders) /\ None \notin Clients /\ y \in Lenders
  <2>1. IsFiniteSet(Clients) /\ None \notin Clients
    BY NamesAssumption, FS_Subset DEF DocIds
  <2> QED
    BY <2>1, FS_AddElement DEF Lenders
<1>2. \A l \in Lenders : f[l] \in Int /\ g[l] \in Int /\ h[l] = f[l] + g[l]
  BY LoanStep
<1>3. Working(Loaned)' = Working(Loaned) + n
  BY LoanedInt, WorkingStep
<1>4. SumFunctionOnSet(f, Lenders) = Working(Loaned)
  BY DEF Lent
<1>5. \A l \in Lenders \ {y} : g[l] = 0
  BY DEF LoanGain
<1>6. g[y] = n
  <2>1. CASE Commits(c) /\ r.op \in LoanOps
    <3>1. mode[c] = "run" /\ r \in Requests
      BY <2>1, CommitPlace
    <3>2. Ends(c)
      BY <2>1, <3>1, EndsAt DEF OtherOps, LoanOps
    <3>3. Loaned[r] = r.qty
      BY <2>1, <3>1 DEF Loaned
    <3>4. LoanGain(c, y) = r.qty
      BY <2>1 DEF LoanGain, Lends, LoanOps
    <3> QED
      BY <1>1, <3>2, <3>3, <3>4
  <2>2. CASE ~(Commits(c) /\ r.op \in LoanOps)
    <3>1. LoanGain(c, y) = 0
      BY <2>2 DEF LoanGain, Lends, LoanOps
    <3>2. Ends(c) => Loaned[r] = 0
      <4> SUFFICES ASSUME Ends(c) PROVE Loaned[r] = 0
        OBVIOUS
      <4>1. mode[c] # "idle" /\ r \in Requests
        BY EndsAt
      <4>2. r.op \notin LoanOps
        BY <2>2, <4>1, EndsAt DEF OtherOps, LoanOps
      <4> QED
        BY <4>1, <4>2 DEF Loaned
    <3> QED
      BY <1>1, <3>1, <3>2
  <2> QED
    BY <2>1, <2>2
<1>7. SumFunctionOnSet(h, Lenders) = SumFunctionOnSet([l \in Lenders |-> db[Loan(l)]], Lenders)'
  BY DEF Lenders, Loan
<1> HIDE DEF f, g, h, n, y
<1>8. SumFunctionOnSet(h, Lenders) = SumFunctionOnSet(f, Lenders) + SumFunctionOnSet(g, Lenders)
  BY <1>1, <1>2, SumPlus
<1>9. SumFunctionOnSet(g, Lenders) = g[y]
  BY <1>1, <1>2, <1>5, SumPoint
<1>10. SumFunctionOnSet(h, Lenders) = Working(Loaned)'
  BY <1>3, <1>4, <1>6, <1>8, <1>9
<1> QED
  BY <1>7, <1>10 DEF Lent

(* Who writes the cheque of a document. *)
ChequeWrite(c, d, y) ==
  LET r == request[c]
      t == TextOf(r)
  IN  /\ Commits(c)
      /\ \/ Toggled(c) /\ t.own # 0 /\ t.cheque /\ d = DocOf(c, r)
            /\ y = (IF Undoes(r) THEN "NONE" ELSE "OPEN")
         \/ r.op = "deposit" /\ d = r.doc /\ y = "CLOSED"
         \/ r.op = "reopen" /\ d = r.doc /\ y = "OPEN"

LEMMA ChequePuts ==
  ASSUME Kept, NEW c \in Clients, NEW d \in GivenDocs, NEW k, Puts(c, k, Cheque(d))
  PROVE  ChequeWrite(c, d, db'[Cheque(d)])
<1> DEFINE r == request[c]
           v == seen[c]
           t == TextOf(r)
           s == Code(c)[k]
<1>1. PutKinds(s, k, c, r, v) /\ s.row = Cheque(d)
  BY PutsKinds
<1>2. s.op # "add" => db'[Cheque(d)] = s.v
  BY DEF Puts
<1>3. s.row[1] = "cheque"
  BY <1>1 DEF Cheque
<1>4. \A x, y : s = Put(Cheque(x), y) => x = d /\ db'[Cheque(d)] = y
  BY <1>1, <1>2 DEF Put, Cheque
<1>5. \A x, y, z : s = Claim(Cheque(x), z, y) => x = d /\ db'[Cheque(d)] = y
  BY <1>1, <1>2 DEF Claim, Cheque
<1> HIDE DEF s, r, v, t
<1>6. CASE /\ r.op \in PostingOps /\ Commits(c) /\ Posts(r, v)
           /\ EffectKinds(s, k - Base(r), c, r, v)
  <2>1. /\ TextOf(r).own # 0 /\ TextOf(r).cheque
        /\ \/ ~Undoes(r) /\ s = Put(Cheque(DocOf(c, r)), "OPEN")
           \/ Undoes(r) /\ s = Put(Cheque(DocOf(c, r)), "NONE")
    BY <1>3, <1>6 DEF EffectKinds
  <2>2. DocOf(c, r) = d /\ db'[Cheque(d)] = IF Undoes(r) THEN "NONE" ELSE "OPEN"
    BY <1>4, <2>1
  <2> QED
    BY <1>6, <2>1, <2>2 DEF ChequeWrite, Toggled, r, v
<1>7. CASE r.op \in PostingOps /\ FrameKinds(s, k, c, r)
  BY <1>3, <1>7 DEF FrameKinds
<1>8. CASE r.op \in OtherOps /\ OtherKinds(s, k, c, r, v) /\ Commits(c)
  <2>1. \/ r.op = "deposit" /\ s = Claim(Cheque(r.doc), "OPEN", "CLOSED")
        \/ r.op = "reopen" /\ s = Claim(Cheque(r.doc), "CLOSED", "OPEN")
    BY <1>3, <1>8 DEF OtherKinds
  <2>2. \/ r.op = "deposit" /\ r.doc = d /\ db'[Cheque(d)] = "CLOSED"
        \/ r.op = "reopen" /\ r.doc = d /\ db'[Cheque(d)] = "OPEN"
    BY <1>5, <2>1
  <2> QED
    BY <1>8, <2>2 DEF ChequeWrite, r
<1>9. CASE r.op = "count" /\ OtherKinds(s, k, c, r, v)
  BY <1>3, <1>9 DEF OtherKinds
<1> QED
  BY <1>1, <1>6, <1>7, <1>8, <1>9 DEF PutKinds

(* What becomes of a cheque: posting one opens it, and taking it back, its *)
(* deposit and its return write it.                                        *)
LEMMA ChequeStep ==
  ASSUME Kept, NEW c \in Clients, AStep(c), NEW d \in GivenDocs
  PROVE  LET r == request[c]
             t == TextOf(r)
         IN  /\ Toggled(c) /\ t.own # 0 /\ t.cheque /\ d = DocOf(c, r) =>
                  db'[Cheque(d)] = IF Undoes(r) THEN "NONE" ELSE "OPEN"
             /\ Commits(c) /\ r.op = "deposit" /\ d = r.doc =>
                  db[Cheque(d)] = "OPEN" /\ db'[Cheque(d)] = "CLOSED"
             /\ Commits(c) /\ r.op = "reopen" /\ d = r.doc =>
                  db[Cheque(d)] = "CLOSED" /\ db'[Cheque(d)] = "OPEN"
             /\ db'[Cheque(d)] # db[Cheque(d)] => ChequeWrite(c, d, db'[Cheque(d)])
<1> DEFINE r == request[c]
           v == seen[c]
           t == TextOf(r)
           q == Code(c)
<1>1. d \in DocIds /\ Cheque(d) \in Rows /\ Cheque(d)[1] = "cheque"
  BY RowsAre DEF DocIds, Cheque
<1>2. ASSUME db'[Cheque(d)] # db[Cheque(d)]
      PROVE  ChequeWrite(c, d, db'[Cheque(d)])
  <2>1. Cheque(d) # Status(r.doc)
    BY DEF Cheque, Status
  <2>2. PICK k : Puts(c, k, Cheque(d))
    BY <1>1, <1>2, <2>1, RowChanges
  <2> QED
    BY <2>2, ChequePuts
<1>3. ASSUME Toggled(c), t.own # 0, t.cheque, d = DocOf(c, r)
      PROVE  db'[Cheque(d)] = IF Undoes(r) THEN "NONE" ELSE "OPEN"
  <2> DEFINE e == Effects(c, r, v)
             y == IF Undoes(r) THEN "NONE" ELSE "OPEN"
             j == MoneyFrom(r) + MoneyLen(r, v)
  <2>1. Commits(c) /\ r.op \in PostingOps /\ Posts(r, v)
    BY <1>3 DEF Toggled
  <2>2. EffectsLaid(e, c, r, v)
    BY <2>1, EffectsAre
  <2>3. Undoes(r) => r.doc = d
    BY <1>3 DEF DocOf, Undoes, Makers
  <2>4. e[j] = Put(Cheque(d), y)
    <3>1. MoneyLaid(e, c, r, v)
      BY <2>2 DEF EffectsLaid
    <3>2. CASE ~Undoes(r)
      <4>1. MoneyLen(r, v) = 1
        BY <1>3, <3>2 DEF MoneyLen
      <4> QED
        BY <1>3, <3>1, <3>2, <4>1 DEF MoneyLaid
    <3>3. CASE Undoes(r) /\ Seen(v, Cheque(d)) = "CLOSED"
      <4>1. MoneyLen(r, v) = 3
        BY <1>3, <2>3, <3>3 DEF MoneyLen
      <4> QED
        BY <1>3, <3>1, <3>3, <4>1 DEF MoneyLaid
    <3>4. CASE Undoes(r) /\ Seen(v, Cheque(d)) # "CLOSED"
      <4>1. MoneyLen(r, v) = 2
        BY <1>3, <2>3, <3>4 DEF MoneyLen
      <4> QED
        BY <1>3, <3>1, <3>4, <4>1 DEF MoneyLaid
    <3> QED
      BY <3>2, <3>3, <3>4
  <2>5. j \in 1 .. Len(e)
    <3>1. Len(e) = j + AllotLen(r, v)
      BY <2>2 DEF EffectsLaid, AllotFrom
    <3>2. MoneyLen(r, v) \in {1, 2, 3}
      BY <1>3 DEF MoneyLen
    <3> QED
      BY <3>1, <3>2, Lengths
  <2>6. /\ Base(r) + j \in 1 .. Len(q) /\ q[Base(r) + j] = Put(Cheque(d), y)
        /\ From(c) < Base(r) + j /\ Base(r) + j < Upto(c)
    BY <2>1, <2>4, <2>5, EffectCommits
  <2>7. q[Base(r) + j].op \in Writes /\ q[Base(r) + j].row = Cheque(d)
    BY <2>6 DEF Put, Writes
  <2>8. PICK k : Puts(c, k, Cheque(d))
    <3> HIDE DEF j
    <3> QED
      BY <2>1, <2>6, <2>7, CommitPuts
  <2>9. ChequeWrite(c, d, db'[Cheque(d)])
    BY <2>8, ChequePuts
  <2>10. r.op \notin {"deposit", "reopen"}
    BY <2>1 DEF PostingOps
  <2> QED
    BY <2>9, <2>10 DEF ChequeWrite
<1>4. ASSUME Commits(c), r.op \in {"deposit", "reopen"}, d = r.doc
      PROVE  /\ r.op = "deposit" => db[Cheque(d)] = "OPEN" /\ db'[Cheque(d)] = "CLOSED"
             /\ r.op = "reopen" => db[Cheque(d)] = "CLOSED" /\ db'[Cheque(d)] = "OPEN"
  <2>1. OtherCode(q, c, r, v)
    BY <1>4, OtherCodes DEF OtherOps, Code
  <2>2. /\ Len(q) = 5
        /\ r.op = "deposit" => q[3] = Claim(Cheque(d), "OPEN", "CLOSED")
        /\ r.op = "reopen" => q[3] = Claim(Cheque(d), "CLOSED", "OPEN")
    BY <1>4, <2>1 DEF OtherCode
  <2>3. From(c) = 2 /\ Upto(c) = 5
    BY <1>4, <2>2 DEF From, BeginAt, Makers, LoanOps, Upto, CommitAt, Code
  <2>4. q[3].op = "claim" /\ q[3].row = Cheque(d) /\ q[3].op \in Writes
    BY <1>4, <2>2 DEF Claim, Writes
  <2>5. Written(c, 3) /\ c \in open
    BY <1>4, <2>3, <2>4, CommitPlace DEF Written
  <2>6. \A j : Written(c, j) /\ j < 3 => q[j].row # q[3].row
    BY <2>3 DEF Written
  <2>7. db[Cheque(d)] = q[3].from
    BY <2>4, <2>5, <2>6 DEF Kept, Buffers, Buffer
  <2>8. 3 \in 1 .. Len(q) /\ From(c) < 3 /\ 3 < Upto(c)
    BY <2>2, <2>3
  <2>9. PICK k : Puts(c, k, Cheque(d))
    BY <1>4, <2>4, <2>8, CommitPuts
  <2>10. ChequeWrite(c, d, db'[Cheque(d)])
    BY <2>9, ChequePuts
  <2>11. ~Toggled(c)
    BY <1>4 DEF Toggled, PostingOps
  <2>12. /\ r.op = "deposit" => q[3].from = "OPEN"
         /\ r.op = "reopen" => q[3].from = "CLOSED"
    BY <2>2 DEF Claim
  <2> QED
    BY <2>7, <2>10, <2>11, <2>12 DEF ChequeWrite
<1> QED
  BY <1>2, <1>3, <1>4

LEMMA NoChequeStep ==
  ASSUME Kept, SeenOpen, Papers, Pairs, Intent, NoCheque, NEW c \in Clients, AStep(c), ~Collided'
  PROVE  NoCheque'
<1> SUFFICES ASSUME NEW d \in GivenCheques, Given[d].is.own # 0, ~InForce(d)'
             PROVE  db'[Cheque(d)] = "NONE"
  BY DEF NoCheque, Cheque, GivenCheques
<1> DEFINE r == request[c]
           t == TextOf(r)
<1>1. d \in GivenDocs /\ d \in DocIds /\ Given[d].is.cheque /\ d \notin Clients
  BY NamesAssumption DEF GivenCheques, DocIds
<1>2. CASE Toggled(c) /\ d = DocOf(c, r)
  <2>1. r.op = "delete"
    BY <1>1, <1>2, ForceStep
  <2>2. t = Given[d].is /\ Undoes(r)
    BY <1>2, <2>1 DEF TextOf, DocOf, Makers, Undoes
  <2> QED
    BY <1>1, <1>2, <2>2, ChequeStep
<1>3. CASE ~(Toggled(c) /\ d = DocOf(c, r))
  <2>1. ~InForce(d)
    BY <1>1, <1>3, ForceStep
  <2>2. db[Cheque(d)] = "NONE"
    BY <2>1 DEF NoCheque
  <2>3. SUFFICES ASSUME db'[Cheque(d)] # db[Cheque(d)]
                 PROVE  FALSE
    BY <2>2
  <2>4. ChequeWrite(c, d, db'[Cheque(d)])
    BY <1>1, <2>3, ChequeStep
  <2>5. Commits(c) /\ r.op \in {"deposit", "reopen"} /\ d = r.doc
    BY <1>3, <2>4 DEF ChequeWrite
  <2>6. db[Cheque(d)] \in {"OPEN", "CLOSED"}
    BY <1>1, <2>5, ChequeStep
  <2> QED
    BY <2>2, <2>6
<1> QED
  BY <1>2, <1>3

(* A cheque is read before the transaction writes it. *)
LEMMA ChequeUnwritten ==
  ASSUME Kept, NEW c \in Clients, ReadsIt(c), request[c].op = "delete",
         Now(c).row = Cheque(request[c].doc)
  PROVE  View(c, Now(c).row) = db[Now(c).row]
<1> DEFINE r == request[c]
           v == seen[c]
           d == r.doc
<1>1. /\ r \in Requests /\ pc[c] \in 1 .. Len(Code(c)) /\ Legal(r) /\ Len(Code(c)) \in Nat
      /\ Now(c).op \in Reads
  BY NowPlaced, RequestsAssumption DEF Kept, ReadsIt, Goes
<1>2. r.op \in PostingOps /\ FrontReads(r) = 4 /\ Base(r) = 5 /\ r.op \notin OtherOps
  BY DEF FrontReads, PostingOps, Base, OtherOps
<1>3. Now(c).row[1] = "cheque" /\ Cheque(d) \in Rows
  BY <1>1, RowsAre DEF Cheque, Legal, DocIds
<1>4. FrontReads(r) < pc[c]
  <2> SUFFICES ASSUME ~(FrontReads(r) < pc[c]) PROVE FALSE
    OBVIOUS
  <2>1. pc[c] \in 1 .. FrontReads(r)
    BY <1>1, <1>2
  <2>2. FrontRead(Now(c), pc[c], r)
    BY <1>2, <2>1, FrontReadsAre DEF Now, Code
  <2>3. \/ Now(c) = Check(Deleted(d), {FALSE}) \/ Now(c) = Check(<<"linked", d>>, {FALSE})
        \/ Now(c) = Read(Status(d)) \/ Now(c) = Read(Allocated(d))
    BY <2>2 DEF FrontRead
  <2>4. \E x, y : \/ Now(c) = Check(Deleted(x), y) \/ Now(c) = Check(<<"linked", x>>, y)
                 \/ Now(c) = Read(Status(x)) \/ Now(c) = Read(Allocated(x))
    BY <2>3, Zenon
  <2> QED
    BY <1>3, <2>4 DEF Check, Read, Status, Deleted, Allocated
<1>5. pc[c] - Base(r) = MoneyFrom(r) + 1
  <2>1. EffectRead(Now(c), pc[c] - Base(r), c, r, v)
    BY <1>2, <1>4, ReadsInside
  <2> QED
    BY <1>3, <2>1 DEF EffectRead
<1>6. Cheque(d) \notin DOMAIN buf[c]
  <2> SUFFICES ASSUME Cheque(d) \in DOMAIN buf[c] PROVE FALSE
    OBVIOUS
  <2>1. PICK k \in 1 .. Len(Code(c)) :
          Written(c, k) /\ Code(c)[k].row = Cheque(d) /\ k < pc[c]
    BY BufferRows
  <2>2. WroteKinds(Code(c)[k], k, c, r, v)
    BY <1>1, <2>1, WritesKinds DEF Code, Written
  <2>3. Code(c)[k].row[1] = "cheque" /\ k \in Int
    BY <2>1 DEF Cheque
  <2>4. CASE EffectKinds(Code(c)[k], k - Base(r), c, r, v)
    <3>1. /\ Undoes(r)
          /\ \/ ~Undoes(r)
             \/ k - Base(r) = IF Seen(v, Cheque(DocOf(c, r))) = "CLOSED" THEN MoneyFrom(r) + 3
                              ELSE MoneyFrom(r) + 2
      BY <2>3, <2>4 DEF EffectKinds, Undoes
    <3>2. MoneyFrom(r) \in Nat
      BY Lengths
    <3> HIDE DEF r
    <3> QED
      BY <1>1, <1>2, <1>5, <2>1, <2>3, <3>1, <3>2
  <2>5. CASE FrameKinds(Code(c)[k], k, c, r)
    BY <2>3, <2>5 DEF FrameKinds
  <2> HIDE DEF r, v
  <2> QED
    BY <1>2, <2>2, <2>4, <2>5 DEF WroteKinds
<1> QED
  BY <1>3, <1>6, ViewOfRow

LEMMA BlankStep ==
  ASSUME Blank, Kept, NEW c \in Clients, AStep(c)
  PROVE  Blank'
<1> SUFFICES ASSUME NEW e \in Clients, mode'[e] = "idle"
             PROVE  seen'[e] = NothingWritten
  BY DEF Blank, NothingWritten
<1>1. e # c
  BY DEF AStep, Starts, Begins, ReadsIt, WritesInside, WritesAlone, Commits, Goes, EndsOrNot,
         Releases, Refuses, Loses, Crashes, Fails, Active
<1> QED
  BY <1>1, AloneSteps DEF Alone, Same, Blank

LEMMA ChequeKnownStep ==
  ASSUME Kept, SeenOpen, Papers, Pairs, Blank, ChequeKnown, NEW c \in Clients, AStep(c), ~Collided'
  PROVE  ChequeKnown'
<1> SUFFICES ASSUME NEW e \in Clients, mode'[e] = "run", request'[e].op = "delete",
                    Cheque(request'[e].doc) \in DOMAIN seen'[e]
             PROVE  seen'[e][Cheque(request'[e].doc)] = db'[Cheque(request'[e].doc)]
  BY DEF ChequeKnown, Cheque
<1> DEFINE d == request'[e].doc
<1>1. ~Collided
  BY CollidedStep
<1>2. CASE Starts(c) /\ e = c
  BY <1>2 DEF Starts, Blank, NothingWritten
<1>3. CASE ~(Starts(c) /\ e = c)
  <2>1. mode[e] = "run" /\ request'[e] = request[e]
    <3>1. CASE e # c
      BY <3>1, AloneSteps DEF Alone, Same
    <3>2. CASE e = c
      BY <1>3, <3>2 DEF AStep, Begins, ReadsIt, WritesInside, WritesAlone, Commits, Goes, EndsOrNot,
         Releases, Refuses, Loses, Crashes, Fails, Stops
    <3> QED
      BY <3>1, <3>2
  <2>2. request[e] \in Requests /\ d \in GivenDocs /\ d \notin Clients
    <3>1. request[e] \in Requests
      BY <2>1 DEF Kept, Shapes, Shape
    <3> QED
      BY <2>1, <3>1, RequestsAssumption, NamesAssumption DEF Legal
  <2>3. db'[Cheque(d)] = db[Cheque(d)]
    <3> SUFFICES ASSUME db'[Cheque(d)] # db[Cheque(d)] PROVE FALSE
      OBVIOUS
    <3>1. ChequeWrite(c, d, db'[Cheque(d)])
      BY <2>2, ChequeStep
    <3>2. Commits(c) /\ mode[c] = "run" /\ pc[c] = Upto(c)
      BY <3>1, CommitPlace DEF ChequeWrite
    <3>3. request[c].op \in Rewrites /\ request[c].doc = d
      <4>1. CASE Toggled(c) /\ d = DocOf(c, request[c])
        <5>1. request[c].op \notin Makers
          BY <2>2, <4>1 DEF DocOf
        <5> QED
          BY <4>1, <5>1 DEF DocOf, Toggled, PostingOps, Makers, Rewrites
      <4>2. CASE request[c].op \in {"deposit", "reopen"} /\ d = request[c].doc
        BY <4>2 DEF Rewrites
      <4> QED
        BY <3>1, <4>1, <4>2 DEF ChequeWrite
    <3>4. CASE e # c
      <4>1. Active(c) /\ Active(e) /\ request[e].op \in Rewrites
        BY <2>1, <3>2 DEF Active, Rewrites
      <4> QED
        BY <1>1, <2>1, <3>3, <3>4, <4>1, Collides
    <3>5. CASE e = c
      <4>1. Upto(c) = Len(Code(c))
        BY <2>1, <3>5 DEF Upto, CommitAt, Code
      <4> QED
        BY <3>2, <3>5, <4>1 DEF Commits, EndsOrNot
    <3> QED
      BY <3>4, <3>5
  <2>4. CASE Cheque(d) \in DOMAIN seen[e] /\ seen'[e][Cheque(d)] = seen[e][Cheque(d)]
    BY <2>1, <2>3, <2>4 DEF ChequeKnown
  <2>5. CASE ~(Cheque(d) \in DOMAIN seen[e] /\ seen'[e][Cheque(d)] = seen[e][Cheque(d)])
    <3>1. e = c
      BY <2>5, AloneSteps DEF Alone, Same
    <3>2. ReadsIt(c)
      BY <1>3, <2>5, <3>1 DEF AStep, Begins, WritesInside, WritesAlone, Commits, Releases, Refuses,
         Loses, Crashes, Fails, Stops
    <3>3. seen'[c] = With(seen[c], Now(c).row, View(c, Now(c).row))
      BY <3>2 DEF ReadsIt
    <3>4. Now(c).row = Cheque(d)
      BY <2>5, <3>1, <3>3 DEF With
    <3>5. View(c, Now(c).row) = db[Now(c).row]
      BY <2>1, <3>1, <3>2, <3>4, ChequeUnwritten
    <3> QED
      BY <2>3, <3>1, <3>3, <3>4, <3>5 DEF With
  <2> QED
    BY <2>4, <2>5
<1> QED
  BY <1>2, <1>3

LEMMA CircularStep ==
  ASSUME Kept, Numbers, Circular, NEW c \in Clients, AStep(c)
  PROVE  Circular'
<1> SUFFICES ASSUME NEW e \in Clients, mode'[e] = "run", request'[e].op = "transfer",
                    request'[e].to = request'[e].shop, pc'[e] = 4
             PROVE  buf'[e][Money(request'[e].shop)] = db'[Money(request'[e].shop)]
  BY DEF Circular, Money
<1> DEFINE r == request'[e]
           row == Money(r.shop)
<1>2. CASE e # c
  <2>1. mode[e] = "run" /\ request[e] = r /\ pc[e] = 4 /\ buf'[e] = buf[e] /\ r \in Requests
    BY <1>2, AloneSteps DEF Alone, Same, Kept, Shapes, Shape
  <2>2. /\ Len(Code(e)) = 4 /\ Code(e)[2] = Add(row, -r.qty)
    <3>1. OtherCode(Code(e), e, request[e], seen[e])
      BY <2>1, OtherCodes DEF OtherOps, Code
    <3> QED
      BY <2>1, <3>1 DEF OtherCode
  <2>3. From(e) = 1 /\ Upto(e) = 4
    BY <2>1, <2>2 DEF From, BeginAt, Makers, LoanOps, Upto, CommitAt, Code
  <2>4. Written(e, 2) /\ e \in open
    BY <2>1, <2>2, <2>3 DEF Written, Add, Writes, Kept, Shapes, Shape
  <2>5. row \in DOMAIN buf[e]
    BY <2>2, <2>4 DEF Kept, Buffers, Buffer, Add
  <2>6. db'[row] = db[row]
    BY <1>2, <2>5, Undisturbed
  <2>7. buf[e][row] = db[row]
    BY <2>1 DEF Circular
  <2> QED
    BY <2>1, <2>6, <2>7
<1>3. CASE e = c
  <2>1. ~Starts(c)
    BY <1>3 DEF Starts, Kept, Shapes, Shape
  <2>2. /\ mode[c] = "run" /\ request[c] = r /\ pc[c] = 3 /\ r \in Requests
    <3>1. mode[c] = "run" /\ request'[c] = request[c] /\ (pc'[c] = pc[c] + 1)
      BY <1>3, <2>1 DEF AStep, Begins, ReadsIt, WritesInside, WritesAlone, Commits, Goes,
         Releases, Refuses, Loses, Crashes, Fails, Stops
    <3> QED
      BY <1>3, <3>1 DEF Kept, Shapes, Shape
  <2>3. /\ Len(Code(c)) = 4 /\ Code(c)[2] = Add(row, -r.qty) /\ Code(c)[3] = Add(row, r.qty)
    <3>1. OtherCode(Code(c), c, request[c], seen[c])
      BY <1>3, <2>2, OtherCodes DEF OtherOps, Code
    <3> QED
      BY <1>3, <2>2, <3>1 DEF OtherCode
  <2>4. From(c) = 1 /\ Upto(c) = 4
    BY <1>3, <2>2, <2>3 DEF From, BeginAt, Makers, LoanOps, Upto, CommitAt, Code
  <2>5. Written(c, 2) /\ c \in open /\ \A j : Written(c, j) => j = 2
    BY <2>2, <2>3, <2>4 DEF Written, Add, Writes, Kept, Shapes, Shape
  <2>6. Code(c)[2].op = "add" /\ Code(c)[2].row = row /\ Code(c)[2].n = -r.qty
    BY <2>3 DEF Add
  <2>7. buf[c][row] = db[row] + (-r.qty) /\ row \in DOMAIN buf[c]
    BY <2>5, <2>6 DEF Kept, Buffers, Buffer
  <2>8. Now(c).op = "add" /\ Now(c).row = row /\ Now(c).n = r.qty
    BY <2>2, <2>3 DEF Now, Add
  <2>9. WritesInside(c)
    BY <1>3, <2>1, <2>2, <2>5, <2>8 DEF AStep, Begins, ReadsIt, WritesAlone, Commits,
       Releases, Refuses, Loses, Crashes, Fails, Reads
  <2>10. /\ db' = db /\ buf'[c] = With(buf[c], row, View(c, row) + r.qty)
    BY <2>8, <2>9 DEF WritesInside, Value
  <2>11. View(c, row) = buf[c][row]
    BY <2>7 DEF View
  <2>12. db[row] \in Int /\ r.qty \in Int
    <3>1. row \in Rows /\ row[1] \in Number
      BY <2>2, RequestsAssumption DEF Legal, Rows, Money, Number
    <3> QED
      BY <2>2, <3>1, RequestsAssumption DEF Legal, Numbers, Numeric, Kept, Shapes
  <2>13. buf'[c][row] = db[row] + (-r.qty) + r.qty
    BY <2>7, <2>10, <2>11 DEF With
  <2> HIDE DEF row, r
  <2> QED
    BY <1>3, <2>10, <2>12, <2>13 DEF row, r
<1> QED
  BY <1>2, <1>3

LEMMA Counts ==
  /\ ByStock \in [Content -> Int]
  /\ \A p : ByParty(p) \in [Content -> Int]
  /\ \A s : ByMoney(s) \in [Content -> Int]
<1>1. \A t \in Content : OnStock(t) \in Int /\ OnParty(t) \in Int /\ OnMoney(t) \in Int
  BY ContentNumbers
<1>2. ByStock \in [Content -> Int]
  BY <1>1 DEF ByStock
<1>3. ASSUME NEW p PROVE ByParty(p) \in [Content -> Int]
  BY <1>1 DEF ByParty
<1>4. ASSUME NEW s PROVE ByMoney(s) \in [Content -> Int]
  BY <1>1 DEF ByMoney
<1> QED
  BY <1>2, <1>3, <1>4

(* A request that posts documents does nothing else, and the others post none. *)
LEMMA EitherPosts ==
  ASSUME Kept, NEW c \in Clients, AStep(c), Ends(c)
  PROVE  /\ mode[c] # "idle" /\ request[c] \in Requests
         /\ request[c].op \in OtherOps => ~Toggled(c)
         /\ request[c].op \notin OtherOps =>
              /\ Counted[request[c]] = 0 /\ Loaned[request[c]] = 0
              /\ \A s : Moves(s)[request[c]] = 0
<1>1. mode[c] # "idle" /\ request[c] \in Requests
  BY EndsAt
<1> QED
  BY <1>1 DEF OtherOps, PostingOps, Toggled, Counted, Loaned, LoanOps, Moves

LEMMA StockedStep ==
  ASSUME Kept, Numbers, SeenOpen, Papers, Pairs, Intent, Stocked, NEW c \in Clients, AStep(c),
         ~Collided'
  PROVE  Stocked'
<1> DEFINE r == request[c]
           m == IF Toggled(c) THEN Signed(ByStock[TextOf(r)], Undoes(r)) ELSE 0
           n == IF Ends(c) THEN Counted[r] ELSE 0
<1>1. db'[Stock] = db[Stock] + StockGain(c)
  BY StockStep
<1>2. Turning(ByStock) \in Int /\ Turning(ByStock)' = Turning(ByStock) + m /\ m \in Int
  <2>1. /\ Turning(ByStock) \in Int /\ Turning(ByStock)' = Turning(ByStock) + m
        /\ Toggled(c) => ByStock[TextOf(r)] \in Int
    BY Counts, TurningStep
  <2> QED
    BY <2>1 DEF Signed
<1>3. Working(Counted) \in Int /\ Working(Counted)' = Working(Counted) + n /\ n \in Int
  BY LoanedInt, WorkingStep
<1>4. StockGain(c) = m + n
  <2>1. CASE Toggled(c)
    <3>1. StockGain(c) = Units(r)
      BY <2>1 DEF StockGain, Toggled
    <3>2. TextOf(r) \in Content
      BY <2>1, ToggledContent
    <3>3. m = Units(r)
      BY <2>1, <3>2 DEF ByStock, Units
    <3>4. n = 0
      <4>1. r.op \notin OtherOps
        BY <2>1 DEF Toggled, PostingOps, OtherOps
      <4> QED
        BY <4>1, EitherPosts
    <3> HIDE DEF m, n
    <3> QED
      BY <1>2, <3>1, <3>3, <3>4
  <2>2. CASE ~Toggled(c) /\ r.op \in {"adjust", "count"}
    <3>1. mode[c] = "idle" => ~Commits(c) /\ ~WritesAlone(c)
      BY DEF Commits, WritesAlone, Goes
    <3>2. Ends(c) <=> (r.op = "adjust" /\ Commits(c)) \/ (r.op = "count" /\ WritesAlone(c) /\ pc[c] = 2)
      BY <2>2, <3>1, EndsAt DEF OtherOps
    <3>3. r.op = "count" => ~Commits(c)
      BY CommitPlace
    <3>4. StockGain(c) = IF Ends(c) THEN r.qty ELSE 0
      BY <2>2, <3>2, <3>3 DEF StockGain, PostingOps
    <3>5. Ends(c) => Counted[r] = r.qty
      BY <2>2, EndsAt DEF Counted
    <3>6. n = StockGain(c) /\ m = 0
      BY <2>2, <3>4, <3>5
    <3> HIDE DEF m, n
    <3> QED
      BY <1>3, <3>6
  <2>3. CASE ~Toggled(c) /\ r.op \notin {"adjust", "count"}
    <3>1. StockGain(c) = 0
      BY <2>3 DEF StockGain, Toggled
    <3>2. Ends(c) => Counted[r] = 0
      BY <2>3, EndsAt DEF Counted
    <3> QED
      BY <2>3, <3>1, <3>2
  <2> QED
    BY <2>1, <2>2, <2>3
<1>5. Stock0 \in Int /\ db[Stock] = Stock0 + Working(Counted) + Turning(ByStock)
  BY StockAssumption DEF Stocked
<1> HIDE DEF m, n
<1>6. db'[Stock] = Stock0 + Working(Counted)' + Turning(ByStock)'
  BY <1>1, <1>2, <1>3, <1>4, <1>5
<1> QED
  BY <1>6 DEF Stocked, Stock

LEMMA OwedStep ==
  ASSUME Kept, Numbers, SeenOpen, Papers, Pairs, Intent, Owed, NEW c \in Clients, AStep(c),
         ~Collided'
  PROVE  Owed'
<1> SUFFICES ASSUME NEW p \in Parties
             PROVE  db'[Party(p)] = Turning(ByParty(p))'
  BY DEF Owed, Party
<1> DEFINE r == request[c]
           F == ByParty(p)
<1>1. db'[Party(p)] = db[Party(p)] + PartyGain(c, p)
  BY PartyStep
<1>2. db[Party(p)] = Turning(F)
  BY DEF Owed
<1>3. /\ Turning(F)' = Turning(F) + IF Toggled(c) THEN Signed(F[TextOf(r)], Undoes(r)) ELSE 0
  BY Counts, TurningStep
<1>4. Toggled(c) => F[TextOf(r)] = IF TextOf(r).party = p THEN OnParty(TextOf(r)) ELSE 0
  BY ToggledContent DEF ByParty
<1>5. PartyGain(c, p) = IF Toggled(c) THEN Signed(F[TextOf(r)], Undoes(r)) ELSE 0
  BY <1>4 DEF PartyGain, Signed
<1> QED
  BY <1>1, <1>2, <1>3, <1>5

(* What a step changes in the cheques that have been deposited. *)
CashGain(c, s) ==
  LET r == request[c]
      t == TextOf(r)
  IN  IF /\ Toggled(c) /\ Undoes(r) /\ t.shop = s /\ t.own # 0 /\ t.cheque
         /\ Seen(seen[c], Cheque(DocOf(c, r))) = "CLOSED"
      THEN -OnMoney(t)
      ELSE IF Commits(c) /\ r.op \in {"deposit", "reopen"} /\ Given[r.doc].is.shop = s
      THEN Signed(OnMoney(Given[r.doc].is), r.op = "reopen")
      ELSE 0

(* At the commit of a delete the cheque is what the delete has read. *)
LEMMA ChequeSeen ==
  ASSUME Kept, ReadSoFar, ChequeKnown, NEW c \in Clients, Toggled(c), Undoes(request[c]),
         TextOf(request[c]).own # 0, TextOf(request[c]).cheque
  PROVE  Seen(seen[c], Cheque(request[c].doc)) = db[Cheque(request[c].doc)]
<1> DEFINE r == request[c]
           v == seen[c]
           d == r.doc
           e == Effects(c, r, v)
           j == MoneyFrom(r) + 1
           k == Base(r) + j
<1>1. Commits(c) /\ r.op \in PostingOps /\ Posts(r, v) /\ r.op = "delete" /\ DocOf(c, r) = d
  BY DEF Toggled, Undoes, DocOf, Makers
<1>2. EffectsLaid(e, c, r, v)
  BY <1>1, EffectsAre
<1>3. e[j] = Read(Cheque(d))
  BY <1>1, <1>2 DEF EffectsLaid, MoneyLaid
<1>4. j \in 1 .. Len(e)
  <2>1. Len(e) = MoneyFrom(r) + MoneyLen(r, v) + AllotLen(r, v)
    BY <1>2 DEF EffectsLaid, AllotFrom
  <2>2. MoneyLen(r, v) \in {1, 2, 3}
    BY DEF MoneyLen
  <2> QED
    BY <2>1, <2>2, Lengths
<1>5. /\ k \in 1 .. Len(Code(c)) /\ Code(c)[k] = Read(Cheque(d)) /\ k < Upto(c) /\ pc[c] = Upto(c)
      /\ Base(r) \in Nat
  BY <1>1, <1>3, <1>4, EffectCommits
<1>6. Code(c)[k].op \in Reads /\ Code(c)[k].row = Cheque(d)
  BY <1>5 DEF Read, Reads
<1>7. k \in Nat \ {0}
  <2>1. j \in Nat \ {0}
    BY Lengths
  <2> QED
    BY <1>5, <2>1
<1>8. mode[c] = "run"
  BY <1>1, CommitPlace
<1>9. Cheque(d) \in DOMAIN v
  <2> HIDE DEF k
  <2> QED
    BY <1>5, <1>6, <1>7, <1>8 DEF ReadSoFar
<1> QED
  BY <1>1, <1>8, <1>9 DEF ChequeKnown, Seen

LEMMA SignedZero ==
  ASSUME NEW x \in Int, NEW b
  PROVE  x = 0 => Signed(x, b) = 0
<1>1. \A z \in Int : -z \in Int /\ z + (-z) = 0
  OBVIOUS
<1> DEFINE y == -x
<1>2. y \in Int /\ x + y = 0
  BY <1>1
<1>3. Signed(x, b) \in {x, y}
  BY DEF Signed
<1> HIDE DEF y
<1> QED
  BY <1>2, <1>3

LEMMA NoMoney ==
  ASSUME NEW t, t.own \in Int, t.own = 0
  PROVE  OnMoney(t) = 0
BY SignedZero DEF OnMoney

LEMMA CashStep ==
  ASSUME Kept, Numbers, SeenOpen, Papers, Pairs, Intent, ReadSoFar, NoCheque, ChequeKnown,
         NEW c \in Clients, AStep(c), ~Collided', NEW d \in GivenDocs, NEW s \in Shops
  PROVE  /\ CashAt(d, s) \in Int
         /\ CashAt(d, s)' = CashAt(d, s) + IF d = request[c].doc THEN CashGain(c, s) ELSE 0
<1> DEFINE r == request[c]
           v == seen[c]
           t == Given[d].is
           A == IF db[Cheque(d)] = "CLOSED" THEN OnMoney(t) ELSE 0
           B == IF db'[Cheque(d)] = "CLOSED" THEN OnMoney(t) ELSE 0
           C == IF Given[d].cheque = "CLOSED" THEN OnMoney(t) ELSE 0
           g == IF d = r.doc THEN CashGain(c, s) ELSE 0
<1>1. Sound(t) /\ OnMoney(t) \in Int /\ d \in DocIds /\ d \notin Clients
  BY GivenSound, TextNumbers, NamesAssumption DEF DocIds
<1>2. A \in Int /\ B \in Int /\ C \in Int
  BY <1>1
<1>3. /\ CashAt(d, s) = IF t.cheque /\ t.shop = s THEN A - C ELSE 0
      /\ CashAt(d, s)' = IF t.cheque /\ t.shop = s THEN B - C ELSE 0
  BY DEF CashAt, Cheque
<1>4. Commits(c) => r \in Requests /\ Legal(r)
  BY CommitPlace, RequestsAssumption
<1>5. Toggled(c) /\ d = DocOf(c, r) => r.doc = d /\ r.op \in {"resume", "delete", "restore"} /\ TextOf(r) = t
  <2> SUFFICES ASSUME Toggled(c), d = DocOf(c, r)
               PROVE  r.doc = d /\ r.op \in {"resume", "delete", "restore"} /\ TextOf(r) = t
    OBVIOUS
  <2>1. r.op \notin Makers
    BY <1>1 DEF DocOf
  <2> QED
    BY <2>1 DEF DocOf, TextOf, Toggled, PostingOps, Makers
<1>6. t.own = 0 => OnMoney(t) = 0
  <2>1. t.own \in Int
    <3> HIDE DEF t
    <3> QED
      BY <1>1 DEF Sound, Content
  <2> HIDE DEF t
  <2> QED
    BY <2>1, NoMoney
<1>7. ASSUME t.cheque, t.shop = s
      PROVE  B = A + g
  <2>1. CASE Toggled(c) /\ d = DocOf(c, r) /\ t.own # 0
    <3>1. r.doc = d /\ TextOf(r) = t /\ r.op \notin {"deposit", "reopen"}
      BY <1>5, <2>1
    <3>2. db'[Cheque(d)] = IF Undoes(r) THEN "NONE" ELSE "OPEN"
      BY <1>7, <2>1, <3>1, ChequeStep
    <3>3. B = 0
      BY <3>2
    <3>4. CASE Undoes(r)
      <4>1. Seen(v, Cheque(d)) = db[Cheque(d)]
        BY <1>7, <2>1, <3>1, <3>4, ChequeSeen
      <4>2. g = IF db[Cheque(d)] = "CLOSED" THEN -OnMoney(t) ELSE 0
        BY <1>7, <2>1, <3>1, <3>4, <4>1 DEF CashGain
      <4> HIDE DEF g
      <4> QED
        BY <1>1, <3>3, <4>2
    <3>5. CASE ~Undoes(r)
      <4>1. ~InForce(d)
        BY <1>1, <2>1, <3>5, ForceStep DEF Undoes
      <4>2. db[Cheque(d)] = "NONE"
        BY <1>7, <2>1, <4>1 DEF NoCheque, GivenCheques
      <4>3. g = 0
        BY <3>1, <3>5 DEF CashGain
      <4> QED
        BY <3>3, <4>2, <4>3
    <3> QED
      BY <3>4, <3>5
  <2>2. CASE Commits(c) /\ r.op = "deposit" /\ d = r.doc
    <3>1. db[Cheque(d)] = "OPEN" /\ db'[Cheque(d)] = "CLOSED"
      BY <2>2, ChequeStep
    <3>2. g = OnMoney(t)
      BY <1>7, <2>2 DEF CashGain, Toggled, PostingOps, Signed
    <3> QED
      BY <1>1, <3>1, <3>2
  <2>3. CASE Commits(c) /\ r.op = "reopen" /\ d = r.doc
    <3>1. db[Cheque(d)] = "CLOSED" /\ db'[Cheque(d)] = "OPEN"
      BY <2>3, ChequeStep
    <3>2. g = -OnMoney(t)
      BY <1>7, <2>3 DEF CashGain, Toggled, PostingOps, Signed
    <3> HIDE DEF g
    <3> QED
      BY <1>1, <3>1, <3>2
  <2>4. CASE /\ ~(Toggled(c) /\ d = DocOf(c, r) /\ t.own # 0)
             /\ ~(Commits(c) /\ r.op \in {"deposit", "reopen"} /\ d = r.doc)
    <3>1. db'[Cheque(d)] = db[Cheque(d)]
      <4> SUFFICES ASSUME db'[Cheque(d)] # db[Cheque(d)] PROVE FALSE
        OBVIOUS
      <4>1. ChequeWrite(c, d, db'[Cheque(d)])
        BY ChequeStep
      <4> QED
        BY <1>5, <2>4, <4>1 DEF ChequeWrite
    <3>2. g = 0
      <4> SUFFICES ASSUME d = r.doc PROVE CashGain(c, s) = 0
        OBVIOUS
      <4>1. ~(Toggled(c) /\ Undoes(r) /\ TextOf(r).own # 0)
        <5> SUFFICES ASSUME Toggled(c), Undoes(r), TextOf(r).own # 0 PROVE FALSE
          OBVIOUS
        <5>1. DocOf(c, r) = d /\ TextOf(r) = t
          BY DEF DocOf, TextOf, Undoes, Makers
        <5> QED
          BY <2>4, <5>1
      <4> QED
        BY <2>4, <4>1 DEF CashGain
    <3> HIDE DEF g
    <3> QED
      BY <1>2, <3>1, <3>2
  <2> QED
    BY <2>1, <2>2, <2>3, <2>4
<1>8. ASSUME ~(t.cheque /\ t.shop = s)
      PROVE  g = 0
  <2> SUFFICES ASSUME d = r.doc PROVE CashGain(c, s) = 0
    OBVIOUS
  <2>1. Commits(c) /\ r.op \in {"deposit", "reopen"} => t.cheque
    BY <1>4 DEF Legal
  <2>2. Undoes(r) => TextOf(r) = t
    BY DEF TextOf, Undoes, Makers
  <2> QED
    BY <1>8, <2>1, <2>2 DEF CashGain
<1> HIDE DEF A, B, C, g, t
<1>9. CashAt(d, s) \in Int
  BY <1>2, <1>3
<1>10. CASE t.cheque /\ t.shop = s
  <2>1. B = A + g
    BY <1>7, <1>10
  <2>2. g \in Int
    <3>1. g = 0 \/ g = CashGain(c, s)
      BY DEF g
    <3>2. Toggled(c) => OnMoney(TextOf(r)) \in Int
      BY ToggledContent, ContentNumbers
    <3>3. Commits(c) /\ r.op \in {"deposit", "reopen"} => OnMoney(Given[r.doc].is) \in Int
      BY <1>4, GivenSound, TextNumbers DEF Legal
    <3>4. CashGain(c, s) \in Int
      BY <3>2, <3>3 DEF CashGain, Signed
    <3> QED
      BY <3>1, <3>4
  <2>3. CashAt(d, s)' = CashAt(d, s) + g
    BY <1>2, <1>3, <1>10, <2>1, <2>2
  <2> QED
    BY <1>9, <2>3 DEF g
<1>11. CASE ~(t.cheque /\ t.shop = s)
  <2>1. CashAt(d, s)' = CashAt(d, s) + g
    BY <1>3, <1>8, <1>11
  <2> QED
    BY <1>9, <2>1 DEF g
<1> QED
  BY <1>10, <1>11

LEMMA CashGainInt ==
  ASSUME Kept, NEW c \in Clients, NEW s \in Shops
  PROVE  /\ CashGain(c, s) \in Int
         /\ CashGain(c, s) # 0 => request[c].doc \in GivenDocs
<1> DEFINE r == request[c]
<1>1. Toggled(c) => OnMoney(TextOf(r)) \in Int /\ Legal(r)
  BY ToggledContent, ContentNumbers
<1>2. Commits(c) => r \in Requests /\ Legal(r)
  BY CommitPlace, RequestsAssumption
<1>3. Commits(c) /\ r.op \in {"deposit", "reopen"} => OnMoney(Given[r.doc].is) \in Int
  BY <1>2, GivenSound, TextNumbers DEF Legal
<1> QED
  BY <1>1, <1>2, <1>3 DEF CashGain, Signed, Undoes, Legal

LEMMA CashingStep ==
  ASSUME Kept, Numbers, SeenOpen, Papers, Pairs, Intent, ReadSoFar, NoCheque, ChequeKnown,
         NEW c \in Clients, AStep(c), ~Collided', NEW s \in Shops
  PROVE  /\ Cashing(s) \in Int /\ CashGain(c, s) \in Int
         /\ Cashing(s)' = Cashing(s) + CashGain(c, s)
<1> DEFINE y == request[c].doc
           n == CashGain(c, s)
           f == [d \in GivenDocs |-> CashAt(d, s)]
           g == [d \in GivenDocs |-> IF d = y THEN n ELSE 0]
           h == [d \in GivenDocs |-> CashAt(d, s)']
<1>1. Cashing(s) = SumFunctionOnSet(f, GivenDocs) /\ Cashing(s)' = SumFunctionOnSet(h, GivenDocs)
  BY DEF Cashing
<1>2. IsFiniteSet(GivenDocs)
  BY NamesAssumption, FS_Subset DEF DocIds
<1>3. n \in Int /\ (n # 0 => y \in GivenDocs)
  BY CashGainInt
<1>4. \A d \in GivenDocs : f[d] \in Int /\ g[d] \in Int /\ h[d] = f[d] + g[d]
  <2>1. \A d \in GivenDocs : /\ CashAt(d, s) \in Int
                             /\ CashAt(d, s)' = CashAt(d, s) + IF d = y THEN n ELSE 0
    BY CashStep
  <2> HIDE DEF n, y
  <2> QED
    BY <1>3, <2>1
<1>5. \A d \in GivenDocs \ {y} : g[d] = 0
  OBVIOUS
<1>6. y \in GivenDocs => g[y] = n
  OBVIOUS
<1> HIDE DEF f, g, h, y, n
<1>7. Cashing(s) \in Int /\ Cashing(s)' = Cashing(s) + SumFunctionOnSet(g, GivenDocs)
  BY <1>1, <1>2, <1>4, SumPlus, SumInt
<1>8. SumFunctionOnSet(g, GivenDocs) = IF y \in GivenDocs THEN g[y] ELSE 0
  BY <1>2, <1>3, <1>5, <1>6, SumPoint
<1>9. SumFunctionOnSet(g, GivenDocs) = n
  BY <1>3, <1>6, <1>8
<1> QED
  BY <1>3, <1>7, <1>9 DEF n

(* What a step adds to the account of a shop.                              *)
MoneyGain(c, s) ==
  LET r == request[c]
      t == TextOf(r)
      g == Given[r.doc].is
  IN  IF Toggled(c)
      THEN IF /\ t.shop = s /\ t.own # 0
              /\ ~t.cheque \/ (Undoes(r) /\ Seen(seen[c], Cheque(DocOf(c, r))) = "CLOSED")
           THEN Signed(OnMoney(t), Undoes(r)) ELSE 0
      ELSE IF Commits(c) /\ r.op \in {"deposit", "reopen"}
      THEN IF g.shop = s THEN Signed(OnMoney(g), r.op = "reopen") ELSE 0
      ELSE IF Commits(c) /\ r.op \in {"transfer", "borrow", "loan"} THEN Moves(s)[r] ELSE 0

(* The statement of a document that moves its money. *)
MoneyAt(r, v) == MoneyFrom(r) + IF TextOf(r).cheque THEN 2 ELSE 1

LEMMA MoneyPosted ==
  ASSUME NEW c, NEW r, NEW v, Posts(r, v), TextOf(r).own # 0,
         ~TextOf(r).cheque \/ (Undoes(r) /\ Seen(v, Cheque(DocOf(c, r))) = "CLOSED")
  PROVE  /\ MoneyAt(r, v) \in 1 .. Len(Effects(c, r, v))
         /\ Effects(c, r, v)[MoneyAt(r, v)] = Cashed(r)
<1>1. EffectsLaid(Effects(c, r, v), c, r, v)
  BY EffectsAre
<1>2. /\ Len(Effects(c, r, v)) = AllotFrom(r, v) + AllotLen(r, v)
      /\ Effects(c, r, v)[MoneyAt(r, v)] = Cashed(r)
  BY <1>1 DEF EffectsLaid, MoneyLaid, MoneyAt
<1>3. /\ MoneyFrom(r) \in Nat /\ AllotLen(r, v) \in Nat
      /\ MoneyLen(r, v) \in {1, 3} /\ (TextOf(r).cheque => MoneyLen(r, v) = 3)
  <2>1. MoneyFrom(r) \in Nat /\ AllotLen(r, v) \in Nat
    BY Lengths
  <2>2. Undoes(r) => DocOf(c, r) = r.doc
    BY DEF Undoes, DocOf, Makers
  <2> QED
    BY <2>1, <2>2 DEF MoneyLen
<1> QED
  BY <1>2, <1>3 DEF AllotFrom, MoneyAt

(* The statements of the other handlers that move money.                   *)
MoneyOps == {"deposit", "reopen", "transfer", "borrow", "loan"}

MoneyPlace(c, s, i) ==
  LET r == request[c]
  IN  \/ r.op \in {"deposit", "reopen"} /\ i = 4 /\ Given[r.doc].is.shop = s
      \/ r.op = "transfer" /\ i = 2 /\ r.shop = s
      \/ r.op = "transfer" /\ i = 3 /\ r.to = s
      \/ r.op = "borrow" /\ i = 3 /\ r.shop = s
      \/ r.op = "loan" /\ i = 2 /\ r.shop = s

LEMMA MoneyPlaces ==
  ASSUME NEW c, NEW s, NEW i, OtherKinds(Code(c)[i], i, c, request[c], seen[c]),
         Code(c)[i].row = Money(s)
  PROVE  MoneyPlace(c, s, i)
<1> DEFINE r == request[c]
           q == Code(c)[i]
<1>1. q.row[1] = "money" /\ q.row[2] = s
  BY DEF Money
<1>2. \/ r.op \in {"deposit", "reopen"} /\ i = 4 /\ \E x : q = Add(Money(Given[r.doc].is.shop), x)
      \/ r.op = "transfer" /\ i = 2 /\ q = Add(Money(r.shop), -r.qty)
      \/ r.op = "transfer" /\ i = 3 /\ q = Add(Money(r.to), r.qty)
      \/ r.op = "borrow" /\ i = 3 /\ q = Add(Money(r.shop), r.qty)
      \/ r.op = "loan" /\ i = 2 /\ q = Add(Money(r.shop), r.qty)
  <2> HIDE DEF r, q
  <2> QED
    BY <1>1, Zenon DEF OtherKinds, r, q
<1> HIDE DEF q
<1> QED
  BY <1>1, <1>2 DEF MoneyPlace, Add, Money

LEMMA MoneyWritten ==
  ASSUME Kept, NEW c \in Clients, Commits(c), request[c].op \in MoneyOps, NEW s, NEW i,
         Written(c, i), Code(c)[i].row = Money(s)
  PROVE  MoneyPlace(c, s, i)
<1>1. WroteKinds(Code(c)[i], i, c, request[c], seen[c])
  BY WrittenKinds
<1>2. request[c].op \notin PostingOps
  BY DEF MoneyOps, PostingOps
<1>3. OtherKinds(Code(c)[i], i, c, request[c], seen[c])
  BY <1>1, <1>2 DEF WroteKinds
<1> QED
  BY <1>3, MoneyPlaces

LEMMA MoneyFrame ==
  ASSUME Kept, NEW c \in Clients, Commits(c), request[c].op \in MoneyOps
  PROVE  /\ mode[c] = "run" /\ request[c] \in Requests /\ Legal(request[c])
         /\ OtherCode(Code(c), c, request[c], seen[c])
         /\ IF request[c].op \in {"deposit", "reopen"}
            THEN Len(Code(c)) = 5 /\ From(c) = 2 /\ Upto(c) = 5 /\ pc[c] = 5
            ELSE Len(Code(c)) = 4 /\ From(c) = 1 /\ Upto(c) = 4 /\ pc[c] = 4
<1> DEFINE r == request[c]
           q == Code(c)
<1>1. mode[c] = "run" /\ r \in Requests /\ Legal(r) /\ pc[c] = Upto(c)
  BY CommitPlace, RequestsAssumption
<1>2. OtherCode(q, c, r, seen[c])
  BY OtherCodes DEF OtherOps, MoneyOps, Code
<1>3. Len(q) = IF r.op \in {"deposit", "reopen"} THEN 5 ELSE 4
  <2> HIDE DEF q, r
  <2> QED
    BY <1>2 DEF OtherCode, MoneyOps, r
<1>4. From(c) = IF r.op \in {"deposit", "reopen"} THEN 2 ELSE 1
  BY DEF From, BeginAt, MoneyOps, Makers, LoanOps
<1>5. Upto(c) = Len(q)
  BY DEF Upto, CommitAt, MoneyOps, Code
<1> HIDE DEF q
<1> QED
  BY <1>1, <1>2, <1>3, <1>4, <1>5 DEF q

(* One statement adds to the account of the shop. *)
LEMMA MoneyAdded ==
  ASSUME Kept, NEW c \in Clients, Commits(c), NEW s, NEW n,
         NEW k \in 1 .. Len(Code(c)), From(c) < k, k < Upto(c), Code(c)[k] = Add(Money(s), n),
         \A i : Written(c, i) /\ i # k => Code(c)[i].row # Money(s)
  PROVE  db'[Money(s)] = db[Money(s)] + n
<1>1. Code(c)[k].op = "add" /\ Code(c)[k].row = Money(s) /\ Code(c)[k].n = n
  BY DEF Add
<1> QED
  BY <1>1, AddedOnce

LEMMA MoneyOther ==
  ASSUME Kept, Numbers, Circular, NEW c \in Clients, AStep(c), NEW s \in Shops,
         Commits(c), request[c].op \in MoneyOps, \E i : MoneyPlace(c, s, i)
  PROVE  db'[Money(s)] = db[Money(s)] + MoneyGain(c, s)
<1> DEFINE r == request[c]
           q == Code(c)
           g == Given[r.doc].is
<1>1. /\ mode[c] = "run" /\ r \in Requests /\ Legal(r) /\ OtherCode(q, c, r, seen[c])
      /\ IF r.op \in {"deposit", "reopen"}
         THEN Len(q) = 5 /\ From(c) = 2 /\ Upto(c) = 5 /\ pc[c] = 5
         ELSE Len(q) = 4 /\ From(c) = 1 /\ Upto(c) = 4 /\ pc[c] = 4
  BY MoneyFrame
<1>2. ~Toggled(c)
  BY DEF Toggled, PostingOps, MoneyOps
<1>3. \A i : Written(c, i) /\ q[i].row = Money(s) => MoneyPlace(c, s, i)
  BY MoneyWritten
<1>4. CASE r.op \in {"deposit", "reopen"}
  <2>1. q[4] = Add(Money(g.shop), Signed(OnMoney(g), r.op = "reopen")) /\ g.shop = s
    <3>1. g.shop = s
      BY <1>4 DEF MoneyPlace
    <3>2. CASE r.op = "deposit"
      BY <1>1, <3>1, <3>2 DEF OtherCode, Signed
    <3>3. CASE r.op = "reopen"
      BY <1>1, <3>1, <3>3 DEF OtherCode, Signed
    <3> QED
      BY <1>4, <3>2, <3>3
  <2>2. \A i : Written(c, i) /\ i # 4 => q[i].row # Money(s)
    BY <1>3, <1>4 DEF MoneyPlace
  <2>3. MoneyGain(c, s) = Signed(OnMoney(g), r.op = "reopen")
    BY <1>2, <1>4, <2>1 DEF MoneyGain
  <2>4. 4 \in 1 .. Len(q) /\ From(c) < 4 /\ 4 < Upto(c)
    <3>1. Len(q) = 5 /\ From(c) = 2 /\ Upto(c) = 5
      BY <1>1, <1>4
    <3> HIDE DEF q
    <3> QED
      BY <3>1
  <2> QED
    BY <2>1, <2>2, <2>3, <2>4, MoneyAdded
<1>5. CASE r.op \in {"transfer", "borrow", "loan"}
  <2>1. MoneyGain(c, s) = Moves(s)[r]
    BY <1>2, <1>5 DEF MoneyGain
  <2>2. r.qty \in Int
    BY <1>1 DEF Legal
  <2>3. /\ 2 \in 1 .. Len(q) /\ From(c) < 2 /\ 2 < Upto(c)
        /\ 3 \in 1 .. Len(q) /\ From(c) < 3 /\ 3 < Upto(c)
    <3>1. Len(q) = 4 /\ From(c) = 1 /\ Upto(c) = 4
      BY <1>1, <1>5
    <3> HIDE DEF q
    <3> QED
      BY <3>1
  <2>4. CASE r.op = "borrow"
    <3>1. q[3] = Add(Money(s), r.qty)
      BY <1>1, <2>4 DEF OtherCode, MoneyPlace
    <3>2. \A i : Written(c, i) /\ i # 3 => q[i].row # Money(s)
      BY <1>3, <2>4 DEF MoneyPlace
    <3>3. Moves(s)[r] = r.qty
      BY <1>1, <2>4 DEF Moves, MoneyPlace
    <3> QED
      BY <2>1, <2>3, <3>1, <3>2, <3>3, MoneyAdded
  <2>5. CASE r.op = "loan"
    <3>1. q[2] = Add(Money(s), r.qty)
      BY <1>1, <2>5 DEF OtherCode, MoneyPlace
    <3>2. \A i : Written(c, i) /\ i # 2 => q[i].row # Money(s)
      BY <1>3, <2>5 DEF MoneyPlace
    <3>3. Moves(s)[r] = r.qty
      BY <1>1, <2>5 DEF Moves, MoneyPlace
    <3> QED
      BY <2>1, <2>3, <3>1, <3>2, <3>3, MoneyAdded
  <2>6. CASE r.op = "transfer" /\ r.shop = s /\ r.to # s
    <3>1. q[2] = Add(Money(s), -r.qty)
      BY <1>1, <2>6 DEF OtherCode
    <3>2. \A i : Written(c, i) /\ i # 2 => q[i].row # Money(s)
      BY <1>3, <2>6 DEF MoneyPlace
    <3>3. Moves(s)[r] = -r.qty
      BY <1>1, <2>2, <2>6 DEF Moves
    <3> QED
      BY <2>1, <2>3, <3>1, <3>2, <3>3, MoneyAdded
  <2>7. CASE r.op = "transfer" /\ r.shop # s /\ r.to = s
    <3>1. q[3] = Add(Money(s), r.qty)
      BY <1>1, <2>7 DEF OtherCode
    <3>2. \A i : Written(c, i) /\ i # 3 => q[i].row # Money(s)
      BY <1>3, <2>7 DEF MoneyPlace
    <3>3. Moves(s)[r] = r.qty
      BY <1>1, <2>2, <2>7 DEF Moves
    <3> QED
      BY <2>1, <2>3, <3>1, <3>2, <3>3, MoneyAdded
  <2>8. CASE r.op = "transfer" /\ r.shop = s /\ r.to = s
    <3>1. q[2].op = "add" /\ q[2].row = Money(s)
      BY <1>1, <2>8 DEF OtherCode, Add
    <3>2. Written(c, 2)
      BY <1>1, <2>8, <3>1 DEF Written, Writes
    <3>3. db'[Money(s)] = buf[c][Money(s)]
      BY <2>3, <3>1, <3>2, CommitsWhatItWrote DEF Writes
    <3>4. buf[c][Money(s)] = db[Money(s)]
      BY <1>1, <2>8 DEF Circular
    <3>5. Moves(s)[r] = 0
      BY <1>1, <2>2, <2>8 DEF Moves
    <3>6. db[Money(s)] \in Int
      <4>1. Money(s) \in Rows /\ DOMAIN db = Rows /\ Money(s)[1] = "money"
        BY DEF Kept, Shapes, Money, Rows
      <4> QED
        BY <4>1 DEF Numbers, Numeric, Number
    <3> QED
      BY <2>1, <3>3, <3>4, <3>5, <3>6
  <2> QED
    BY <1>5, <2>4, <2>5, <2>6, <2>7, <2>8 DEF MoneyPlace
<1> QED
  BY <1>4, <1>5 DEF MoneyOps

LEMMA MoneyStep ==
  ASSUME Kept, Numbers, Circular, NEW c \in Clients, AStep(c), NEW s \in Shops
  PROVE  db'[Money(s)] = db[Money(s)] + MoneyGain(c, s)
<1> DEFINE r == request[c]
           v == seen[c]
           t == TextOf(r)
           n == Signed(OnMoney(t), Undoes(r))
           Paying == /\ Toggled(c) /\ t.shop = s /\ t.own # 0
                     /\ ~t.cheque \/ (Undoes(r) /\ Seen(v, Cheque(DocOf(c, r))) = "CLOSED")
           MoneyMoves == Commits(c) /\ r.op \in MoneyOps /\ \E i : MoneyPlace(c, s, i)
<1>1. Money(s) \in Rows /\ DOMAIN db = Rows /\ Money(s)[1] = "money" /\ Money(s)[2] = s
  BY RowsAre DEF Kept, Shapes, Money
<1>2. db[Money(s)] \in Int
  BY <1>1 DEF Numbers, Numeric, Number
<1>3. CASE Paying
  <2> DEFINE j == MoneyAt(r, v)
             k == Base(r) + j
  <2>0. Commits(c) /\ r.op \in PostingOps /\ Posts(r, v) /\ t.shop = s
    BY <1>3 DEF Toggled
  <2>1. j \in 1 .. Len(Effects(c, r, v)) /\ Effects(c, r, v)[j] = Add(Money(s), n)
    BY <1>3, <2>0, MoneyPosted DEF Cashed
  <2>2. /\ k \in 1 .. Len(Code(c)) /\ Code(c)[k] = Add(Money(s), n)
        /\ From(c) < k /\ k < Upto(c) /\ Base(r) \in Nat
    BY <2>0, <2>1, EffectCommits
  <2>4. ASSUME NEW i, Written(c, i), i # k
        PROVE  Code(c)[i].row # Money(s)
    <3>1. WroteKinds(Code(c)[i], i, c, r, v) /\ i \in 1 .. Len(Code(c))
      BY <2>0, <2>4, WrittenKinds
    <3>2. r.op \notin OtherOps
      BY <2>0 DEF PostingOps, OtherOps
    <3>3. Len(Code(c)) \in Nat
      BY <2>0, NowPlaced DEF Kept, Commits, Goes
    <3> HIDE DEF r, v, t
    <3>4. CASE EffectKinds(Code(c)[i], i - Base(r), c, r, v)
      <4>1. Code(c)[i].row[1] = "money" => i - Base(r) = j
        BY <3>4 DEF EffectKinds, MoneyAt
      <4> HIDE DEF j
      <4> QED
        BY <1>1, <2>2, <2>4, <3>1, <3>3, <4>1
    <3>5. CASE FrameKinds(Code(c)[i], i, c, r)
      BY <1>1, <3>5 DEF FrameKinds
    <3> QED
      BY <3>1, <3>2, <3>4, <3>5 DEF WroteKinds
  <2> HIDE DEF k, n
  <2>5. db'[Money(s)] = db[Money(s)] + n
    BY <2>0, <2>2, <2>4, MoneyAdded
  <2> QED
    BY <1>3, <2>5 DEF MoneyGain, n
<1>4. CASE MoneyMoves
  BY <1>4, MoneyOther
<1>5. CASE ~Paying /\ ~MoneyMoves
  <2>1. MoneyGain(c, s) = 0
    <3>1. Toggled(c) => MoneyGain(c, s) = 0
      BY <1>5 DEF MoneyGain
    <3>2. ASSUME ~Toggled(c), MoneyGain(c, s) # 0 PROVE FALSE
      <4>1. Commits(c) /\ r.op \in MoneyOps
        BY <3>2 DEF MoneyGain, MoneyOps
      <4>2. r \in Requests
        BY <4>1, MoneyFrame
      <4>3. ~MoneyPlace(c, s, 2) /\ ~MoneyPlace(c, s, 3) /\ ~MoneyPlace(c, s, 4)
        BY <1>5, <4>1
      <4>4. r.op \in {"deposit", "reopen"} => Given[r.doc].is.shop # s
        BY <4>3 DEF MoneyPlace
      <4>5. r.op \in {"transfer", "borrow", "loan"} => Moves(s)[r] = 0
        BY <4>2, <4>3 DEF MoneyPlace, Moves
      <4> QED
        BY <3>2, <4>4, <4>5 DEF MoneyGain
    <3> QED
      BY <3>1, <3>2
  <2>2. SUFFICES ASSUME db'[Money(s)] # db[Money(s)]
                 PROVE  FALSE
    BY <1>2, <2>1
  <2>3. PICK k : Puts(c, k, Money(s))
    <3>1. Money(s) # Status(r.doc)
      BY <1>1 DEF Status
    <3> QED
      BY <1>1, <2>2, <3>1, RowChanges
  <2>4. PutKinds(Code(c)[k], k, c, r, v) /\ Code(c)[k].row = Money(s)
    BY <1>1, <2>3, PutsKinds
  <2>5. CASE r.op \in PostingOps /\ Commits(c) /\ Posts(r, v)
             /\ EffectKinds(Code(c)[k], k - Base(r), c, r, v)
    <3>1. /\ t.own # 0 /\ Code(c)[k] = Cashed(r)
          /\ ~t.cheque \/ (Undoes(r) /\ Seen(v, Cheque(DocOf(c, r))) = "CLOSED")
      BY <1>1, <2>4, <2>5 DEF EffectKinds
    <3>2. t.shop = s
      BY <1>1, <2>4, <3>1 DEF Cashed, Add, Money
    <3> QED
      BY <1>5, <2>5, <3>1, <3>2 DEF Toggled
  <2>6. CASE FrameKinds(Code(c)[k], k, c, r)
    BY <1>1, <2>4, <2>6 DEF FrameKinds
  <2>7. CASE r.op \in OtherOps /\ Commits(c) /\ OtherKinds(Code(c)[k], k, c, r, v)
    <3>1. MoneyPlace(c, s, k)
      BY <2>4, <2>7, MoneyPlaces
    <3>2. r.op \in MoneyOps
      BY <3>1 DEF MoneyPlace, MoneyOps
    <3> QED
      BY <1>5, <2>7, <3>1, <3>2
  <2>8. CASE r.op = "count" /\ OtherKinds(Code(c)[k], k, c, r, v)
    <3>1. MoneyPlace(c, s, k)
      BY <2>4, <2>8, MoneyPlaces
    <3> QED
      BY <2>8, <3>1 DEF MoneyPlace
  <2> HIDE DEF r, v, t
  <2> QED
    BY <2>4, <2>5, <2>6, <2>7, <2>8 DEF PutKinds
<1> QED
  BY <1>3, <1>4, <1>5

LEMMA MoneySplit ==
  ASSUME Kept, NEW c \in Clients, AStep(c), NEW s \in Shops
  PROVE  MoneyGain(c, s) =
           (IF Toggled(c) THEN Signed(ByMoney(s)[TextOf(request[c])], Undoes(request[c])) ELSE 0)
           + CashGain(c, s) + (IF Ends(c) THEN Moves(s)[request[c]] ELSE 0)
<1> DEFINE r == request[c]
           t == TextOf(r)
           b == ByMoney(s)[t]
           m == IF Toggled(c) THEN Signed(b, Undoes(r)) ELSE 0
           n == IF Ends(c) THEN Moves(s)[r] ELSE 0
<1>1. CashGain(c, s) \in Int
  BY CashGainInt
<1>2. n \in Int
  <2>1. Ends(c) => r \in Requests
    BY EndsAt
  <2> QED
    BY <2>1, LoanedInt
<1>3. CASE Toggled(c)
  <2>1. t \in Content /\ OnMoney(t) \in Int /\ t.own \in Int
    BY <1>3, ToggledContent, ContentNumbers DEF Content
  <2>2. r.op \notin OtherOps /\ r.op \notin {"deposit", "reopen"}
    BY <1>3 DEF Toggled, PostingOps, OtherOps
  <2>3. n = 0
    BY <2>2, EitherPosts
  <2>4. b = IF t.shop = s /\ ~t.cheque THEN OnMoney(t) ELSE 0
    BY <2>1 DEF ByMoney
  <2>5. m = Signed(b, Undoes(r)) /\ b \in Int /\ m \in Int
    <3>1. b \in Int
      BY <2>1, <2>4
    <3>2. m = Signed(b, Undoes(r))
      BY <1>3
    <3> HIDE DEF b, m
    <3> QED
      BY <3>1, <3>2 DEF Signed
  <2>6. b = 0 => m = 0
    <3> HIDE DEF b, m
    <3> QED
      BY <2>5, SignedZero
  <2>7. CASE t.cheque
    <3>1. MoneyGain(c, s) = CashGain(c, s)
      BY <1>3, <2>2, <2>7 DEF MoneyGain, CashGain, Signed
    <3>2. m = 0
      BY <2>4, <2>6, <2>7
    <3> HIDE DEF m, n
    <3> QED
      BY <1>1, <2>3, <3>1, <3>2 DEF m, n
  <2>8. CASE ~t.cheque
    <3>1. CashGain(c, s) = 0
      BY <2>2, <2>8 DEF CashGain
    <3>2. MoneyGain(c, s) = m
      <4>1. CASE t.shop = s /\ t.own # 0
        BY <1>3, <2>4, <2>8, <4>1 DEF MoneyGain
      <4>2. CASE ~(t.shop = s /\ t.own # 0)
        <5>1. MoneyGain(c, s) = 0
          BY <1>3, <4>2 DEF MoneyGain
        <5>2. b = 0
          <6>1. t.own = 0 => OnMoney(t) = 0
            BY <2>1, NoMoney
          <6> QED
            BY <2>4, <4>2, <6>1
        <5> QED
          BY <2>6, <5>1, <5>2
      <4> QED
        BY <4>1, <4>2
    <3> HIDE DEF m, n
    <3> QED
      BY <2>3, <2>5, <3>1, <3>2 DEF m, n
  <2> QED
    BY <2>7, <2>8
<1>4. CASE ~Toggled(c)
  <2>1. m = 0
    BY <1>4
  <2>2. CASE Commits(c) /\ r.op \in {"deposit", "reopen"}
    <3>1. MoneyGain(c, s) = CashGain(c, s)
      BY <1>4, <2>2 DEF MoneyGain, CashGain, Signed
    <3>2. Ends(c) => Moves(s)[r] = 0
      BY <2>2, EndsAt DEF Moves
    <3> HIDE DEF m
    <3> QED
      BY <1>1, <2>1, <3>1, <3>2 DEF m
  <2>3. CASE ~(Commits(c) /\ r.op \in {"deposit", "reopen"})
    <3>1. CashGain(c, s) = 0
      BY <1>4, <2>3 DEF CashGain
    <3>2. MoneyGain(c, s) = n
      <4>1. CASE r.op \in {"transfer", "borrow", "loan"}
        <5>1. mode[c] = "idle" => ~Commits(c)
          BY DEF Commits, Goes
        <5>2. Ends(c) <=> Commits(c)
          BY <4>1, <5>1, EndsAt DEF OtherOps
        <5> QED
          BY <1>4, <4>1, <5>2 DEF MoneyGain
      <4>2. CASE r.op \notin {"transfer", "borrow", "loan"}
        <5>1. MoneyGain(c, s) = 0
          BY <1>4, <2>3, <4>2 DEF MoneyGain
        <5>2. Ends(c) => Moves(s)[r] = 0
          BY <4>2, EndsAt DEF Moves
        <5> QED
          BY <5>1, <5>2
      <4> QED
        BY <4>1, <4>2
    <3> HIDE DEF m, n
    <3> QED
      BY <1>2, <2>1, <3>1, <3>2 DEF m, n
  <2> QED
    BY <2>2, <2>3
<1> QED
  BY <1>3, <1>4

LEMMA FundedStep ==
  ASSUME Kept, Numbers, SeenOpen, Papers, Pairs, Intent, ReadSoFar, NoCheque, ChequeKnown,
         Circular, Funded, NEW c \in Clients, AStep(c), ~Collided'
  PROVE  Funded'
<1> SUFFICES ASSUME NEW s \in Shops
             PROVE  db'[Money(s)] = Turning(ByMoney(s))' + Cashing(s)' + Working(Moves(s))'
  BY DEF Funded, Money
<1> DEFINE r == request[c]
           F == ByMoney(s)
           W == Moves(s)
           m == IF Toggled(c) THEN Signed(F[TextOf(r)], Undoes(r)) ELSE 0
           n == IF Ends(c) THEN W[r] ELSE 0
<1>1. db'[Money(s)] = db[Money(s)] + MoneyGain(c, s)
  BY MoneyStep
<1>2. db[Money(s)] = Turning(F) + Cashing(s) + Working(W)
  BY DEF Funded
<1>3. Turning(F) \in Int /\ Turning(F)' = Turning(F) + m /\ m \in Int
  <2>1. /\ Turning(F) \in Int /\ Turning(F)' = Turning(F) + m
        /\ Toggled(c) => F[TextOf(r)] \in Int
    BY Counts, TurningStep
  <2> QED
    BY <2>1 DEF Signed
<1>4. Working(W) \in Int /\ Working(W)' = Working(W) + n /\ n \in Int
  BY LoanedInt, WorkingStep
<1>5. /\ Cashing(s) \in Int /\ CashGain(c, s) \in Int
      /\ Cashing(s)' = Cashing(s) + CashGain(c, s)
  BY CashingStep
<1>6. MoneyGain(c, s) = m + CashGain(c, s) + n
  BY MoneySplit
<1> HIDE DEF m, n
<1> QED
  BY <1>1, <1>2, <1>3, <1>4, <1>5, <1>6

(***************************************************************************)
(* The books as a whole.                                                   *)
(***************************************************************************)

Books ==
  /\ Intent /\ ReadSoFar /\ Blank /\ Circular /\ Unlent /\ Lent
  /\ Collided \/ (NoCheque /\ ChequeKnown /\ Stocked /\ Owed /\ Funded)

LEMMA BooksStep ==
  ASSUME Sane, Books, NEW c \in Clients, AStep(c)
  PROVE  Books'
<1>1. /\ Kept /\ SeenOpen /\ Papers /\ Pairs /\ Numbers
      /\ Intent /\ ReadSoFar /\ Blank /\ Circular /\ Unlent /\ Lent
  BY DEF Sane, Books
<1>2. Intent' /\ ReadSoFar' /\ Blank' /\ Circular' /\ Unlent' /\ Lent'
  BY <1>1, IntentStep, ReadSoFarStep, BlankStep, CircularStep, UnlentStep, LentStep
<1>3. ASSUME ~Collided'
      PROVE  NoCheque' /\ ChequeKnown' /\ Stocked' /\ Owed' /\ Funded'
  <2>1. ~Collided
    BY <1>1, <1>3, CollidedStep
  <2>2. NoCheque /\ ChequeKnown /\ Stocked /\ Owed /\ Funded
    BY <2>1 DEF Books
  <2>3. NoCheque'
    BY <1>1, <1>3, <2>2, NoChequeStep
  <2>4. ChequeKnown'
    BY <1>1, <1>3, <2>2, ChequeKnownStep
  <2>5. Stocked'
    BY <1>1, <1>3, <2>2, StockedStep
  <2>6. Owed'
    BY <1>1, <1>3, <2>2, OwedStep
  <2>7. Funded'
    BY <1>1, <1>3, <2>2, FundedStep
  <2> QED
    BY <2>3, <2>4, <2>5, <2>6, <2>7
<1> QED
  BY <1>2, <1>3 DEF Books

LEMMA GivenAtStart ==
  ASSUME Init
  PROVE  /\ \A d \in GivenDocs : db[Cheque(d)] = Given[d].cheque
         /\ \A d \in GivenDocs : InForce(d) <=> Rests(d)
         /\ \A d \in DocIds : InForce(d) <=> d \in GivenInForce
<1>1. \A d \in DocIds : Status(d) \in Rows /\ Deleted(d) \in Rows /\ Cheque(d) \in Rows
  BY RowsAre
<1>2. ASSUME NEW d \in GivenDocs
      PROVE  /\ db[Cheque(d)] = Given[d].cheque
             /\ InForce(d) <=> Rests(d)
  <2>1. d \in DocIds /\ Given[d].deleted \in BOOLEAN /\ Given[d].status # "NONE"
    BY GivenSound DEF AtRest, StatusesOf, DocIds
  <2>2. db[Status(d)] = Given[d].status
    BY <1>1, <2>1 DEF Init, Status
  <2>3. db[Deleted(d)] = Given[d].deleted
    BY <1>1, <2>1 DEF Init, Deleted
  <2>4. db[Cheque(d)] = Given[d].cheque
    BY <1>1, <2>1 DEF Init, Cheque
  <2> QED
    BY <2>1, <2>2, <2>3, <2>4 DEF InForce, There, Rests
<1>3. \A d \in GivenDocs : Rests(d) <=> d \in GivenInForce
  BY DEF Rests, GivenInForce
<1>4. \A d \in DocIds \ GivenDocs : ~InForce(d) /\ d \notin GivenInForce
  BY <1>1 DEF Init, InForce, There, Status, GivenInForce
<1> QED
  BY <1>2, <1>3, <1>4

LEMMA BooksInit == Init => Books
<1> SUFFICES ASSUME Init PROVE Books
  OBVIOUS
<1>1. \A c \in Clients : mode[c] = "idle" /\ seen[c] = NothingWritten
  BY DEF Init
<1>2. Intent /\ ReadSoFar /\ Blank /\ Circular /\ ChequeKnown
  BY <1>1, IntentInit DEF ReadSoFar, Blank, Circular, ChequeKnown, NothingWritten
<1>3. IsFiniteSet(Clients) /\ IsFiniteSet(DocIds) /\ IsFiniteSet(GivenDocs) /\ IsFiniteSet(Lenders)
  <2>1. IsFiniteSet(Clients) /\ IsFiniteSet(DocIds) /\ IsFiniteSet(GivenDocs)
    BY NamesAssumption, FS_Subset DEF DocIds
  <2> QED
    BY <2>1, FS_AddElement DEF Lenders
<1>4. ASSUME NEW W PROVE Working(W) = 0
  <2> DEFINE f == [e \in Clients |-> Worked(e, W)]
  <2>1. \A e \in Clients : f[e] = 0
    BY <1>1 DEF Worked
  <2> HIDE DEF f
  <2>2. SumFunctionOnSet(f, Clients) = 0
    BY <1>3, <2>1, SumZero
  <2> QED
    BY <2>2 DEF Working, f
<1>5. ASSUME NEW F PROVE Turning(F) = 0
  <2> DEFINE f == [e \in DocIds |-> Turned(e, F)]
  <2>1. \A e \in DocIds : f[e] = 0
    BY GivenAtStart DEF Turned
  <2> HIDE DEF f
  <2>2. SumFunctionOnSet(f, DocIds) = 0
    BY <1>3, <2>1, SumZero
  <2> QED
    BY <2>2 DEF Turning, f
<1>6. ASSUME NEW s PROVE Cashing(s) = 0
  <2> DEFINE f == [d \in GivenDocs |-> CashAt(d, s)]
  <2>1. \A d \in GivenDocs : f[d] = 0
    <3> SUFFICES ASSUME NEW d \in GivenDocs PROVE CashAt(d, s) = 0
      OBVIOUS
    <3>1. db[Cheque(d)] = Given[d].cheque
      BY GivenAtStart
    <3>2. OnMoney(Given[d].is) \in Int
      BY GivenSound, TextNumbers
    <3> DEFINE x == IF Given[d].cheque = "CLOSED" THEN OnMoney(Given[d].is) ELSE 0
    <3>3. x \in Int
      BY <3>2
    <3>4. CashAt(d, s) = IF Given[d].is.cheque /\ Given[d].is.shop = s THEN x - x ELSE 0
      BY <3>1 DEF CashAt
    <3> HIDE DEF x
    <3> QED
      BY <3>3, <3>4
  <2> HIDE DEF f
  <2>2. SumFunctionOnSet(f, GivenDocs) = 0
    BY <1>3, <2>1, SumZero
  <2> QED
    BY <2>2 DEF Cashing, f
<1>7. /\ db[Stock] = Stock0 /\ \A p \in Parties : db[Party(p)] = 0
      /\ \A s \in Shops : db[Money(s)] = 0
      /\ \A l \in Lenders : db[Loan(l)] = 0
  <2>1. /\ Stock \in Rows /\ \A p \in Parties : Party(p) \in Rows
        /\ \A s \in Shops : Money(s) \in Rows
        /\ \A l \in Lenders : Loan(l) \in Rows
    BY DEF Rows, Lenders
  <2>2. db[Stock] = Stock0
    BY <2>1 DEF Init, Stock
  <2>3. \A p \in Parties : db[Party(p)] = 0
    BY <2>1 DEF Init, Party
  <2>4. \A s \in Shops : db[Money(s)] = 0
    BY <2>1 DEF Init, Money
  <2>5. \A l \in Lenders : db[Loan(l)] = 0
    BY <2>1 DEF Init, Loan
  <2> QED
    BY <2>2, <2>3, <2>4, <2>5
<1>8. Unlent
  BY <1>7 DEF Unlent, Lenders
<1>9. Lent
  <2> DEFINE f == [l \in Lenders |-> db[Loan(l)]]
  <2>1. \A l \in Lenders : f[l] = 0
    BY <1>7
  <2> HIDE DEF f
  <2>2. SumFunctionOnSet(f, Lenders) = 0
    BY <1>3, <2>1, SumZero
  <2> QED
    BY <1>4, <2>2 DEF Lent, f
<1>10. NoCheque
  <2> SUFFICES ASSUME NEW d \in GivenCheques, ~InForce(d) PROVE db[Cheque(d)] = "NONE"
    BY DEF NoCheque
  <2>1. d \in GivenDocs /\ AtRest(d) /\ ~Rests(d) /\ db[Cheque(d)] = Given[d].cheque
    BY GivenAtStart, GivenSound DEF GivenCheques
  <2> QED
    BY <2>1 DEF AtRest
<1>11. Stock0 \in Int
  BY StockAssumption
<1>12. Stocked /\ Owed /\ Funded
  BY <1>4, <1>5, <1>6, <1>7, <1>11 DEF Stocked, Owed, Funded
<1> QED
  BY <1>2, <1>8, <1>9, <1>10, <1>12 DEF Books

LEMMA BooksSame ==
  ASSUME Books, UNCHANGED vars
  PROVE  Books'
<1>1. Intent'
  BY IntentSame DEF Books
<1>2. ReadSoFar' /\ Blank' /\ Circular' /\ Unlent'
  <2>1. ReadSoFar /\ Blank /\ Circular /\ Unlent
    BY DEF Books
  <2>2. ReadSoFar'
    BY <2>1 DEF ReadSoFar, Code, vars
  <2>3. Blank' /\ Circular' /\ Unlent'
    BY <2>1 DEF Blank, Circular, Unlent, Loan, Money, vars
  <2> QED
    BY <2>2, <2>3
<1>3. Lent'
  BY DEF Books, Lent, Working, Worked, Loan, Lenders, vars
<1>4. NoCheque => NoCheque'
  BY DEF NoCheque, InForce, There, Cheque, Status, Deleted, vars
<1>5. ChequeKnown => ChequeKnown'
  BY DEF ChequeKnown, Cheque, vars
<1>6. Stocked => Stocked'
  BY DEF Stocked, Working, Worked, Turning, Turned, InForce, There, Is, Stock, Status, Deleted, vars
<1>7. Owed => Owed'
  BY DEF Owed, Turning, Turned, InForce, There, Is, Party, Status, Deleted, vars
<1>8. Funded => Funded'
  BY DEF Funded, Working, Worked, Turning, Turned, InForce, There, Is, Money, Status, Deleted,
     Cashing, CashAt, Cheque, vars
<1>9. Collided => Collided'
  BY DEF Collided, vars
<1>10. Collided \/ (NoCheque /\ ChequeKnown /\ Stocked /\ Owed /\ Funded)
  BY DEF Books
<1>11. (Collided \/ (NoCheque /\ ChequeKnown /\ Stocked /\ Owed /\ Funded))'
  BY <1>4, <1>5, <1>6, <1>7, <1>8, <1>9, <1>10
<1> QED
  BY <1>1, <1>2, <1>3, <1>11 DEF Books

LEMMA ChangedContent ==
  ASSUME Kept, Papers
  PROVE  \A d \in Changed : d \in DocIds /\ Is(d) \in Content
<1> SUFFICES ASSUME NEW d \in Changed PROVE d \in DocIds /\ Is(d) \in Content
  OBVIOUS
<1>1. d \in DocIds
  BY DEF DocIds, Changed, AllDocs, NewDocs
<1>2. d \in GivenDocs \/ InForce(d)
  BY DEF Changed, InForce, GivenInForce
<1> QED
  BY <1>1, <1>2, ContentOf

(* The sums of the properties are the ones above.                          *)
LEMMA MovedIs ==
  ASSUME Kept, Papers, NEW F \in [Content -> Int], NEW S \in SUBSET Changed, NEW f,
         \A d \in S : f[d] = IF InForce(d) THEN F[Is(d)] ELSE -F[Is(d)],
         \A d \in Changed \ S : F[Is(d)] = 0
  PROVE  SumFunctionOnSet(f, S) = Turning(F)
<1> DEFINE g == [e \in DocIds |-> Turned(e, F)]
<1>1. IsFiniteSet(DocIds) /\ S \subseteq DocIds /\ Changed \subseteq DocIds
  BY NamesAssumption DEF DocIds, Changed, AllDocs, NewDocs
<1>2. ASSUME NEW d \in Changed
      PROVE  /\ ~(InForce(d) <=> d \in GivenInForce) /\ F[Is(d)] \in Int
  <2>1. ~(InForce(d) <=> d \in GivenInForce)
    BY DEF Changed, InForce
  <2> QED
    BY <2>1, ChangedContent
<1>3. ASSUME NEW d \in DocIds \ Changed
      PROVE  InForce(d) <=> d \in GivenInForce
  <2>1. CASE d \in AllDocs
    BY <1>3, <2>1 DEF Changed
  <2>2. CASE d \notin AllDocs
    <3>1. d \in Clients /\ ~MakesDoc(d) /\ d \notin GivenDocs
      BY <1>3, <2>2 DEF AllDocs, NewDocs, DocIds
    <3>2. ~InForce(d)
      BY <3>1, InForceIs DEF MakesDoc, Committed
    <3> QED
      BY <3>1, <3>2 DEF GivenInForce
  <2> QED
    BY <2>1, <2>2
<1>4. \A d \in S : f[d] = g[d]
  BY <1>1, <1>2 DEF Turned, Signed
<1>5. \A d \in DocIds \ S : g[d] = 0
  <2> TAKE d \in DocIds \ S
  <2>1. CASE d \in Changed
    <3>1. F[Is(d)] = 0
      BY <2>1
    <3>2. g[d] = Signed(F[Is(d)], ~InForce(d))
      BY <1>2, <2>1 DEF Turned
    <3> HIDE DEF g
    <3> QED
      BY <1>2, <2>1, <3>1, <3>2, SignedZero
  <2>2. CASE d \notin Changed
    BY <1>3, <2>2 DEF Turned
  <2> QED
    BY <2>1, <2>2
<1>6. \A d \in DocIds : g[d] \in Int
  <2> TAKE d \in DocIds
  <2>1. d \in Changed => F[Is(d)] \in Int
    BY <1>2
  <2>2. d \notin Changed => Turned(d, F) = 0
    BY <1>3 DEF Turned
  <2> QED
    BY <2>1, <2>2 DEF Turned, Signed
<1> HIDE DEF g
<1>7. SumFunctionOnSet(f, S) = SumFunctionOnSet(g, DocIds)
  BY <1>1, <1>4, <1>5, <1>6, SumExtend
<1> QED
  BY <1>7 DEF Turning, g

LEMMA WorkIs ==
  ASSUME Kept, NEW W \in [Requests -> Int], NEW S \in SUBSET Clients, NEW f,
         \A c \in S : mode[c] = "done" /\ f[c] = W[request[c]],
         \A c \in Clients \ S : mode[c] = "done" => W[request[c]] = 0
  PROVE  SumFunctionOnSet(f, S) = Working(W)
<1> DEFINE g == [c \in Clients |-> Worked(c, W)]
<1>1. IsFiniteSet(Clients)
  BY NamesAssumption, FS_Subset DEF DocIds
<1>2. \A c \in S : f[c] = g[c]
  BY DEF Worked
<1>3. \A c \in Clients \ S : g[c] = 0
  BY DEF Worked
<1>4. \A c \in Clients : g[c] \in Int
  <2>1. \A c \in Clients : mode[c] = "done" => request[c] \in Requests
    BY DEF Kept, Shapes, Shape
  <2> QED
    BY <2>1 DEF Worked
<1> HIDE DEF g
<1>5. SumFunctionOnSet(f, S) = SumFunctionOnSet(g, Clients)
  BY <1>1, <1>2, <1>3, <1>4, SumExtend
<1> QED
  BY <1>5 DEF Working, g

LEMMA DoneIs ==
  ASSUME Kept, NEW ops
  PROVE  \A c \in Done(ops) : c \in Clients /\ mode[c] = "done" /\ request[c] \in Requests
                              /\ Legal(request[c]) /\ request[c].op \in ops
BY RequestsAssumption DEF Done, Kept, Shapes, Shape

LEMMA CashIs ==
  ASSUME NEW s \in Shops, NEW S, NEW f,
         S = {d \in GivenCheques : /\ db[Cheque(d)] # Given[d].cheque
                                   /\ "CLOSED" \in {db[Cheque(d)], Given[d].cheque}
                                   /\ Is(d).shop = s},
         \A d \in S : f[d] = Signed(OnMoney(Is(d)), db[Cheque(d)] # "CLOSED")
  PROVE  SumFunctionOnSet(f, S) = Cashing(s)
<1> DEFINE g == [d \in GivenDocs |-> CashAt(d, s)]
<1>1. IsFiniteSet(GivenDocs) /\ S \subseteq GivenDocs
  BY NamesAssumption, FS_Subset DEF DocIds, GivenCheques
<1>2. \A d \in GivenDocs : OnMoney(Given[d].is) \in Int /\ Is(d) = Given[d].is
  BY GivenSound, TextNumbers DEF Is
<1>3. \A d \in S : f[d] = g[d]
  <2> TAKE d \in S
  <2>1. /\ d \in GivenDocs /\ Given[d].is.cheque /\ Given[d].is.shop = s
        /\ db[Cheque(d)] = "CLOSED" <=> Given[d].cheque # "CLOSED"
        /\ OnMoney(Given[d].is) \in Int
    BY <1>1, <1>2 DEF GivenCheques
  <2>2. f[d] = Signed(OnMoney(Given[d].is), db[Cheque(d)] # "CLOSED")
    BY <1>2, <2>1
  <2>3. g[d] = (IF db[Cheque(d)] = "CLOSED" THEN OnMoney(Given[d].is) ELSE 0)
               - (IF Given[d].cheque = "CLOSED" THEN OnMoney(Given[d].is) ELSE 0)
    BY <2>1 DEF CashAt
  <2> HIDE DEF g
  <2>4. CASE db[Cheque(d)] = "CLOSED"
    BY <2>1, <2>2, <2>3, <2>4 DEF Signed
  <2>5. CASE db[Cheque(d)] # "CLOSED"
    BY <2>1, <2>2, <2>3, <2>5 DEF Signed
  <2> QED
    BY <2>4, <2>5
<1>4. \A d \in GivenDocs \ S : g[d] = 0
  <2> TAKE d \in GivenDocs \ S
  <2>1. OnMoney(Given[d].is) \in Int /\ Is(d) = Given[d].is
    BY <1>2
  <2>2. ~(Given[d].is.cheque /\ Given[d].is.shop = s)
        \/ (db[Cheque(d)] = "CLOSED" <=> Given[d].cheque = "CLOSED")
    BY <2>1 DEF GivenCheques
  <2> QED
    BY <2>1, <2>2 DEF CashAt
<1>5. \A d \in GivenDocs : g[d] \in Int
  BY <1>2 DEF CashAt
<1> HIDE DEF g
<1>6. SumFunctionOnSet(f, S) = SumFunctionOnSet(g, GivenDocs)
  BY <1>1, <1>3, <1>4, <1>5, SumExtend
<1> QED
  BY <1>6 DEF Cashing, g

LEMMA StockBooks ==
  ASSUME Kept, Papers, Stocked
  PROVE  StockIsDocuments(Changed)
<1> DEFINE ops == {"adjust", "count"}
           f == [c \in Done(ops) |-> request[c].qty]
           g == [d \in Changed |-> IF InForce(d) THEN OnStock(Is(d)) ELSE -OnStock(Is(d))]
<1>1. Asked(Done(ops)) = SumFunctionOnSet(f, Done(ops))
  BY DEF Asked, Sum
<1>2. Moved(Changed, LAMBDA d : OnStock(Is(d))) = SumFunctionOnSet(g, Changed)
  BY DEF Moved, Sum
<1>3. SumFunctionOnSet(f, Done(ops)) = Working(Counted)
  <2>1. \A c \in Done(ops) : c \in Clients /\ mode[c] = "done" /\ f[c] = Counted[request[c]]
    BY DoneIs DEF Counted
  <2>2. \A c \in Clients \ Done(ops) : mode[c] = "done" => Counted[request[c]] = 0
    BY DEF Done, Counted, Kept, Shapes, Shape
  <2> HIDE DEF f, ops
  <2> QED
    BY <2>1, <2>2, LoanedInt, WorkIs
<1>4. SumFunctionOnSet(g, Changed) = Turning(ByStock)
  <2>1. \A d \in Changed : ByStock[Is(d)] = OnStock(Is(d))
    BY ChangedContent DEF ByStock
  <2>2. \A d \in Changed : g[d] = IF InForce(d) THEN ByStock[Is(d)] ELSE -ByStock[Is(d)]
    BY <2>1
  <2> HIDE DEF g
  <2> QED
    BY <2>2, Counts, MovedIs
<1> HIDE DEF f, g, ops
<1> QED
  BY <1>1, <1>2, <1>3, <1>4 DEF StockIsDocuments, Stocked, ops

LEMMA PartyBooks ==
  ASSUME Kept, Papers, Owed
  PROVE  PartiesAreDocuments(Changed)
<1> SUFFICES ASSUME NEW p \in Parties
             PROVE  db[Party(p)] = Moved({d \in Changed : Is(d).party = p},
                                         LAMBDA d : OnParty(Is(d)))
  BY DEF PartiesAreDocuments
<1> DEFINE S == {d \in Changed : Is(d).party = p}
           g == [d \in S |-> IF InForce(d) THEN OnParty(Is(d)) ELSE -OnParty(Is(d))]
<1>1. Moved(S, LAMBDA d : OnParty(Is(d))) = SumFunctionOnSet(g, S)
  BY DEF Moved, Sum
<1>2. \A d \in Changed : ByParty(p)[Is(d)] = IF Is(d).party = p THEN OnParty(Is(d)) ELSE 0
  BY ChangedContent DEF ByParty
<1>3. /\ \A d \in S : g[d] = IF InForce(d) THEN ByParty(p)[Is(d)] ELSE -ByParty(p)[Is(d)]
      /\ \A d \in Changed \ S : ByParty(p)[Is(d)] = 0
      /\ S \in SUBSET Changed
  BY <1>2
<1> HIDE DEF g, S
<1>4. SumFunctionOnSet(g, S) = Turning(ByParty(p))
  BY <1>3, Counts, MovedIs
<1> QED
  BY <1>1, <1>4 DEF Owed, S

LEMMA MoneyBooks ==
  ASSUME Kept, Papers, Funded
  PROVE  MoneyIsDocuments(Changed)
<1> DEFINE cashed == {d \in GivenCheques : /\ db[Cheque(d)] # Given[d].cheque
                                           /\ "CLOSED" \in {db[Cheque(d)], Given[d].cheque}}
           movers == Done({"borrow", "loan", "transfer"})
           deposits(d) == Signed(OnMoney(Is(d)), db[Cheque(d)] # "CLOSED")
<1> SUFFICES ASSUME NEW s \in Shops
             PROVE  db[Money(s)] =
                      Moved({d \in Changed : Is(d).shop = s /\ ~Is(d).cheque},
                            LAMBDA d : OnMoney(Is(d)))
                      + Sum(deposits, {d \in cashed : Is(d).shop = s})
                      + Sum(LAMBDA c : Brought(c, s), movers)
  BY DEF MoneyIsDocuments
<1> DEFINE S == {d \in Changed : Is(d).shop = s /\ ~Is(d).cheque}
           T == {d \in cashed : Is(d).shop = s}
           f == [d \in S |-> IF InForce(d) THEN OnMoney(Is(d)) ELSE -OnMoney(Is(d))]
           g == [d \in T |-> deposits(d)]
           h == [c \in movers |-> Brought(c, s)]
           F == ByMoney(s)
<1>1. /\ Moved(S, LAMBDA d : OnMoney(Is(d))) = SumFunctionOnSet(f, S)
      /\ Sum(deposits, T) = SumFunctionOnSet(g, T)
      /\ Sum(LAMBDA c : Brought(c, s), movers) = SumFunctionOnSet(h, movers)
  <2>1. Moved(S, LAMBDA d : OnMoney(Is(d))) = SumFunctionOnSet(f, S)
    BY DEF Moved, Sum
  <2>2. Sum(deposits, T) = SumFunctionOnSet(g, T)
    BY DEF Sum
  <2>3. Sum(LAMBDA c : Brought(c, s), movers) = SumFunctionOnSet(h, movers)
    BY DEF Sum
  <2> QED
    BY <2>1, <2>2, <2>3
<1>2. SumFunctionOnSet(f, S) = Turning(F)
  <2>1. \A d \in Changed : F[Is(d)] = IF Is(d).shop = s /\ ~Is(d).cheque THEN OnMoney(Is(d)) ELSE 0
    BY ChangedContent DEF ByMoney
  <2>2. /\ \A d \in S : f[d] = IF InForce(d) THEN F[Is(d)] ELSE -F[Is(d)]
        /\ \A d \in Changed \ S : F[Is(d)] = 0
        /\ S \in SUBSET Changed
    BY <2>1
  <2> HIDE DEF f, S
  <2> QED
    BY <2>2, Counts, MovedIs
<1>3. SumFunctionOnSet(g, T) = Cashing(s)
  <2>1. T = {d \in GivenCheques : /\ db[Cheque(d)] # Given[d].cheque
                                  /\ "CLOSED" \in {db[Cheque(d)], Given[d].cheque}
                                  /\ Is(d).shop = s}
    OBVIOUS
  <2>2. \A d \in T : g[d] = Signed(OnMoney(Is(d)), db[Cheque(d)] # "CLOSED")
    OBVIOUS
  <2> HIDE DEF g, T
  <2> QED
    BY <2>1, <2>2, CashIs
<1>4. SumFunctionOnSet(h, movers) = Working(Moves(s))
  <2>1. \A c \in movers : mode[c] = "done" /\ h[c] = Moves(s)[request[c]] /\ c \in Clients
    <3> TAKE c \in movers
    <3>1. /\ c \in Clients /\ mode[c] = "done" /\ request[c] \in Requests /\ request[c].qty \in Int
          /\ request[c].op \in {"borrow", "loan", "transfer"}
      BY DoneIs DEF Legal
    <3>2. h[c] = (IF (IF request[c].op = "transfer" THEN request[c].to ELSE request[c].shop) = s
                  THEN request[c].qty ELSE 0)
                 - (IF request[c].op = "transfer" /\ request[c].shop = s THEN request[c].qty ELSE 0)
      BY DEF Brought
    <3> HIDE DEF h
    <3> QED
      BY <3>1, <3>2 DEF Moves
  <2>2. \A c \in Clients \ movers : mode[c] = "done" => Moves(s)[request[c]] = 0
    BY DEF Done, Moves, Kept, Shapes, Shape
  <2> HIDE DEF h, movers
  <2> QED
    BY <2>1, <2>2, LoanedInt, WorkIs
<1>5. db[Money(s)] = Turning(F) + Cashing(s) + Working(Moves(s))
  BY DEF Funded
<1> HIDE DEF f, g, h, F, S, T, movers, deposits
<1> QED
  BY <1>1, <1>2, <1>3, <1>4, <1>5 DEF S, T, F

LEMMA LoanBooks ==
  ASSUME Kept, Lent
  PROVE  LoansAreAsked
<1> DEFINE ops == LoanOps
           f == [c \in Done(ops) |-> request[c].qty]
           g == [l \in Lenders |-> db[Loan(l)]]
<1>1. Asked(Done(ops)) = SumFunctionOnSet(f, Done(ops))
  BY DEF Asked, Sum
<1>2. Sum(LAMBDA l : db[Loan(l)], Clients \cup {None}) = SumFunctionOnSet(g, Lenders)
  BY DEF Sum, Lenders
<1>3. SumFunctionOnSet(f, Done(ops)) = Working(Loaned)
  <2>1. \A c \in Done(ops) : c \in Clients /\ mode[c] = "done" /\ f[c] = Loaned[request[c]]
    BY DoneIs DEF Loaned
  <2>2. \A c \in Clients \ Done(ops) : mode[c] = "done" => Loaned[request[c]] = 0
    BY DEF Done, Loaned, Kept, Shapes, Shape
  <2> HIDE DEF f, ops
  <2> QED
    BY <2>1, <2>2, LoanedInt, WorkIs
<1> QED
  BY <1>1, <1>2, <1>3 DEF LoansAreAsked, Lent

(* README "Each transaction atomically updates stock, party balance,       *)
(* cash/bank balances" (postEffects and its callers): after every commit    *)
(* the stock, the balances of the parties, the accounts and the loans are  *)
(* what the documents in force and the requests done add up to, however    *)
(* many requests interleave, are refused, stop or are ended, unless a      *)
(* document is deleted or restored while it is rewritten.                  *)
THEOREM RowsBooksReconcile == Spec => []BooksReconcile
<1>1. Init => Sane /\ Books
  BY SaneInit, BooksInit
<1>2. Sane /\ Books /\ [Next]_vars => (Sane /\ Books)'
  <2> SUFFICES ASSUME Sane, Books, [Next]_vars PROVE Sane' /\ Books'
    OBVIOUS
  <2>1. Sane' /\ (UNCHANGED vars \/ \E c \in Clients : AStep(c))
    BY SaneNext
  <2>2. ASSUME UNCHANGED vars PROVE Books'
    BY <2>2, BooksSame
  <2>3. ASSUME NEW c \in Clients, AStep(c) PROVE Books'
    BY <2>3, BooksStep
  <2> QED
    BY <2>1, <2>2, <2>3
<1>3. Sane /\ Books => BooksReconcile
  <2> SUFFICES ASSUME Sane, Books PROVE BooksReconcile
    OBVIOUS
  <2>1. LoansAreAsked
    BY LoanBooks DEF Sane, Books
  <2>2. ASSUME ~Collided
        PROVE  /\ StockIsDocuments(Changed) /\ PartiesAreDocuments(Changed)
               /\ MoneyIsDocuments(Changed)
    BY <2>2, StockBooks, PartyBooks, MoneyBooks DEF Sane, Books
  <2> QED
    BY <2>1, <2>2 DEF BooksReconcile
<1> QED
  BY <1>1, <1>2, <1>3, PTL DEF Spec
=============================================================================

------------------------- MODULE TxnNumberingProofs -------------------------
(* Proofs about TxnNumbering, for every value of its constants. *)
EXTENDS TxnNumbering, TLAPS

(* The fields of a request and of its row.                                 *)
LEMMA ReqFields ==
  ASSUME TypeOK, NEW d \in Docs, req[d] # None
  PROVE  /\ req[d] \in Req
         /\ RowOf(d) \in Shops
         /\ seq[RowOf(d)] \in SeqRow
BY ShopsAssumption DEF TypeOK, RowOf, CountedBy, Req, Scopes

(* A transaction that ends without a commit leaves nothing behind.         *)
LEMMA EndedInv ==
  ASSUME IInv, NEW d \in Docs, req[d] # None, Ended(d), UNCHANGED <<docs, seq>>
  PROVE  IInv'
<1>1. TypeOK'
  BY ReqFields DEF IInv, TypeOK, Ended
<1>2. \A e \in Docs : req'[e] # None => e # d /\ req'[e] = req[e] /\ req[e] # None
  BY DEF IInv, TypeOK, Ended
<1>3. NumbersUnique'
  BY DEF IInv, NumbersUnique
<1>4. LocksHeld'
  <2> SUFFICES ASSUME NEW e \in Docs, req'[e] # None
               PROVE  lockOf'[RowOf(e)'] = e /\ docs'[e] = None
    BY DEF LocksHeld
  <2>1. e # d /\ req[e] # None /\ RowOf(e)' = RowOf(e)
    BY <1>2 DEF RowOf
  <2>2. lockOf[RowOf(e)] = e /\ docs[e] = None /\ lockOf[RowOf(d)] = d
    BY <2>1 DEF IInv, LocksHeld
  <2>3. RowOf(e) \in Shops /\ RowOf(d) \in Shops
    BY <2>1, ReqFields DEF IInv
  <2>4. QED
    BY <2>1, <2>2, <2>3 DEF IInv, TypeOK, Ended
<1>5. ChosenIsFree'
  BY <1>2 DEF IInv, ChosenIsFree, Taken
<1>6. SkippedIsTaken'
  BY <1>2 DEF IInv, SkippedIsTaken, Taken, RowOf
<1>7. QED
  BY <1>1, <1>3, <1>4, <1>5, <1>6 DEF IInv

LEMMA NextNumberInv ==
  ASSUME IInv, NEW d \in Docs, NEW s \in Scopes, NextNumber(d, s)
  PROVE  IInv'
<1> DEFINE row == seq[CountedBy(s)]
           new == [stage |-> "search", scope |-> s, prefix |-> row.prefix,
                   number |-> IF row.next = 0 THEN 1 ELSE row.next,
                   tries |-> 0, next |-> row.next + 1]
<1>1. CountedBy(s) \in Shops /\ row \in SeqRow
  BY ShopsAssumption DEF IInv, TypeOK, CountedBy, Scopes
<1>2. new \in Req
  BY <1>1, NumbersAssumption DEF Req, SeqRow
<1>3. /\ req' = [req EXCEPT ![d] = new]
      /\ lockOf' = [lockOf EXCEPT ![CountedBy(s)] = d]
      /\ lockOf[CountedBy(s)] = None /\ docs[d] = None
      /\ UNCHANGED <<docs, seq>>
  BY DEF NextNumber
<1>4. TypeOK'
  BY <1>1, <1>2, <1>3 DEF IInv, TypeOK
<1>5. req'[d] = new /\ \A e \in Docs : e # d => req'[e] = req[e]
  BY <1>3 DEF IInv, TypeOK
<1>6. NumbersUnique'
  BY <1>3 DEF IInv, NumbersUnique
<1>7. LocksHeld'
  <2> SUFFICES ASSUME NEW e \in Docs, req'[e] # None
               PROVE  lockOf'[RowOf(e)'] = e /\ docs'[e] = None
    BY DEF LocksHeld
  <2>1. CASE e = d
    BY <2>1, <1>1, <1>3, <1>5 DEF IInv, TypeOK, RowOf
  <2>2. CASE e # d
    <3>1. req[e] # None /\ RowOf(e)' = RowOf(e)
      BY <2>2, <1>5 DEF RowOf
    <3>2. lockOf[RowOf(e)] = e /\ docs[e] = None /\ RowOf(e) \in Shops
      BY <3>1, ReqFields DEF IInv, LocksHeld
    <3>3. RowOf(e) # CountedBy(s)
      BY <3>2, <1>3, NullAssumption
    <3>4. QED
      BY <3>1, <3>2, <3>3, <1>1, <1>3 DEF IInv, TypeOK
  <2>3. QED
    BY <2>1, <2>2
<1>8. ChosenIsFree'
  <2> SUFFICES ASSUME NEW e \in Docs, req'[e] # None, req'[e].stage = "insert"
               PROVE  ~Taken(req[e].scope, req[e].prefix, req[e].number)'
    BY DEF ChosenIsFree
  <2>1. e # d
    BY <1>5
  <2>2. QED
    BY <2>1, <1>3, <1>5 DEF IInv, ChosenIsFree, Taken
<1>9. SkippedIsTaken'
  <2> SUFFICES ASSUME NEW e \in Docs, req'[e] # None,
                      NEW k \in seq'[RowOf(e)'].next .. req'[e].number - 1, k # 0
               PROVE  Taken(req[e].scope, req[e].prefix, k)'
    BY DEF SkippedIsTaken
  <2>1. e # d
    <3> SUFFICES ASSUME e = d
                 PROVE  FALSE
      OBVIOUS
    <3>1. RowOf(e)' = CountedBy(s) /\ req'[e].number = IF row.next = 0 THEN 1 ELSE row.next
      BY <1>5 DEF RowOf
    <3>2. row.next \in Int /\ seq'[RowOf(e)'].next = row.next
      BY <3>1, <1>1, <1>3 DEF SeqRow
    <3>3. QED
      BY <3>1, <3>2
  <2>2. req[e] # None /\ RowOf(e)' = RowOf(e) /\ req'[e] = req[e]
    BY <2>1, <1>5 DEF RowOf
  <2>3. Taken(req[e].scope, req[e].prefix, k)
    BY <2>2, <1>3 DEF IInv, SkippedIsTaken
  <2>4. QED
    BY <2>2, <2>3, <1>3 DEF Taken
<1>10. QED
  BY <1>4, <1>6, <1>7, <1>8, <1>9 DEF IInv

LEMMA SkipInv ==
  ASSUME IInv, NEW d \in Docs, Skip(d)
  PROVE  IInv'
<1>1. /\ req[d] \in Req /\ RowOf(d) \in Shops /\ seq[RowOf(d)] \in SeqRow
      /\ req[d] # None
  BY ReqFields DEF IInv, Skip
<1>2. [req[d] EXCEPT !.number = @ + 1, !.tries = @ + 1] \in Req
  <2>1. req[d].number + 1 \in Int /\ req[d].tries + 1 \in 0 .. Tries
    BY <1>1, NumbersAssumption DEF Req, Skip
  <2>2. QED
    BY <1>1, <2>1 DEF Req
<1>3. TypeOK'
  BY <1>2 DEF IInv, TypeOK, Skip
<1>4. /\ \A e \in Docs : e # d => req'[e] = req[e]
      /\ req'[d] = [req[d] EXCEPT !.number = @ + 1, !.tries = @ + 1]
      /\ \A e \in Docs : RowOf(e)' = RowOf(e)
      /\ UNCHANGED <<docs, seq, lockOf>>
  BY <1>1 DEF IInv, TypeOK, Skip, RowOf, Req
<1>5. NumbersUnique' /\ LocksHeld'
  BY <1>1, <1>4 DEF IInv, NumbersUnique, LocksHeld
<1>6. ChosenIsFree'
  <2> SUFFICES ASSUME NEW e \in Docs, req'[e] # None, req'[e].stage = "insert"
               PROVE  ~Taken(req[e].scope, req[e].prefix, req[e].number)'
    BY DEF ChosenIsFree
  <2>1. e # d
    BY <1>1, <1>4 DEF Skip, Req
  <2>2. QED
    BY <2>1, <1>4 DEF IInv, ChosenIsFree, Taken
<1>7. SkippedIsTaken'
  <2> SUFFICES ASSUME NEW e \in Docs, req'[e] # None,
                      NEW k \in seq'[RowOf(e)'].next .. req'[e].number - 1, k # 0
               PROVE  Taken(req[e].scope, req[e].prefix, k)'
    BY DEF SkippedIsTaken
  <2>1. Taken(req'[e].scope, req'[e].prefix, k)
    <3>1. CASE e # d
      BY <3>1, <1>4 DEF IInv, SkippedIsTaken
    <3>2. CASE e = d
      <4>1. /\ req'[d].number = req[d].number + 1 /\ req[d].number \in Int
            /\ req'[d].scope = req[d].scope /\ req'[d].prefix = req[d].prefix
            /\ seq'[RowOf(e)'].next = seq[RowOf(d)].next /\ seq[RowOf(d)].next \in Int
        BY <3>2, <1>1, <1>4 DEF Req, SeqRow
      <4>2. k \in Int /\ (k \in seq[RowOf(d)].next .. req[d].number - 1 \/ k = req[d].number)
        BY <3>2, <4>1
      <4>3. CASE k = req[d].number
        BY <3>2, <4>1, <4>3 DEF Skip
      <4>4. CASE k \in seq[RowOf(d)].next .. req[d].number - 1
        BY <3>2, <4>1, <4>4, <1>1 DEF IInv, SkippedIsTaken
      <4>5. QED
        BY <4>2, <4>3, <4>4
    <3>3. QED
      BY <3>1, <3>2
  <2>2. QED
    BY <2>1, <1>4 DEF Taken
<1>8. QED
  BY <1>3, <1>5, <1>6, <1>7 DEF IInv

LEMMA AllocateInv ==
  ASSUME IInv, NEW d \in Docs, Allocate(d)
  PROVE  IInv'
<1> DEFINE ahead == IF req[d].number + 1 > req[d].next THEN req[d].number + 1
                    ELSE req[d].next
<1>1. /\ req[d] \in Req /\ req[d] # None
  BY ReqFields DEF IInv, Allocate
<1>2. [req[d] EXCEPT !.stage = "insert", !.next = ahead] \in Req
  <2>1. ahead \in Int
    BY <1>1 DEF Req
  <2>2. QED
    BY <1>1, <2>1 DEF Req
<1>3. TypeOK'
  BY <1>2 DEF IInv, TypeOK, Allocate
<1>4. /\ \A e \in Docs : e # d => req'[e] = req[e]
      /\ req'[d] = [req[d] EXCEPT !.stage = "insert", !.next = ahead]
      /\ UNCHANGED <<docs, seq, lockOf>>
  BY DEF IInv, TypeOK, Allocate
<1>5. \A e \in Docs : /\ RowOf(e)' = RowOf(e)
                      /\ req'[e] # None => /\ req[e] # None
                                           /\ req'[e].scope = req[e].scope
                                           /\ req'[e].prefix = req[e].prefix
                                           /\ req'[e].number = req[e].number
  BY <1>1, <1>4 DEF RowOf, Req
<1>6. NumbersUnique' /\ LocksHeld'
  BY <1>4, <1>5 DEF IInv, NumbersUnique, LocksHeld
<1>7. ChosenIsFree'
  <2> SUFFICES ASSUME NEW e \in Docs, req'[e] # None, req'[e].stage = "insert"
               PROVE  ~Taken(req[e].scope, req[e].prefix, req[e].number)'
    BY DEF ChosenIsFree
  <2>1. ~Taken(req[e].scope, req[e].prefix, req[e].number)
    BY <1>4, <1>5 DEF IInv, ChosenIsFree, Allocate
  <2>2. QED
    BY <2>1, <1>4, <1>5 DEF Taken
<1>8. SkippedIsTaken'
  BY <1>4, <1>5 DEF IInv, SkippedIsTaken, Taken
<1>9. QED
  BY <1>3, <1>6, <1>7, <1>8 DEF IInv

LEMMA CommitInv ==
  ASSUME IInv, NEW d \in Docs, Commit(d)
  PROVE  IInv'
<1> DEFINE new == [scope |-> req[d].scope, prefix |-> req[d].prefix,
                   number |-> req[d].number, deleted |-> FALSE]
<1>1. /\ req[d] \in Req /\ RowOf(d) \in Shops /\ seq[RowOf(d)] \in SeqRow
      /\ req[d] # None /\ docs[d] = None /\ lockOf[RowOf(d)] = d
      /\ ~Taken(req[d].scope, req[d].prefix, req[d].number)
  BY ReqFields DEF IInv, Commit, LocksHeld, ChosenIsFree
<1>2. new \in Doc
  BY <1>1 DEF Req, Doc
<1>3. /\ docs' = [docs EXCEPT ![d] = new]
      /\ seq' = [seq EXCEPT ![RowOf(d)].next = req[d].next]
      /\ Ended(d)
  BY DEF Commit
<1>4. TypeOK'
  <2>1. [seq[RowOf(d)] EXCEPT !.next = req[d].next] \in SeqRow
    BY <1>1 DEF Req, SeqRow
  <2>2. QED
    BY <1>1, <1>2, <1>3, <2>1 DEF IInv, TypeOK, Ended
<1>5. docs'[d] = new /\ \A e \in Docs : e # d => docs'[e] = docs[e]
  BY <1>3 DEF IInv, TypeOK
<1>6. NumbersUnique'
  <2> SUFFICES ASSUME NEW e \in Docs, NEW f \in Docs,
                      docs'[e] # None, docs'[f] # None,
                      docs'[e].scope = docs'[f].scope,
                      docs'[e].prefix = docs'[f].prefix,
                      docs'[e].number = docs'[f].number
               PROVE  e = f
    BY DEF NumbersUnique
  <2>1. CASE e # d /\ f # d
    BY <2>1, <1>5 DEF IInv, NumbersUnique
  <2>2. CASE e = d /\ f # d
    BY <2>2, <1>1, <1>5 DEF Taken
  <2>3. CASE f = d /\ e # d
    BY <2>3, <1>1, <1>5 DEF Taken
  <2>4. QED
    BY <2>1, <2>2, <2>3
<1>7. \A e \in Docs : req'[e] # None =>
        /\ e # d /\ req'[e] = req[e] /\ req[e] # None /\ RowOf(e)' = RowOf(e)
        /\ RowOf(e) \in Shops /\ RowOf(e) # RowOf(d)
        /\ lockOf[RowOf(e)] = e /\ docs[e] = None
        /\ seq'[RowOf(e)] = seq[RowOf(e)] /\ lockOf'[RowOf(e)] = lockOf[RowOf(e)]
  <2> TAKE e \in Docs
  <2> HAVE req'[e] # None
  <2>1. e # d /\ req'[e] = req[e] /\ req[e] # None /\ RowOf(e)' = RowOf(e)
    BY <1>3 DEF IInv, TypeOK, Ended, RowOf
  <2>2. RowOf(e) \in Shops /\ lockOf[RowOf(e)] = e /\ docs[e] = None
    BY <2>1, ReqFields DEF IInv, LocksHeld
  <2>3. RowOf(e) # RowOf(d)
    BY <2>1, <2>2, <1>1
  <2>4. QED
    BY <2>1, <2>2, <2>3, <1>1, <1>3 DEF IInv, TypeOK, Ended
<1>8. LocksHeld'
  BY <1>5, <1>7 DEF LocksHeld
<1>9. ChosenIsFree'
  <2> SUFFICES ASSUME NEW e \in Docs, req'[e] # None, req'[e].stage = "insert",
                      Taken(req[e].scope, req[e].prefix, req[e].number)'
               PROVE  FALSE
    BY DEF ChosenIsFree
  <2>1. ~Taken(req[e].scope, req[e].prefix, req[e].number)
    BY <1>7 DEF IInv, ChosenIsFree
  <2>2. req[e].scope = req[d].scope
    BY <2>1, <1>5, <1>7 DEF Taken
  <2>3. QED
    BY <2>2, <1>7 DEF RowOf
<1>10. SkippedIsTaken'
  <2> SUFFICES ASSUME NEW e \in Docs, req'[e] # None,
                      NEW k \in seq'[RowOf(e)'].next .. req'[e].number - 1, k # 0
               PROVE  Taken(req[e].scope, req[e].prefix, k)'
    BY DEF SkippedIsTaken
  <2>1. Taken(req[e].scope, req[e].prefix, k)
    BY <1>7 DEF IInv, SkippedIsTaken
  <2>2. QED
    BY <2>1, <1>1, <1>5, <1>7 DEF Taken
<1>11. QED
  BY <1>4, <1>6, <1>8, <1>9, <1>10 DEF IInv

(* To the recycle bin and back: the number stays with the document.        *)
LEMMA BinInv ==
  ASSUME IInv, NEW d \in Docs, Delete(d) \/ Restore(d)
  PROVE  IInv'
<1>1. PICK b \in BOOLEAN : docs' = [docs EXCEPT ![d].deleted = b]
  BY DEF Delete, Restore
<1>2. docs[d] # None /\ docs[d] \in Doc /\ UNCHANGED <<seq, lockOf, req>>
  BY DEF Delete, Restore, IInv, TypeOK
<1>3. [docs[d] EXCEPT !.deleted = b] \in Doc
  BY <1>2 DEF Doc
<1>4. TypeOK'
  BY <1>1, <1>2, <1>3 DEF IInv, TypeOK
<1>5. /\ docs'[d] = [docs[d] EXCEPT !.deleted = b]
      /\ \A e \in Docs : e # d => docs'[e] = docs[e]
  BY <1>1 DEF IInv, TypeOK
<1>6. \A e \in Docs : /\ docs'[e] = None <=> docs[e] = None
                      /\ docs[e] # None => /\ docs'[e].scope = docs[e].scope
                                           /\ docs'[e].prefix = docs[e].prefix
                                           /\ docs'[e].number = docs[e].number
  BY <1>2, <1>3, <1>5, NullAssumption DEF Doc
<1>7. \A s, p, n : Taken(s, p, n)' <=> Taken(s, p, n)
  BY <1>6 DEF Taken
<1>8. NumbersUnique' /\ LocksHeld'
  BY <1>2, <1>6 DEF IInv, NumbersUnique, LocksHeld, RowOf
<1>9. ChosenIsFree' /\ SkippedIsTaken'
  BY <1>2, <1>7 DEF IInv, ChosenIsFree, SkippedIsTaken, RowOf
<1>10. QED
  BY <1>4, <1>8, <1>9 DEF IInv

(* The settings wait for the row, so that no request has read it.          *)
LEMMA UpdateInv ==
  ASSUME IInv, NEW s \in Shops, NEW p \in Prefixes, NEW n \in Int,
         UpdateTxnNumbering(s, p, n)
  PROVE  IInv'
<1>1. lockOf[s] = None /\ UNCHANGED <<docs, lockOf, req>>
  BY DEF UpdateTxnNumbering
<1>2. TypeOK'
  BY DEF IInv, TypeOK, UpdateTxnNumbering, SeqRow
<1>3. NumbersUnique' /\ LocksHeld' /\ ChosenIsFree'
  BY <1>1 DEF IInv, NumbersUnique, LocksHeld, ChosenIsFree, Taken, RowOf
<1>4. \A e \in Docs : req[e] # None => seq'[RowOf(e)] = seq[RowOf(e)]
  <2> TAKE e \in Docs
  <2> HAVE req[e] # None
  <2>1. lockOf[RowOf(e)] = e /\ RowOf(e) \in Shops
    BY ReqFields DEF IInv, LocksHeld
  <2>2. RowOf(e) # s
    BY <2>1, <1>1, NullAssumption
  <2>3. QED
    BY <2>1, <2>2 DEF IInv, TypeOK, UpdateTxnNumbering
<1>5. SkippedIsTaken'
  BY <1>1, <1>4 DEF IInv, SkippedIsTaken, Taken, RowOf
<1>6. QED
  BY <1>2, <1>3, <1>5 DEF IInv

LEMMA InitInv == Init => IInv
<1> SUFFICES ASSUME Init PROVE IInv
  OBVIOUS
<1>1. TypeOK
  <2>1. docs \in [Docs -> Doc \cup {None}]
    BY NumbersAssumption DEF Init, Doc
  <2>2. seq \in [Shops -> SeqRow]
    BY DEF Init, SeqRow
  <2>3. QED
    BY <2>1, <2>2 DEF Init, TypeOK
<1>2. LocksHeld /\ ChosenIsFree /\ SkippedIsTaken
  BY DEF Init, LocksHeld, ChosenIsFree, SkippedIsTaken
<1>3. QED
  BY <1>1, <1>2 DEF Init, IInv

LEMMA NextInv ==
  ASSUME IInv, [Next]_vars
  PROVE  IInv'
<1>1. CASE Next
  <2>1. CASE \E d \in Docs : Create(d)
    BY <2>1, NextNumberInv, SkipInv, AllocateInv, CommitInv, EndedInv
       DEF Create, GiveUp, RollBack
  <2>2. CASE \E d \in Docs : Delete(d) \/ Restore(d)
    BY <2>2, BinInv
  <2>3. CASE \E s \in Shops, p \in Prefixes, n \in Int : UpdateTxnNumbering(s, p, n)
    BY <2>3, UpdateInv
  <2>4. \A s \in Shops : Settable \cup {seq[s].next} \subseteq Int
    BY NumbersAssumption DEF IInv, TypeOK, SeqRow
  <2>5. QED
    BY <1>1, <2>1, <2>2, <2>3, <2>4 DEF Next
<1>2. CASE UNCHANGED vars
  BY <1>2 DEF vars, IInv, TypeOK, NumbersUnique, LocksHeld, ChosenIsFree, SkippedIsTaken,
     Taken, RowOf
<1>3. QED
  BY <1>1, <1>2

(* The lock of a shop's row protects what a request found out about the    *)
(* numbers, however often the counter is set by hand.                      *)
THEOREM Safety == Spec => []IInv
<1>1. IInv /\ [Next]_vars => IInv'
  BY NextInv
<1>2. QED
  BY InitInv, <1>1, PTL DEF Spec

(* Two documents of a shop, or of none, never share a number, and the      *)
(* unique index never refuses one (nextNumber).                            *)
THEOREM Unique == Spec => []NumbersUnique
<1>1. IInv => NumbersUnique
  BY DEF IInv
<1>2. QED
  BY Safety, <1>1, PTL

LEMMA CommitNoGap ==
  ASSUME IInv, [Next]_vars, NEW d \in Docs, docs[d] = None, docs'[d] # None,
         NEW k \in seq[CountedBy(docs'[d].scope)].next .. docs'[d].number - 1, k # 0
  PROVE  Taken(docs'[d].scope, docs'[d].prefix, k)
<1>1. Commit(d)
  <2>1. PICK e \in Docs : Create(e) \/ Delete(e) \/ Restore(e)
    BY DEF Next, vars, UpdateTxnNumbering
  <2>2. Commit(e) \/ Delete(e) \/ Restore(e)
    BY <2>1 DEF Create, NextNumber, Skip, GiveUp, Allocate, RollBack
  <2>3. e = d
    BY <2>2 DEF IInv, TypeOK, Commit, Delete, Restore
  <2>4. QED
    BY <2>2, <2>3 DEF Delete, Restore
<1>2. /\ docs'[d].scope = req[d].scope
      /\ docs'[d].prefix = req[d].prefix
      /\ docs'[d].number = req[d].number
      /\ req[d] # None
  BY <1>1 DEF IInv, TypeOK, Commit
<1>3. QED
  BY <1>2 DEF IInv, SkippedIsTaken, RowOf

(* A new document passes over no number that is free (nextNumber).         *)
THEOREM Consecutive == Spec => NoGaps
<1>1. IInv /\ [Next]_vars =>
        [\A d \in Docs : docs[d] = None /\ docs'[d] # None =>
           \A k \in seq[CountedBy(docs'[d].scope)].next .. docs'[d].number - 1 :
               k # 0 => Taken(docs'[d].scope, docs'[d].prefix, k)]_vars
  BY CommitNoGap
<1>2. QED
  BY Safety, <1>1, PTL DEF Spec, NoGaps
=============================================================================

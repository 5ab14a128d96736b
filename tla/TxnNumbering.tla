---------------------------- MODULE TxnNumbering ----------------------------
(***************************************************************************)
(* The numbers of the documents of one type: nextNumber as createTxn calls *)
(* it inside its transaction, and updateTxnNumbering of the settings.      *)
(*                                                                         *)
(* Each shop has a row with a prefix and a counter.  Its upsert locks the  *)
(* row until the transaction ends, so that the creators of a shop's        *)
(* documents follow one another; the counter itself cannot be trusted, it  *)
(* is set by hand and may be behind imported documents.  A document of no  *)
(* shop is counted by the default shop and compared with its like only.    *)
(*                                                                         *)
(* Abstractions: "INV-007" is the pair of prefix and 7, which the format   *)
(* keeps apart.  The unique index on shop, type and number, which does not *)
(* cover documents of no shop, is left out: NumbersUnique says that it is  *)
(* never needed.                                                           *)
(***************************************************************************)
EXTENDS Integers

CONSTANTS
    None,
    Docs,           \* documents, each created by a request of its own
    Shops,
    DefaultShop,
    Prefixes,
    Imported,       \* numbers of documents that were there before
    Settable,       \* what a user enters as the next number
    Tries           \* numbers tried before giving up (5000)

Scopes == Shops \cup {None}

ASSUME ShopsAssumption == DefaultShop \in Shops /\ None \notin Shops
ASSUME NumbersAssumption ==
    Imported \subseteq Int /\ Settable \subseteq Int /\ Tries \in Nat \ {0}

Doc == [scope : Scopes, prefix : Prefixes, number : Int, deleted : BOOLEAN]

SeqRow == [prefix : Prefixes, next : Int]

Req == [stage : {"search", "insert"}, scope : Scopes, prefix : Prefixes,
        number : Int, tries : 0 .. Tries, next : Int]

ASSUME NullAssumption == None \notin Docs \cup Doc \cup Req

VARIABLES
    docs,           \* documents committed, with their number
    seq,            \* rows of txnNumberSequence, as committed
    lockOf,         \* the request that holds the lock of a row
    req             \* requests between the upsert and the commit

vars == <<docs, seq, lockOf, req>>

-----------------------------------------------------------------------------
(* Helpers.                                                                *)

(* "branchId ?? default branch" *)
CountedBy(s) == IF s = None THEN DefaultShop ELSE s

(* Fault: only documents outside of the recycle bin are looked at. *)
TakenAlive(s, p, n) ==
    \E d \in Docs : /\ docs[d] # None
                    /\ docs[d].scope = s /\ docs[d].prefix = p /\ docs[d].number = n
                    /\ ~docs[d].deleted

(* The recycle bin is searched, too: its documents may be restored. *)
Taken(s, p, n) ==
    \E d \in Docs : /\ docs[d] # None
                    /\ docs[d].scope = s /\ docs[d].prefix = p /\ docs[d].number = n

RowOf(d) == CountedBy(req[d].scope)

(* The end of a transaction, whatever the end. *)
Ended(d) ==
    /\ req' = [req EXCEPT ![d] = None]
    /\ lockOf' = [lockOf EXCEPT ![RowOf(d)] = None]

-----------------------------------------------------------------------------
(* Creating a document.                                                    *)

(* Fault: the row is read and not locked. *)
NextNumberUnlocked(d, s) ==
    /\ docs[d] = None
    /\ req[d] = None
    /\ LET row == seq[CountedBy(s)] IN
       req' = [req EXCEPT ![d] =
                 [stage |-> "search", scope |-> s, prefix |-> row.prefix,
                  number |-> IF row.next = 0 THEN 1 ELSE row.next,
                  tries |-> 0, next |-> row.next + 1]]
    /\ UNCHANGED <<docs, seq, lockOf>>

(* The upsert: it waits for the row, locks and increments it. *)
NextNumber(d, s) ==
    /\ docs[d] = None
    /\ req[d] = None
    /\ lockOf[CountedBy(s)] = None
    /\ lockOf' = [lockOf EXCEPT ![CountedBy(s)] = d]
    /\ LET row == seq[CountedBy(s)] IN
       req' = [req EXCEPT ![d] =
                 [stage |-> "search", scope |-> s, prefix |-> row.prefix,
                  number |-> IF row.next = 0 THEN 1 ELSE row.next,
                  tries |-> 0, next |-> row.next + 1]]
    /\ UNCHANGED <<docs, seq>>

(* Fault: after a clash the search goes on behind the counter. *)
SkipTwo(d) ==
    /\ req[d] # None /\ req[d].stage = "search"
    /\ Taken(req[d].scope, req[d].prefix, req[d].number)
    /\ req[d].tries + 1 < Tries
    /\ req' = [req EXCEPT ![d].number = @ + 2, ![d].tries = @ + 1]
    /\ UNCHANGED <<docs, seq, lockOf>>

(* "Skip any taken number" *)
Skip(d) ==
    /\ req[d] # None /\ req[d].stage = "search"
    /\ Taken(req[d].scope, req[d].prefix, req[d].number)
    /\ req[d].tries + 1 < Tries
    /\ req' = [req EXCEPT ![d].number = @ + 1, ![d].tries = @ + 1]
    /\ UNCHANGED <<docs, seq, lockOf>>

(* "Could not allocate a transaction number" *)
GiveUp(d) ==
    /\ req[d] # None /\ req[d].stage = "search"
    /\ Taken(req[d].scope, req[d].prefix, req[d].number)
    /\ req[d].tries + 1 = Tries
    /\ Ended(d)
    /\ UNCHANGED <<docs, seq>>

(* "and persist the counter ahead so the sequence self-heals" *)
Allocate(d) ==
    /\ req[d] # None /\ req[d].stage = "search"
    /\ ~Taken(req[d].scope, req[d].prefix, req[d].number)
    /\ req' = [req EXCEPT ![d].stage = "insert",
                          ![d].next = IF req[d].number + 1 > @ THEN req[d].number + 1 ELSE @]
    /\ UNCHANGED <<docs, seq, lockOf>>

(* createTxn inserts the document and commits. *)
Commit(d) ==
    /\ req[d] # None /\ req[d].stage = "insert"
    /\ docs' = [docs EXCEPT ![d] = [scope |-> req[d].scope, prefix |-> req[d].prefix,
                                    number |-> req[d].number, deleted |-> FALSE]]
    /\ seq' = [seq EXCEPT ![RowOf(d)].next = req[d].next]
    /\ Ended(d)

(* The posting is refused, a query fails, the server goes down. *)
RollBack(d) ==
    /\ req[d] # None
    /\ Ended(d)
    /\ UNCHANGED <<docs, seq>>

-----------------------------------------------------------------------------
(* What else moves documents and counters.                                 *)

(* To the recycle bin and back. *)
Delete(d) ==
    /\ docs[d] # None /\ ~docs[d].deleted
    /\ docs' = [docs EXCEPT ![d].deleted = TRUE]
    /\ UNCHANGED <<seq, lockOf, req>>

Restore(d) ==
    /\ docs[d] # None /\ docs[d].deleted
    /\ docs' = [docs EXCEPT ![d].deleted = FALSE]
    /\ UNCHANGED <<seq, lockOf, req>>

(* Prefix and next number are entered by hand.  The settings page sends    *)
(* with a new prefix the next number it loaded, which may be an old one.   *)
UpdateTxnNumbering(s, p, n) ==
    /\ lockOf[s] = None
    /\ seq' = [seq EXCEPT ![s] = [prefix |-> p, next |-> n]]
    /\ UNCHANGED <<docs, lockOf, req>>

-----------------------------------------------------------------------------
(* Properties.                                                             *)

TypeOK ==
    /\ docs \in [Docs -> Doc \cup {None}]
    /\ seq \in [Shops -> SeqRow]
    /\ lockOf \in [Shops -> Docs \cup {None}]
    /\ req \in [Docs -> Req \cup {None}]

(* "(seeded/imported data, a reset sequence, or a restored backup) ...     *)
(* which otherwise throws a unique-constraint error": whatever the counter *)
(* says, two documents of a shop, or of none, never share a number.        *)
NumbersUnique ==
    \A d, e \in Docs :
        /\ docs[d] # None /\ docs[e] # None
        /\ docs[d].scope = docs[e].scope
        /\ docs[d].prefix = docs[e].prefix
        /\ docs[d].number = docs[e].number
        => d = e

(* Numbers are consecutive: a new document leaves no number behind, from   *)
(* the counter on, that is not in use (nextNumber; it never gives out 0    *)
(* when the counter stands there).                                         *)
NoGaps ==
    [][\A d \in Docs : docs[d] = None /\ docs'[d] # None =>
         \A k \in seq[CountedBy(docs'[d].scope)].next .. docs'[d].number - 1 :
             k # 0 => Taken(docs'[d].scope, docs'[d].prefix, k)]_vars

(* A request holds the lock of its row to the end. *)
LocksHeld == \A d \in Docs : req[d] # None => lockOf[RowOf(d)] = d /\ docs[d] = None

(* So the number it found free stays free. *)
ChosenIsFree ==
    \A d \in Docs : req[d] # None /\ req[d].stage = "insert" =>
        ~Taken(req[d].scope, req[d].prefix, req[d].number)

(* What it passed over is in use. *)
SkippedIsTaken ==
    \A d \in Docs : req[d] # None =>
        \A k \in seq[RowOf(d)].next .. req[d].number - 1 :
            k # 0 => Taken(req[d].scope, req[d].prefix, k)

IInv == TypeOK /\ NumbersUnique /\ LocksHeld /\ ChosenIsFree /\ SkippedIsTaken

-----------------------------------------------------------------------------
Init ==
    /\ docs \in [Docs -> [scope : Scopes, prefix : Prefixes, number : Imported,
                          deleted : {FALSE}] \cup {None}]
    /\ NumbersUnique
    /\ \E p \in Prefixes : seq = [s \in Shops |-> [prefix |-> p, next |-> 1]]
    /\ lockOf = [s \in Shops |-> None]
    /\ req = [d \in Docs |-> None]

Create(d) ==
    \/ \E s \in Scopes : NextNumber(d, s)
    \/ Skip(d)
    \/ GiveUp(d)
    \/ Allocate(d)
    \/ Commit(d)
    \/ RollBack(d)

Next ==
    \/ \E d \in Docs : Create(d) \/ Delete(d) \/ Restore(d)
    \/ \E s \in Shops, p \in Prefixes :
         \E n \in Settable \cup {seq[s].next} : UpdateTxnNumbering(s, p, n)

Spec == Init /\ [][Next]_vars
=============================================================================

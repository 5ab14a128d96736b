------------------------------- MODULE Books -------------------------------
(***************************************************************************)
(* What the transaction engine promises of one running total: the stock    *)
(* of an item, its stock level in a shop, the balance of a party or of a   *)
(* money account.                                                          *)
(*                                                                         *)
(* Every document holds one entry in the book, which says what the         *)
(* document adds to each total while it is in force (nothing, while it is  *)
(* held or in the recycle bin).  A step changes the entry of one document  *)
(* and moves each total by exactly the change of that entry.  It follows   *)
(* that a total is always its opening value plus the entries in force.     *)
(* The book of a key can be spoilt: then its total is no more kept, and    *)
(* never again.                                                            *)
(* TxnCore implements this specification four times, once per book.        *)
(***************************************************************************)
EXTENDS Integers

CONSTANTS
    Docs,       \* the documents that can hold an entry
    Keys,       \* what the book keeps a total of
    Opening     \* the totals before the first document

VARIABLES
    total,      \* the running total of each key
    entry,      \* what each document adds to each total
    kept        \* the keys whose book is not spoilt

vars == <<total, entry, kept>>

TypeOK ==
    /\ total \in [Keys -> Int]
    /\ entry \in [Docs -> [Keys -> Int]]
    /\ kept \subseteq Keys

Init ==
    /\ total = Opening
    /\ entry = [d \in Docs |-> [k \in Keys |-> 0]]
    /\ kept = Keys

(* The entry of d is replaced and the totals that are kept follow it. *)
Move(d) ==
    /\ entry'[d] \in [Keys -> Int]
    /\ entry' = [entry EXCEPT ![d] = entry'[d]]
    /\ total' \in [Keys -> Int]
    /\ kept' \subseteq kept
    /\ \A k \in kept' : total'[k] = total[k] - entry[d][k] + entry'[d][k]

Next == \E d \in Docs : Move(d)

Spec == Init /\ [][Next]_vars
=============================================================================

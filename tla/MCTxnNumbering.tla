--------------------------- MODULE MCTxnNumbering ---------------------------
(* Requests are interchangeable, and so are the prefixes. *)
EXTENDS TxnNumbering, TLC

Symmetry == Permutations(Docs) \cup Permutations(Prefixes)
=============================================================================

----------------------------- MODULE MCCheckout -----------------------------
(* Small instances of Checkout. *)
EXTENDS Checkout, TLC

CONSTANTS k1, k2, l1, l2, h1, h2

Symmetry == Permutations(Keys) \cup Permutations(Loops) \cup Permutations(Handlers)
=============================================================================

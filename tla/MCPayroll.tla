----------------------------- MODULE MCPayroll -----------------------------
(* A small instance of Payroll.                                            *)
EXTENDS Payroll, TLC

CONSTANTS e1, e2, b1, b2, m1, m2, jan, feb, c1, c2

Symmetry ==
    Permutations(Clients) \cup Permutations(Branches) \cup Permutations(Periods)
        \cup Permutations(Months) \cup Permutations(Employees)
=============================================================================

----------------------------- MODULE TxnProofs -----------------------------
(***************************************************************************)
(* The proofs about TxnCore and its reports, for every value of the        *)
(* constants, in two parts.                                                *)
(*                                                                         *)
(* The books: TxnCore implements Books.  The stock of items, the stock     *)
(* levels of the shops, the balances of the parties and the money accounts *)
(* follow the documents in force.  First come the values of the rows and   *)
(* the part of the invariant that needs no arithmetic, by which the steps  *)
(* of TxnCore are sorted into postings, reversals and rests (BookStep).    *)
(* Then each of them is shown to move a book by the change of one entry,   *)
(* and the totals to be sums of the entries in force.  Between the two is  *)
(* the inductive invariant: rows that follow their requests, paid amounts, *)
(* orders received, and the accounts payments went to.                     *)
(*                                                                         *)
(* The reports: what they say agrees (the properties of TxnReports).  A    *)
(* report is a sum over some of the documents.  There it becomes a sum     *)
(* over all of them, a column that has 0 where a document does not count;  *)
(* then two reports agree when their columns do, document by document.     *)
(* The running balances are such sums by TotalsAddUp and BalancesAddUp.    *)
(***************************************************************************)
EXTENDS TxnReports, FiniteSetTheorems, TLAPS

(***************************************************************************)
(* Sums over finite sets: SumFunctionOnSet of the community module         *)
(* Functions.  The fold under a sum is a recursive function on the subsets *)
(* of the set.  That it exists and what it returns is proved from the      *)
(* well-founded order of the finite subsets: a set of subsets stands for   *)
(* the induction hypothesis (FiniteSubsetInduction), so that no operator   *)
(* parameter has to be instantiated.                                       *)
(***************************************************************************)

LEMMA FiniteSubsetInduction ==
    ASSUME NEW S, IsFiniteSet(S), NEW G, {} \in G,
           ASSUME NEW T \in SUBSET S, T # {}, \A x \in T : T \ {x} \in G
           PROVE  T \in G
    PROVE  \A T \in SUBSET S : T \in G
<1> DEFINE B == {T \in SUBSET S : T \notin G}
<1>1. SUFFICES ASSUME B # {} PROVE FALSE
  OBVIOUS
<1>2. IsWellFoundedOn(StrictSubsetOrdering(S), SUBSET S)
  BY FS_StrictSubsetOrderingWellFounded, FS_FiniteSubsetsOfFinite
<1>3. PICK T \in B : \A U \in B : ~ (<<U, T>> \in StrictSubsetOrdering(S))
  <2>1. B \subseteq SUBSET S
    OBVIOUS
  <2> HIDE DEF B
  <2> QED
    BY <1>1, <1>2, <2>1, WFMin
<1>4. ASSUME NEW x \in T
      PROVE  T \ {x} \in G
  <2> DEFINE U == T \ {x}
  <2>1. <<U, T>> \in (SUBSET S) \X (SUBSET S) /\ U \subseteq T /\ U # T
    OBVIOUS
  <2> HIDE DEF U
  <2>2. <<U, T>> \in StrictSubsetOrdering(S)
    BY <2>1 DEF StrictSubsetOrdering
  <2>3. U \notin B /\ U \in SUBSET S
    BY <1>3, <2>1, <2>2
  <2> QED
    BY <2>3 DEF U
<1>5. T # {}
  OBVIOUS
<1> QED
  BY <1>4, <1>5

Chosen(s) == CHOOSE x \in s : TRUE

Unfolded(f, g, s) == IF s = {} THEN 0 ELSE f[Chosen(s)] + g[s \ {Chosen(s)}]

Sums(f, g, S) == g = [s \in SUBSET S |-> Unfolded(f, g, s)]

LEMMA SumIsChosen ==
    ASSUME NEW f, NEW S
    PROVE  SumFunctionOnSet(f, S) = (CHOOSE g : Sums(f, g, S))[S]
BY DEF SumFunctionOnSet, FoldFunctionOnSet, MapThenFoldSet, Sums, Unfolded, Chosen

(* Two such functions agree wherever both are defined. *)
LEMMA SumsAgree ==
    ASSUME NEW f, NEW g, NEW h, NEW A, NEW C, Sums(f, g, A), Sums(f, h, C),
           NEW S, IsFiniteSet(S), S \in SUBSET A, S \in SUBSET C
    PROVE  g[S] = h[S]
<1> DEFINE G == {T \in SUBSET S : g[T] = h[T]}
<1>1. ASSUME NEW T \in SUBSET S
      PROVE  g[T] = Unfolded(f, g, T) /\ h[T] = Unfolded(f, h, T)
  BY DEF Sums
<1>2. {} \in G
  BY <1>1 DEF Unfolded
<1>3. ASSUME NEW T \in SUBSET S, T # {}, \A x \in T : T \ {x} \in G
      PROVE  T \in G
  <2>1. Chosen(T) \in T
    BY <1>3 DEF Chosen
  <2>2. g[T \ {Chosen(T)}] = h[T \ {Chosen(T)}]
    BY <1>3, <2>1
  <2> QED
    BY <1>1, <1>3, <2>2 DEF Unfolded
<1> HIDE DEF G
<1>4. \A T \in SUBSET S : T \in G
  BY <1>2, <1>3, FiniteSubsetInduction
<1> QED
  BY <1>4 DEF G

LEMMA SumsExists ==
    ASSUME NEW f, NEW S, IsFiniteSet(S)
    PROVE  \E g : Sums(f, g, S)
<1> DEFINE G == {T \in SUBSET S : \A U \in SUBSET T : \E g : Sums(f, g, U)}
           Of(U) == CHOOSE g : Sums(f, g, U)
<1>1. {} \in G
  <2>1. Sums(f, [s \in SUBSET {} |-> 0], {})
    BY DEF Sums, Unfolded
  <2> QED
    BY <2>1
<1>2. ASSUME NEW T \in SUBSET S, T # {}, \A x \in T : T \ {x} \in G
      PROVE  T \in G
  <2> DEFINE v(U) == IF U = T THEN f[Chosen(T)] + Of(T \ {Chosen(T)})[T \ {Chosen(T)}]
                     ELSE Of(U)[U]
             h == [U \in SUBSET T |-> v(U)]
  <2>1. ASSUME NEW U \in SUBSET T, U # T
        PROVE  Sums(f, Of(U), U)
    <3>1. PICK x \in T : x \notin U
      BY <2>1
    <3>2. T \ {x} \in G /\ U \in SUBSET (T \ {x})
      BY <1>2, <3>1
    <3>3. \E g : Sums(f, g, U)
      BY <3>2
    <3> QED
      BY <3>3
  <2> HIDE DEF Of
  <2>2. ASSUME NEW U \in SUBSET T
        PROVE  v(U) = Unfolded(f, h, U)
    <3>1. CASE U = {}
      <4>1. Of(U)[U] = Unfolded(f, Of(U), U)
        BY <1>2, <2>1, <3>1 DEF Sums
      <4> QED
        BY <1>2, <3>1, <4>1 DEF Unfolded
    <3>2. CASE U # {}
      <4> DEFINE P == U \ {Chosen(U)}
      <4>1. Chosen(U) \in U
        BY <3>2 DEF Chosen
      <4>2. P \in SUBSET T /\ P # T /\ P \in SUBSET U /\ IsFiniteSet(P)
        BY <4>1, FS_Subset
      <4> HIDE DEF P
      <4>3. h[P] = Of(P)[P]
        BY <4>2
      <4>4. CASE U = T
        BY <3>2, <4>3, <4>4 DEF Unfolded, P
      <4>5. CASE U # T
        <5>1. Sums(f, Of(U), U) /\ Sums(f, Of(P), P)
          BY <2>1, <4>2, <4>5
        <5>2. Of(U)[P] = Of(P)[P]
          BY <4>2, <5>1, SumsAgree
        <5>3. Of(U)[U] = f[Chosen(U)] + Of(U)[P]
          BY <3>2, <5>1 DEF Sums, Unfolded, P
        <5> QED
          BY <3>2, <4>3, <4>5, <5>2, <5>3 DEF Unfolded, P
      <4> QED
        BY <4>4, <4>5
    <3> QED
      BY <3>1, <3>2
  <2> HIDE DEF v
  <2>3. Sums(f, h, T)
    BY <2>2 DEF Sums
  <2>4. \A U \in SUBSET T : U # T => \E g : Sums(f, g, U)
    BY <2>1
  <2> QED
    BY <2>3, <2>4
<1> HIDE DEF G
<1>3. \A T \in SUBSET S : T \in G
  BY <1>1, <1>2, FiniteSubsetInduction
<1>4. S \in G
  BY <1>3
<1> QED
  BY <1>4 DEF G

LEMMA SumEmpty ==
    ASSUME NEW f
    PROVE  SumFunctionOnSet(f, {}) = 0
<1>1. Sums(f, CHOOSE g : Sums(f, g, {}), {})
  BY SumsExists, FS_EmptySet
<1> QED
  BY <1>1, SumIsChosen DEF Sums, Unfolded

LEMMA SumUnfolds ==
    ASSUME NEW f, NEW S, IsFiniteSet(S), S # {}
    PROVE  /\ Chosen(S) \in S
           /\ SumFunctionOnSet(f, S)
                = f[Chosen(S)] + SumFunctionOnSet(f, S \ {Chosen(S)})
<1> DEFINE x == Chosen(S)
           P == S \ {x}
           g == CHOOSE q : Sums(f, q, S)
           h == CHOOSE q : Sums(f, q, P)
<1>1. x \in S
  BY DEF Chosen
<1>2. IsFiniteSet(P) /\ P \in SUBSET S
  BY FS_Subset
<1>3. Sums(f, g, S) /\ SumFunctionOnSet(f, S) = g[S]
  BY SumsExists, SumIsChosen
<1> HIDE DEF P
<1>4. Sums(f, h, P) /\ SumFunctionOnSet(f, P) = h[P]
  BY <1>2, SumsExists, SumIsChosen
<1> HIDE DEF g, h
<1>5. g[P] = h[P]
  BY <1>2, <1>3, <1>4, SumsAgree
<1>6. g[S] = f[x] + g[P]
  BY <1>3 DEF Sums, Unfolded, P
<1> QED
  BY <1>1, <1>3, <1>4, <1>5, <1>6 DEF P

(* A set of numbers that has 0 and is closed under addition has the sums   *)
(* of its members: Int, Nat, {0}.                                          *)
LEMMA SumClosed ==
    ASSUME NEW Type, 0 \in Type, \A a, b \in Type : a + b \in Type,
           NEW f, NEW S, IsFiniteSet(S), \A x \in S : f[x] \in Type
    PROVE  SumFunctionOnSet(f, S) \in Type
<1> DEFINE G == {T \in SUBSET S : SumFunctionOnSet(f, T) \in Type}
<1>1. {} \in G
  BY SumEmpty
<1>2. ASSUME NEW T \in SUBSET S, T # {}, \A x \in T : T \ {x} \in G
      PROVE  T \in G
  <2>1. IsFiniteSet(T)
    BY FS_Subset
  <2>2. /\ Chosen(T) \in T
        /\ SumFunctionOnSet(f, T)
             = f[Chosen(T)] + SumFunctionOnSet(f, T \ {Chosen(T)})
    BY <1>2, <2>1, SumUnfolds
  <2>3. SumFunctionOnSet(f, T \ {Chosen(T)}) \in Type /\ f[Chosen(T)] \in Type
    BY <1>2, <2>2
  <2> QED
    BY <2>2, <2>3
<1> HIDE DEF G
<1>3. \A T \in SUBSET S : T \in G
  BY <1>1, <1>2, FiniteSubsetInduction
<1> QED
  BY <1>3 DEF G

LEMMA SumInt ==
    ASSUME NEW f, NEW S, IsFiniteSet(S), \A x \in S : f[x] \in Int
    PROVE  SumFunctionOnSet(f, S) \in Int
<1>1. 0 \in Int /\ \A a, b \in Int : a + b \in Int
  OBVIOUS
<1> QED
  BY <1>1, SumClosed

LEMMA SumNat ==
    ASSUME NEW f, NEW S, IsFiniteSet(S), \A x \in S : f[x] \in Nat
    PROVE  SumFunctionOnSet(f, S) \in Nat
<1>1. 0 \in Nat /\ \A a, b \in Nat : a + b \in Nat
  OBVIOUS
<1> QED
  BY <1>1, SumClosed

LEMMA SumZero ==
    ASSUME NEW f, NEW S, IsFiniteSet(S), \A x \in S : f[x] = 0
    PROVE  SumFunctionOnSet(f, S) = 0
<1>1. \A a, b \in {0} : a + b \in {0}
  OBVIOUS
<1>2. SumFunctionOnSet(f, S) \in {0}
  BY <1>1, SumClosed
<1> QED
  BY <1>2

(* Only the values on the set count. *)
LEMMA SumCongruent ==
    ASSUME NEW f, NEW g, NEW S, IsFiniteSet(S), \A x \in S : f[x] = g[x]
    PROVE  SumFunctionOnSet(f, S) = SumFunctionOnSet(g, S)
<1> DEFINE G == {T \in SUBSET S : SumFunctionOnSet(f, T) = SumFunctionOnSet(g, T)}
<1>1. {} \in G
  BY SumEmpty
<1>2. ASSUME NEW T \in SUBSET S, T # {}, \A x \in T : T \ {x} \in G
      PROVE  T \in G
  <2>1. IsFiniteSet(T)
    BY FS_Subset
  <2>2. /\ Chosen(T) \in T
        /\ SumFunctionOnSet(f, T)
             = f[Chosen(T)] + SumFunctionOnSet(f, T \ {Chosen(T)})
        /\ SumFunctionOnSet(g, T)
             = g[Chosen(T)] + SumFunctionOnSet(g, T \ {Chosen(T)})
    BY <1>2, <2>1, SumUnfolds
  <2> QED
    BY <1>2, <2>2
<1> HIDE DEF G
<1>3. \A T \in SUBSET S : T \in G
  BY <1>1, <1>2, FiniteSubsetInduction
<1> QED
  BY <1>3 DEF G

(* The members may be taken in any order. *)
LEMMA SumRemove ==
    ASSUME NEW f, NEW S, IsFiniteSet(S), \A x \in S : f[x] \in Int, NEW y \in S
    PROVE  SumFunctionOnSet(f, S) = f[y] + SumFunctionOnSet(f, S \ {y})
<1> DEFINE Out(T, x) == SumFunctionOnSet(f, T) = f[x] + SumFunctionOnSet(f, T \ {x})
           G == {T \in SUBSET S : \A x \in T : Out(T, x)}
<1>1. {} \in G
  OBVIOUS
<1>2. ASSUME NEW T \in SUBSET S, T # {}, \A x \in T : T \ {x} \in G
      PROVE  T \in G
  <2>1. SUFFICES ASSUME NEW x \in T PROVE Out(T, x)
    OBVIOUS
  <2> DEFINE c == Chosen(T)
             U == (T \ {c}) \ {x}
  <2>2. IsFiniteSet(T)
    BY FS_Subset
  <2>3. c \in T /\ Out(T, c)
    BY <1>2, <2>2, SumUnfolds
  <2> HIDE DEF c
  <2>4. CASE x = c
    BY <2>3, <2>4
  <2>5. CASE x # c
    <3>1. T \ {c} \in G /\ T \ {x} \in G
      BY <1>2, <2>3
    <3>2. x \in T \ {c} /\ c \in T \ {x}
      BY <2>3, <2>5
    <3>3. Out(T \ {c}, x) /\ Out(T \ {x}, c)
      BY <3>1, <3>2
    <3>4. (T \ {x}) \ {c} = U
      OBVIOUS
    <3>5. IsFiniteSet(U) /\ U \in SUBSET S
      BY FS_Subset
    <3> HIDE DEF U
    <3>6. SumFunctionOnSet(f, U) \in Int
      BY <3>5, SumInt
    <3>7. /\ SumFunctionOnSet(f, T) = f[c] + SumFunctionOnSet(f, T \ {c})
          /\ SumFunctionOnSet(f, T \ {c}) = f[x] + SumFunctionOnSet(f, U)
          /\ SumFunctionOnSet(f, T \ {x}) = f[c] + SumFunctionOnSet(f, U)
      BY <2>3, <3>3, <3>4 DEF U
    <3>8. f[c] \in Int /\ f[x] \in Int
      BY <2>3
    <3> QED
      BY <3>6, <3>7, <3>8
  <2> QED
    BY <2>4, <2>5
<1> HIDE DEF G
<1>3. \A T \in SUBSET S : T \in G
  BY <1>1, <1>2, FiniteSubsetInduction
<1>4. S \in G
  BY <1>3
<1> QED
  BY <1>4 DEF G

(* Members that count nothing may be left out. *)
LEMMA SumExtend ==
    ASSUME NEW f, NEW g, NEW S, IsFiniteSet(S), NEW R \in SUBSET S,
           \A x \in R : f[x] = g[x], \A x \in S \ R : g[x] = 0,
           \A x \in S : g[x] \in Int
    PROVE  SumFunctionOnSet(f, R) = SumFunctionOnSet(g, S)
<1> DEFINE G == {T \in SUBSET S : SumFunctionOnSet(g, T) = SumFunctionOnSet(g, T \cap R)}
<1>1. {} \in G
  <2>1. {} \cap R = {}
    OBVIOUS
  <2> QED
    BY <2>1
<1>2. ASSUME NEW T \in SUBSET S, T # {}, \A x \in T : T \ {x} \in G
      PROVE  T \in G
  <2>1. CASE T \subseteq R
    <3>1. T \cap R = T
      BY <2>1
    <3> QED
      BY <3>1
  <2>2. CASE ~(T \subseteq R)
    <3>1. PICK x \in T : x \notin R
      BY <2>2
    <3>2. T \ {x} \in G /\ (T \ {x}) \cap R = T \cap R
      BY <1>2, <3>1
    <3>3. IsFiniteSet(T) /\ IsFiniteSet(T \ {x}) /\ T \ {x} \in SUBSET S
      BY FS_Subset
    <3>4. SumFunctionOnSet(g, T) = g[x] + SumFunctionOnSet(g, T \ {x})
      BY <3>3, SumRemove
    <3>5. SumFunctionOnSet(g, T \ {x}) \in Int /\ g[x] = 0
      BY <3>1, <3>3, SumInt
    <3>6. SumFunctionOnSet(g, T) = SumFunctionOnSet(g, T \ {x})
      BY <3>4, <3>5
    <3>7. SumFunctionOnSet(g, T \ {x}) = SumFunctionOnSet(g, (T \ {x}) \cap R)
      BY <3>2
    <3> QED
      BY <3>2, <3>6, <3>7
  <2> QED
    BY <2>1, <2>2
<1> HIDE DEF G
<1>3. S \in G
  BY <1>1, <1>2, FiniteSubsetInduction
<1>4. SumFunctionOnSet(g, S) = SumFunctionOnSet(g, S \cap R) /\ S \cap R = R
  BY <1>3 DEF G
<1>5. IsFiniteSet(R)
  BY FS_Subset
<1>6. SumFunctionOnSet(f, R) = SumFunctionOnSet(g, R)
  BY <1>5, SumCongruent
<1> QED
  BY <1>4, <1>6

LEMMA SumPlus ==
    ASSUME NEW f, NEW g, NEW h, NEW S, IsFiniteSet(S),
           \A x \in S : f[x] \in Int /\ g[x] \in Int /\ h[x] = f[x] + g[x]
    PROVE  SumFunctionOnSet(h, S) = SumFunctionOnSet(f, S) + SumFunctionOnSet(g, S)
<1> DEFINE G == {T \in SUBSET S : SumFunctionOnSet(h, T)
                                    = SumFunctionOnSet(f, T) + SumFunctionOnSet(g, T)}
<1>1. {} \in G
  BY SumEmpty
<1>2. ASSUME NEW T \in SUBSET S, T # {}, \A x \in T : T \ {x} \in G
      PROVE  T \in G
  <2>1. PICK x \in T : TRUE
    BY <1>2
  <2> DEFINE U == T \ {x}
  <2>2. IsFiniteSet(T) /\ IsFiniteSet(U) /\ U \in SUBSET S
    BY FS_Subset
  <2>3. /\ SumFunctionOnSet(f, T) = f[x] + SumFunctionOnSet(f, U)
        /\ SumFunctionOnSet(g, T) = g[x] + SumFunctionOnSet(g, U)
    BY <2>2, SumRemove
  <2>4. SumFunctionOnSet(h, T) = h[x] + SumFunctionOnSet(h, U)
    <3>1. \A y \in T : h[y] \in Int
      OBVIOUS
    <3> QED
      BY <2>2, <3>1, SumRemove
  <2>5. U \in G
    BY <1>2
  <2> HIDE DEF U
  <2>6. SumFunctionOnSet(f, U) \in Int /\ SumFunctionOnSet(g, U) \in Int
    BY <2>2, SumInt
  <2>7. f[x] \in Int /\ g[x] \in Int /\ h[x] = f[x] + g[x]
    OBVIOUS
  <2> QED
    BY <2>3, <2>4, <2>5, <2>6, <2>7
<1> HIDE DEF G
<1>3. \A T \in SUBSET S : T \in G
  BY <1>1, <1>2, FiniteSubsetInduction
<1> QED
  BY <1>3 DEF G

LEMMA SumMinus ==
    ASSUME NEW f, NEW g, NEW h, NEW S, IsFiniteSet(S),
           \A x \in S : f[x] \in Int /\ g[x] \in Int /\ h[x] = f[x] - g[x]
    PROVE  SumFunctionOnSet(h, S) = SumFunctionOnSet(f, S) - SumFunctionOnSet(g, S)
<1>1. \A x \in S : h[x] \in Int /\ g[x] \in Int /\ f[x] = h[x] + g[x]
  OBVIOUS
<1>2. SumFunctionOnSet(f, S) = SumFunctionOnSet(h, S) + SumFunctionOnSet(g, S)
  BY <1>1, SumPlus
<1>3. SumFunctionOnSet(h, S) \in Int /\ SumFunctionOnSet(g, S) \in Int
  BY <1>1, SumInt
<1> QED
  BY <1>2, <1>3

(* A change at one place moves the sum by that change. *)
LEMMA SumUpdate ==
    ASSUME NEW f, NEW g, NEW S, IsFiniteSet(S), NEW y \in S,
           \A x \in S : f[x] \in Int /\ g[x] \in Int,
           \A x \in S \ {y} : f[x] = g[x]
    PROVE  SumFunctionOnSet(g, S) = SumFunctionOnSet(f, S) - f[y] + g[y]
<1> DEFINE R == S \ {y}
<1>1. IsFiniteSet(R)
  BY FS_Subset
<1>2. /\ SumFunctionOnSet(f, S) = f[y] + SumFunctionOnSet(f, R)
      /\ SumFunctionOnSet(g, S) = g[y] + SumFunctionOnSet(g, R)
  BY SumRemove
<1>3. SumFunctionOnSet(f, R) = SumFunctionOnSet(g, R) /\ SumFunctionOnSet(f, R) \in Int
  BY <1>1, SumCongruent, SumInt
<1> QED
  BY <1>2, <1>3

(* A table of numbers, m by rows and n by columns, adds up the same by     *)
(* rows and by columns.                                                    *)
Transposed(m, n, R, C) ==
    \A r \in R, c \in C : m[r][c] \in Int /\ n[c][r] = m[r][c]

AddsUp(row, m, R, C) == \A r \in R : row[r] = SumFunctionOnSet(m[r], C)

LEMMA SumTable ==
    ASSUME NEW m, NEW n, NEW R, NEW C, IsFiniteSet(R), IsFiniteSet(C),
           Transposed(m, n, R, C),
           NEW row, AddsUp(row, m, R, C),
           NEW col, AddsUp(col, n, C, R)
    PROVE  SumFunctionOnSet(row, R) = SumFunctionOnSet(col, C)
<1> USE DEF Transposed, AddsUp
<1> DEFINE part(T) == [c \in C |-> SumFunctionOnSet(n[c], T)]
           G == {T \in SUBSET R : SumFunctionOnSet(row, T) = SumFunctionOnSet(part(T), C)}
<1>1. {} \in G
  <2>1. \A c \in C : part({})[c] = 0
    BY SumEmpty
  <2> HIDE DEF part
  <2> QED
    BY <2>1, SumEmpty, SumZero
<1>2. ASSUME NEW T \in SUBSET R, T # {}, \A x \in T : T \ {x} \in G
      PROVE  T \in G
  <2>1. PICK x \in T : TRUE
    BY <1>2
  <2> DEFINE U == T \ {x}
             line == m[x]
  <2>2. IsFiniteSet(T) /\ IsFiniteSet(U) /\ U \in SUBSET R
    BY FS_Subset
  <2>3. \A c \in C : /\ line[c] \in Int
                     /\ part(U)[c] \in Int
                     /\ part(T)[c] = line[c] + part(U)[c]
    <3>1. TAKE c \in C
    <3> DEFINE f == n[c]
    <3>2. \A r \in R : f[r] \in Int
      OBVIOUS
    <3>3. f[x] = m[x][c]
      OBVIOUS
    <3> HIDE DEF f
    <3>4. SumFunctionOnSet(f, U) \in Int
      BY <2>2, <3>2, SumInt
    <3>5. SumFunctionOnSet(f, T) = f[x] + SumFunctionOnSet(f, U)
      BY <2>2, <3>2, SumRemove
    <3> QED
      BY <3>2, <3>3, <3>4, <3>5 DEF f
  <2>4. U \in G
    BY <1>2
  <2>5. row[x] = SumFunctionOnSet(line, C)
    OBVIOUS
  <2>6. \A r \in R : row[r] \in Int
    <3>1. TAKE r \in R
    <3> DEFINE f == m[r]
    <3>2. \A c \in C : f[c] \in Int
      OBVIOUS
    <3>3. row[r] = SumFunctionOnSet(f, C)
      OBVIOUS
    <3> HIDE DEF f
    <3> QED
      BY <3>2, <3>3, SumInt
  <2>7. SumFunctionOnSet(row, T) = row[x] + SumFunctionOnSet(row, U)
    BY <2>2, <2>6, SumRemove
  <2>8. SumFunctionOnSet(row, U) = SumFunctionOnSet(part(U), C)
    BY <2>4
  <2> HIDE DEF U, line, part
  <2>9. SumFunctionOnSet(part(T), C)
          = SumFunctionOnSet(line, C) + SumFunctionOnSet(part(U), C)
    BY <2>3, SumPlus
  <2>10. SumFunctionOnSet(row, T) = SumFunctionOnSet(part(T), C)
    BY <2>5, <2>7, <2>8, <2>9
  <2> QED
    BY <2>10
<1>3. R \in G
  <2> HIDE DEF G
  <2> QED
    BY <1>1, <1>2, FiniteSubsetInduction
<1>4. SumFunctionOnSet(row, R) = SumFunctionOnSet(part(R), C)
  BY <1>3
<1>5. \A c \in C : part(R)[c] = col[c]
  OBVIOUS
<1> HIDE DEF part
<1>6. SumFunctionOnSet(part(R), C) = SumFunctionOnSet(col, C)
  BY <1>5, SumCongruent
<1> QED
  BY <1>4, <1>6

(* At most one member counts. *)
LEMMA SumPoint ==
    ASSUME NEW f, NEW S, IsFiniteSet(S), NEW y, \A x \in S \ {y} : f[x] = 0,
           y \in S => f[y] \in Int
    PROVE  SumFunctionOnSet(f, S) = IF y \in S THEN f[y] ELSE 0
<1>1. CASE y \in S
  <2>1. IsFiniteSet(S \ {y})
    BY FS_Subset
  <2>2. SumFunctionOnSet(f, S \ {y}) = 0
    BY <2>1, SumZero
  <2>3. \A x \in S : f[x] \in Int
    BY <1>1
  <2>4. SumFunctionOnSet(f, S) = f[y] + SumFunctionOnSet(f, S \ {y})
    BY <1>1, <2>3, SumRemove
  <2> QED
    BY <1>1, <2>2, <2>3, <2>4
<1>2. CASE y \notin S
  <2>1. \A x \in S : f[x] = 0
    BY <1>2
  <2> QED
    BY <1>2, <2>1, SumZero
<1> QED
  BY <1>1, <1>2

(* A set that is divided among owners adds up owner by owner. *)
OfOwner(owner, T, s) == {x \in T : owner[x] = s}

LEMMA SumByOwner ==
    ASSUME NEW T, NEW S, IsFiniteSet(T), IsFiniteSet(S), NEW owner,
           \A x \in T : owner[x] \in S,
           NEW f, \A x \in T : f[x] \in Int,
           NEW part,
           \A s \in S : part[s] = SumFunctionOnSet(f, OfOwner(owner, T, s))
    PROVE  SumFunctionOnSet(f, T) = SumFunctionOnSet(part, S)
<1> DEFINE m == [x \in T |-> [s \in S |-> IF owner[x] = s THEN f[x] ELSE 0]]
           n == [s \in S |-> [x \in T |-> IF owner[x] = s THEN f[x] ELSE 0]]
<1>1. \A x \in T, s \in S : m[x][s] \in Int /\ n[s][x] = m[x][s]
  OBVIOUS
<1>2. ASSUME NEW x \in T PROVE f[x] = SumFunctionOnSet(m[x], S)
  <2> DEFINE g == m[x]
  <2>1. /\ \A s \in S \ {owner[x]} : g[s] = 0
        /\ owner[x] \in S /\ g[owner[x]] = f[x] /\ f[x] \in Int
    OBVIOUS
  <2> HIDE DEF g
  <2>2. SumFunctionOnSet(g, S) = IF owner[x] \in S THEN g[owner[x]] ELSE 0
    BY <2>1, SumPoint
  <2>3. SumFunctionOnSet(g, S) = f[x]
    BY <2>1, <2>2
  <2> QED
    BY <2>3 DEF g
<1>3. ASSUME NEW s \in S PROVE part[s] = SumFunctionOnSet(n[s], T)
  <2> DEFINE P == {x \in T : owner[x] = s}
             g == n[s]
  <2>1. /\ P \in SUBSET T
        /\ \A x \in P : f[x] = g[x]
        /\ \A x \in T \ P : g[x] = 0
        /\ \A x \in T : g[x] \in Int
    OBVIOUS
  <2>2. part[s] = SumFunctionOnSet(f, P)
    BY DEF OfOwner
  <2> HIDE DEF P, g
  <2>3. part[s] = SumFunctionOnSet(g, T)
    BY <2>1, <2>2, SumExtend
  <2> QED
    BY <2>3 DEF g
<1> HIDE DEF m, n
<1>4. Transposed(m, n, T, S) /\ AddsUp(f, m, T, S) /\ AddsUp(part, n, S, T)
  BY <1>1, <1>2, <1>3 DEF Transposed, AddsUp
<1> QED
  BY <1>4, SumTable

(* A sum of multiples is the multiple of the sum. *)
LEMMA SumTimes ==
    ASSUME NEW f, NEW g, NEW S, IsFiniteSet(S), NEW c \in Int,
           \A x \in S : f[x] \in Int /\ g[x] = f[x] * c
    PROVE  SumFunctionOnSet(g, S) = SumFunctionOnSet(f, S) * c
<1> DEFINE G == {T \in SUBSET S : SumFunctionOnSet(g, T) = SumFunctionOnSet(f, T) * c}
<1>1. {} \in G
  BY SumEmpty
<1>2. ASSUME NEW T \in SUBSET S, T # {}, \A x \in T : T \ {x} \in G
      PROVE  T \in G
  <2>1. PICK x \in T : TRUE
    BY <1>2
  <2> DEFINE U == T \ {x}
  <2>2. IsFiniteSet(T) /\ IsFiniteSet(U) /\ U \in SUBSET S
    BY FS_Subset
  <2>3. \A y \in T : f[y] \in Int /\ g[y] \in Int
    OBVIOUS
  <2>4. /\ SumFunctionOnSet(f, T) = f[x] + SumFunctionOnSet(f, U)
        /\ SumFunctionOnSet(g, T) = g[x] + SumFunctionOnSet(g, U)
    BY <2>2, <2>3, SumRemove
  <2>5. SumFunctionOnSet(g, U) = SumFunctionOnSet(f, U) * c
    BY <1>2
  <2>6. SumFunctionOnSet(f, U) \in Int
    BY <2>2, SumInt
  <2> HIDE DEF U
  <2>7. (f[x] + SumFunctionOnSet(f, U)) * c = f[x] * c + SumFunctionOnSet(f, U) * c
    BY <2>6
  <2>8. SumFunctionOnSet(g, T) = SumFunctionOnSet(f, T) * c
    BY <2>4, <2>5, <2>7
  <2> QED
    BY <2>8
<1> HIDE DEF G
<1>3. \A T \in SUBSET S : T \in G
  BY <1>1, <1>2, FiniteSubsetInduction
<1>4. S \in G
  BY <1>3
<1> QED
  BY <1>4 DEF G

(***************************************************************************)
(* The values the operators of TxnCore take.                               *)
(***************************************************************************)

(* A line counts for as many units as its item says. *)
LEMMA CountedType ==
  ASSUME NEW t, t.qty \in Nat, t.item \in Items \cup {None}, counts \in [Items -> Nat]
  PROVE  Counted(t) \in Nat
<1>1. CASE t.item = None
  BY <1>1 DEF Counted
<1>2. CASE t.item # None
  <2> DEFINE c == counts[t.item]
  <2>1. c \in Nat
    BY <1>2
  <2>2. \A m, n \in Nat : m * n \in Nat
    OBVIOUS
  <2>3. Counted(t) = c * t.qty
    BY <1>2 DEF Counted
  <2> HIDE DEF c
  <2>4. QED
    BY <2>1, <2>2, <2>3
<1>3. QED
  BY <1>1, <1>2

LEMMA BlankType == BlankDoc \in Doc
<1>1. HomeShop \in Shops
  BY ShopsAssumption DEF HomeShop
<1>2. QED
  BY <1>1, KindsAssumption DEF BlankDoc, Doc, TxnTypes, LineTypes, Statuses, Methods

LEMMA SettlementType ==
  ASSUME NEW total, NEW paid
  PROVE  Settlement(total, paid) \in {"OPEN", "PARTIAL", "PAID"}
BY DEF Settlement

LEMMA ResolveType ==
  ASSUME NEW shop \in Shops, NEW kind, NEW pick \in AccountIds \cup {None},
         accounts \subseteq AccountIds,
         NEW acct \in ResolveMoneyAccount(shop, kind, pick)
  PROVE  kind \in Kinds => acct \in AccountIds \cup {None}
BY DEF ResolveMoneyAccount, AccountIds

LEMMA NewDocType ==
  ASSUME TypeOK,
         NEW in \in Request, NEW acct, in.method \in Kinds => acct \in AccountIds \cup {None},
         NEW source \in Docs \cup {None}, NEW against \in Docs \cup {None}
  PROVE  NewDoc(in, acct, source, against) \in Doc
<1> DEFINE own == IF in.type \in OrderTypes THEN 0 ELSE in.own
           kept == IF own > 0 /\ in.method \in Kinds
                   THEN IF acct # None THEN acct ELSE in.pick ELSE None
           status == IF in.hold THEN "HELD"
                     ELSE IF in.type \in OrderTypes THEN "ORDER_OPEN"
                     ELSE IF in.type \in PaymentTypes THEN "PAID"
                     ELSE Settlement(in.total, own)
           paid == IF in.type \in PaymentTypes THEN in.total ELSE own
<1> DEFINE moved == Counted(in)
<1>1. own \in Nat /\ paid \in Int /\ moved \in Nat
  BY CountedType DEF Request, TypeOK
<1>2. kept \in AccountIds \cup {None}
  BY DEF Request
<1>3. status \in Statuses
  BY SettlementType DEF Statuses
<1>4. NewDoc(in, acct, source, against) =
        [type |-> in.type, shop |-> in.shop, party |-> in.party, to |-> in.to,
         item |-> in.item, qty |-> in.qty, total |-> in.total,
         method |-> in.method, own |-> own, moved |-> moved, acct |-> kept,
         paid |-> paid, status |-> status, deleted |-> FALSE, source |-> source, against |-> against]
  BY DEF NewDoc
<1> HIDE DEF own, kept, status, paid, moved
<1>5. QED
  BY <1>1, <1>2, <1>3, <1>4 DEF Request, Doc

LEMMA EffectTypes ==
  ASSUME NEW t \in Doc
  PROVE  /\ \A i \in Items : StockMove(t, i) \in Int
         /\ \A k \in Shops \X Items : LevelEffect(t, k) \in Int
         /\ \A p \in Parties : PartyEffect(t, p) \in Int
         /\ MoneyEffect(t) \in Int
<1>1. \A i \in Items : StockMove(t, i) \in Int
  BY DEF Doc, StockMove, StockEffect
<1>2. \A k \in Shops \X Items : LevelEffect(t, k) \in Int
  BY <1>1 DEF LevelEffect
<1>3. ASSUME NEW p \in Parties PROVE PartyEffect(t, p) \in Int
  <2>1. t.total \in Int /\ t.own \in Int
    BY DEF Doc
  <2>2. PartyDelta(t.type, t.total, t.total - t.own) \in Int
    BY <2>1 DEF PartyDelta
  <2>3. QED
    BY <2>1, <2>2 DEF PartyEffect
<1>4. MoneyEffect(t) \in Int
  BY DEF Doc, MoneyEffect
<1>5. QED
  BY <1>1, <1>2, <1>3, <1>4

LEMMA PostTypes ==
  ASSUME TypeOK, NEW t \in Doc, NEW invert \in BOOLEAN, PostStockAndParty(t, invert)
  PROVE  /\ currentStock' \in [Items -> Int]
         /\ stockLevel' \in [Shops \X Items -> Int]
         /\ partyBalance' \in [Parties -> Int]
<1>1. \A i \in Items : Signed(StockMove(t, i), invert) \in Int
  BY EffectTypes DEF Signed
<1>2. \A k \in Shops \X Items : Signed(LevelEffect(t, k), invert) \in Int
  BY EffectTypes DEF Signed
<1>3. \A p \in Parties : Signed(PartyEffect(t, p), invert) \in Int
  BY EffectTypes DEF Signed
<1>4. QED
  BY <1>1, <1>2, <1>3 DEF TypeOK, PostStockAndParty

LEMMA MovedType ==
  ASSUME TypeOK, NEW t \in Doc, NEW acct, NEW invert \in BOOLEAN
  PROVE  Moved(t, acct, invert) \in [AccountIds -> Int]
<1>1. Signed(MoneyEffect(t), invert) \in Int
  BY EffectTypes DEF Signed
<1>2. QED
  BY <1>1 DEF TypeOK, Moved

LEMMA PayTypes ==
  ASSUME TypeOK, NEW t \in Doc, NEW d \in Docs, NEW acct, Pay(d, t, acct),
         PaysInto(t) => acct \in AccountIds \cup {None}
  PROVE  /\ accountBalance' \in [AccountIds -> Int]
         /\ accounts' \subseteq AccountIds
         /\ cheques' \in [Docs -> Cheque]
<1>1. accountBalance' \in [AccountIds -> Int]
  BY MovedType DEF Pay
<1>2. accounts' \subseteq AccountIds
  BY DEF Pay, TypeOK
<1>3. cheques' \in [Docs -> Cheque]
  BY DEF Pay, TypeOK, Cheque
<1>4. QED
  BY <1>1, <1>2, <1>3

LEMMA UnpayTypes ==
  ASSUME TypeOK, NEW t \in Doc, NEW d \in Docs, Unpay(d, t), ChequesFollowDocs
  PROVE  /\ accountBalance' \in [AccountIds -> Int]
         /\ accounts' \subseteq AccountIds
         /\ cheques' \in [Docs -> Cheque]
<1>1. accountBalance' \in [AccountIds -> Int]
  <2>1. CASE PaysByCheque(t) /\ cheques[d].status = "CLOSED"
    <3>1. cheques[d].account \in AccountIds
      BY <2>1 DEF TypeOK, Cheque, ChequesFollowDocs
    <3>2. MoneyEffect(t) \in Int
      BY EffectTypes
    <3>3. QED
      BY <2>1, <3>1, <3>2 DEF Unpay, TypeOK
  <2>2. CASE ~(PaysByCheque(t) /\ cheques[d].status = "CLOSED")
    BY <2>2, MovedType DEF Unpay
  <2>3. QED
    BY <2>1, <2>2
<1>2. accounts' \subseteq AccountIds
  BY DEF Unpay, TypeOK
<1>3. cheques' \in [Docs -> Cheque]
  BY DEF Unpay, TypeOK, Cheque, NoCheque
<1>4. QED
  BY <1>1, <1>2, <1>3

LEMMA AllocatedType ==
  ASSUME TypeOK, NEW amounts \in [Docs -> Nat], NEW invert \in BOOLEAN
  PROVE  Allocated(docs, amounts, invert) \in [Docs -> Doc]
<1> SUFFICES ASSUME NEW e \in Docs
             PROVE  Allocated(docs, amounts, invert)[e] \in Doc
  BY DEF Allocated
<1> DEFINE paid == docs[e].paid + Signed(amounts[e], invert)
           status == Settlement(docs[e].total, paid)
<1>1. docs[e] \in Doc
  BY DEF TypeOK
<1>2. paid \in Int
  BY <1>1 DEF Doc, Signed
<1>3. status \in Statuses
  BY SettlementType DEF Statuses
<1>4. Allocated(docs, amounts, invert)[e] =
        IF amounts[e] = 0 THEN docs[e] ELSE [docs[e] EXCEPT !.paid = paid, !.status = status]
  BY DEF Allocated
<1> HIDE DEF paid, status
<1>5. QED
  BY <1>1, <1>2, <1>3, <1>4 DEF Doc

(***************************************************************************)
(* Steps.  A step is about one document; the rows of the others keep all   *)
(* that the books depend on.                                               *)
(***************************************************************************)

Same(t, u) ==
    /\ u.type = t.type /\ u.shop = t.shop /\ u.party = t.party /\ u.to = t.to
    /\ u.item = t.item /\ u.qty = t.qty /\ u.total = t.total
    /\ u.method = t.method /\ u.own = t.own /\ u.acct = t.acct
    /\ u.moved = t.moved /\ u.deleted = t.deleted /\ u.source = t.source
    /\ t.status = "NONE" => u = t
    /\ u.status = "NONE" => t.status = "NONE"
    /\ u.status = "HELD" <=> t.status = "HELD"

(* Only document d changes what it adds to the books. *)
Frame(d) ==
    /\ docs' \in [Docs -> Doc]
    /\ \A e \in Docs \ {d} : Same(docs[e], docs'[e])
    /\ transfers' = transfers

(* The row t as its item is counted now. *)
Recounted(t) == [t EXCEPT !.moved = Counted(t)]

(* Document d comes into force and is posted. *)
Posts(d) ==
    /\ Frame(d)
    /\ ~InForce(d)
    /\ docs'[d].status \notin {"NONE", "HELD"} /\ ~docs'[d].deleted
    /\ PostStockAndParty(docs'[d], FALSE)
    /\ miscounted' = miscounted

(* Document d goes out of force and its posting is reversed, the stock by  *)
(* what the item counts for now.                                           *)
Reverses(d) ==
    /\ Frame(d)
    /\ InForce(d)
    /\ docs'[d].deleted
    /\ PostStockAndParty(Recounted(docs[d]), TRUE)
    /\ miscounted' = miscounted \cup
         {i \in Items : StockMove(Recounted(docs[d]), i) # StockMove(docs[d], i)}

(* Document d is out of force before and after, and nothing is posted. *)
Rests(d) ==
    /\ Frame(d)
    /\ ~InForce(d)
    /\ docs'[d].status \in {"NONE", "HELD"} \/ docs'[d].deleted
    /\ UNCHANGED <<currentStock, stockLevel, partyBalance, miscounted>>

BookStep ==
    \/ UNCHANGED <<docs, currentStock, stockLevel, partyBalance, miscounted>>
    \/ \E d \in Docs : Posts(d) \/ Reverses(d) \/ Rests(d)

LEMMA SameRefl == ASSUME NEW t PROVE Same(t, t)
BY DEF Same

LEMMA AllocatedSame ==
  ASSUME TypeOK, NEW amounts \in [Docs -> Nat], NEW invert \in BOOLEAN,
         \A e \in Docs : amounts[e] > 0 => Exists(e) /\ Posted(docs[e])
  PROVE  \A e \in Docs : Same(docs[e], Allocated(docs, amounts, invert)[e])
<1> SUFFICES ASSUME NEW e \in Docs
             PROVE  Same(docs[e], Allocated(docs, amounts, invert)[e])
  OBVIOUS
<1> DEFINE paid == docs[e].paid + Signed(amounts[e], invert)
           status == Settlement(docs[e].total, paid)
<1>1. docs[e] \in Doc
  BY DEF TypeOK
<1>2. status \in {"OPEN", "PARTIAL", "PAID"}
  BY SettlementType
<1>3. Allocated(docs, amounts, invert)[e] =
        IF amounts[e] = 0 THEN docs[e] ELSE [docs[e] EXCEPT !.paid = paid, !.status = status]
  BY DEF Allocated
<1> HIDE DEF paid, status
<1>4. CASE amounts[e] = 0
  BY <1>3, <1>4, SameRefl
<1>5. CASE amounts[e] # 0
  <2>1. Exists(e) /\ Posted(docs[e])
    BY <1>5
  <2>2. QED
    BY <1>1, <1>2, <1>3, <1>5, <2>1 DEF Doc, Same, Exists, Posted
<1>6. QED
  BY <1>4, <1>5

(* The rows of a new posting keep the invariant. *)
LEMMA PostNewInv ==
  ASSUME CoreInv, NEW n \in Docs, NEW in \in Request, NEW acct,
         NEW source \in Docs \cup {None}, NEW against \in Docs \cup {None},
         in.method \in Kinds => acct \in AccountIds \cup {None},
         ~in.hold, ~Exists(n),
         PostNew(n, in, NewDoc(in, acct, source, against), acct),
         docs' \in [Docs -> Doc],
         docs'[n] = NewDoc(in, acct, source, against),
         \A e \in Docs \ {n} : Same(docs[e], docs'[e]),
         alloc' \in [Docs -> [Docs -> Nat]],
         \A p \in Docs \ {n} : alloc'[p] = alloc[p],
         \A e \in Docs : alloc'[n][e] > 0 => Live(e) /\ Posted(docs[e]),
         UNCHANGED <<counts, miscounted, transfers>>,
         source # None => in.type \notin OrderTypes /\ docs[source].type \in OrderTypes
  PROVE  CoreInv'
<1> DEFINE t == NewDoc(in, acct, source, against)
<1>1. t \in Doc
  BY NewDocType DEF CoreInv
<1>2. t.status \notin {"NONE", "HELD"} /\ ~t.deleted /\ t.type = in.type
      /\ t.item = in.item /\ t.source = source
  BY SettlementType DEF NewDoc
<1>3. TypeOK
  BY DEF CoreInv
<1>4. TypeOK'
  <2>1. /\ currentStock' \in [Items -> Int]
        /\ stockLevel' \in [Shops \X Items -> Int]
        /\ partyBalance' \in [Parties -> Int]
    BY <1>1, <1>3, PostTypes DEF PostNew
  <2>2. PaysInto(t) => acct \in AccountIds \cup {None}
    BY DEF PaysInto, NewDoc
  <2>3. /\ accountBalance' \in [AccountIds -> Int]
        /\ accounts' \subseteq AccountIds
        /\ cheques' \in [Docs -> Cheque]
    BY <1>1, <1>3, <2>2, PayTypes DEF PostNew
  <2>4. QED
    BY <1>3, <2>1, <2>3 DEF TypeOK
<1>5. RowsWellFormed'
  <2> SUFFICES ASSUME NEW d \in Docs
               PROVE  /\ docs'[d].status = "NONE" => docs'[d] = BlankDoc
                      /\ docs'[d].status # "NONE" /\ docs'[d].type \in LineTypes
                           => docs'[d].item # None
                      /\ docs'[d].status = "HELD"
                           => docs'[d].type = "SALE_INVOICE" /\ docs'[d].own = 0
                      /\ docs'[d].source # None
                           => /\ docs'[d].type \notin OrderTypes
                              /\ docs'[docs'[d].source].type \in OrderTypes
    BY DEF RowsWellFormed, Exists, BlankDoc, HomeShop
  <2>1. RowsWellFormed
    BY DEF CoreInv
  <2>2. docs[n].type \notin OrderTypes
    BY <2>1 DEF RowsWellFormed, BlankDoc, OrderTypes
  <2>3. CASE d = n
    <3>1. source # None => source # n /\ docs'[source].type \in OrderTypes
      BY <2>2 DEF Same
    <3>2. t.type \in LineTypes => t.item # None
      BY <1>2 DEF PostNew, Acceptable
    <3>3. QED
      BY <1>2, <2>3, <3>1, <3>2
  <2>4. CASE d # n
    <3>1. Same(docs[d], docs'[d])
      BY <2>4
    <3>2. docs[d].source # None =>
            /\ docs[d].source \in Docs
            /\ docs[d].source # n
            /\ docs[docs[d].source].type \in OrderTypes
      BY <1>3, <2>1, <2>2 DEF RowsWellFormed, TypeOK, Doc
    <3>3. docs[d].source # None => docs'[docs[d].source].type \in OrderTypes
      BY <3>2 DEF Same
    <3>4. QED
      BY <2>1, <3>1, <3>2, <3>3 DEF RowsWellFormed, Same, Exists
  <2>5. QED
    BY <2>3, <2>4
<1>6. SettledInvoicesStay'
  <2> SUFFICES ASSUME NEW p \in Docs, NEW e \in Docs, alloc'[p][e] > 0
               PROVE  docs'[e].status \notin {"NONE", "HELD"} /\ ~docs'[e].deleted
    BY DEF SettledInvoicesStay, Live, Exists, Posted
  <2>1. Live(e) /\ Posted(docs[e])
    BY DEF CoreInv, SettledInvoicesStay
  <2>2. e # n
    BY <2>1 DEF Live
  <2>3. QED
    BY <2>1, <2>2 DEF Same, Live, Exists, Posted
<1>7. ChequesFollowDocs'
  <2> SUFFICES ASSUME NEW d \in Docs
               PROVE  /\ cheques'[d].status # "NONE" <=>
                           /\ docs'[d].status \notin {"NONE", "HELD"}
                           /\ ~docs'[d].deleted
                           /\ docs'[d].own > 0 /\ docs'[d].method = "CHEQUE"
                      /\ cheques'[d].status = "CLOSED" <=> cheques'[d].account # None
    BY DEF ChequesFollowDocs, InForce, Live, Exists, Posted, PaysByCheque
  <2>1. /\ cheques[d].status # "NONE" <=>
            /\ docs[d].status \notin {"NONE", "HELD"}
            /\ ~docs[d].deleted
            /\ docs[d].own > 0 /\ docs[d].method = "CHEQUE"
        /\ cheques[d].status = "CLOSED" <=> cheques[d].account # None
    BY DEF CoreInv, ChequesFollowDocs, InForce, Live, Exists, Posted, PaysByCheque
  <2>2. cheques' = IF PaysByCheque(t)
                   THEN [cheques EXCEPT ![n] = [status |-> "OPEN", account |-> None]]
                   ELSE cheques
    BY DEF PostNew, Pay
  <2>3. CASE d = n
    BY <1>2, <1>3, <2>1, <2>2, <2>3 DEF TypeOK, Cheque, PaysByCheque, Exists
  <2>4. CASE d # n
    BY <1>3, <2>1, <2>2, <2>4 DEF TypeOK, Same
  <2>5. QED
    BY <2>3, <2>4
<1>8. QED
  BY <1>4, <1>5, <1>6, <1>7 DEF CoreInv

LEMMA PostNewPosts ==
  ASSUME NEW n \in Docs, NEW in \in Request, NEW acct,
         NEW source \in Docs \cup {None}, NEW against \in Docs \cup {None},
         ~in.hold, ~Exists(n),
         PostNew(n, in, NewDoc(in, acct, source, against), acct),
         docs' \in [Docs -> Doc],
         docs'[n] = NewDoc(in, acct, source, against),
         \A e \in Docs \ {n} : Same(docs[e], docs'[e]),
         UNCHANGED <<counts, miscounted, transfers>>
  PROVE  Posts(n)
<1> DEFINE t == NewDoc(in, acct, source, against)
<1>1. t.status \notin {"NONE", "HELD"} /\ ~t.deleted
  BY SettlementType DEF NewDoc
<1>2. PostStockAndParty(docs'[n], FALSE)
  BY DEF PostNew
<1> HIDE DEF t
<1>3. QED
  BY <1>1, <1>2 DEF Posts, Frame, InForce, Live, t

LEMMA CreateTxnInv ==
  ASSUME CoreInv, NEW n \in Docs, NEW in \in Inputs, CreateTxn(n, in)
  PROVE  CoreInv' /\ Posts(n)
<1>1. PICK acct \in ResolveMoneyAccount(in.shop, in.method, in.pick) :
        LET t == NewDoc(in, acct, None, None)
        IN  /\ PostNew(n, in, t, acct)
            /\ docs' = [docs EXCEPT ![n] = t]
  BY DEF CreateTxn
<1>2. /\ in \in Request /\ ~in.hold /\ ~Exists(n) /\ alloc' = alloc
      /\ UNCHANGED <<counts, miscounted, transfers>>
  BY InputsAssumption DEF CreateTxn, IsNext
<1>3. in.method \in Kinds => acct \in AccountIds \cup {None}
  BY <1>2, ResolveType DEF CoreInv, TypeOK, Request
<1>4. NewDoc(in, acct, None, None) \in Doc
  BY <1>2, <1>3, NewDocType DEF CoreInv
<1>5. /\ docs' \in [Docs -> Doc]
      /\ docs'[n] = NewDoc(in, acct, None, None)
      /\ \A e \in Docs \ {n} : Same(docs[e], docs'[e])
  BY <1>1, <1>4, SameRefl DEF CoreInv, TypeOK
<1>6. \A e \in Docs : alloc'[n][e] > 0 => Live(e) /\ Posted(docs[e])
  BY <1>2 DEF CoreInv, SettledInvoicesStay
<1>7. QED
  BY <1>1, <1>2, <1>3, <1>5, <1>6, PostNewInv, PostNewPosts DEF CoreInv, TypeOK

LEMMA HoldBillInv ==
  ASSUME CoreInv, NEW n \in Docs, NEW in \in Inputs, HoldBill(n, in)
  PROVE  CoreInv' /\ Rests(n)
<1> DEFINE t == NewDoc(in, None, None, None)
<1>1. in \in Request /\ in.hold /\ in.type = "SALE_INVOICE" /\ in.own = 0
  BY InputsAssumption DEF HoldBill
<1>2. t \in Doc
  BY <1>1, NewDocType DEF CoreInv
<1>3. /\ t.status = "HELD" /\ t.own = 0 /\ t.source = None
      /\ t.type = "SALE_INVOICE" /\ t.item = in.item /\ in.item # None
  BY <1>1 DEF NewDoc, HoldBill, Acceptable, LineTypes
<1>4. docs' = [docs EXCEPT ![n] = t] /\ ~Exists(n)
  BY DEF HoldBill, IsNext
<1>5. TypeOK'
  BY <1>2, <1>4 DEF HoldBill, CoreInv, TypeOK
<1>6. docs[n].type \notin OrderTypes
  BY <1>4 DEF CoreInv, RowsWellFormed, BlankDoc, OrderTypes
<1>7. RowsWellFormed'
  <2> SUFFICES ASSUME NEW d \in Docs
               PROVE  /\ docs'[d].status = "NONE" => docs'[d] = BlankDoc
                      /\ docs'[d].status # "NONE" /\ docs'[d].type \in LineTypes
                           => docs'[d].item # None
                      /\ docs'[d].status = "HELD"
                           => docs'[d].type = "SALE_INVOICE" /\ docs'[d].own = 0
                      /\ docs'[d].source # None
                           => /\ docs'[d].type \notin OrderTypes
                              /\ docs'[docs'[d].source].type \in OrderTypes
    BY DEF RowsWellFormed, Exists, BlankDoc, HomeShop
  <2>1. RowsWellFormed /\ TypeOK
    BY DEF CoreInv
  <2>2. CASE d = n
    BY <1>3, <1>4, <2>1, <2>2 DEF TypeOK
  <2>3. CASE d # n
    <3>1. docs'[d] = docs[d]
      BY <1>4, <2>1, <2>3 DEF TypeOK
    <3>2. docs[d].source # None => /\ docs[d].source \in Docs
                                   /\ docs[docs[d].source].type \in OrderTypes
      BY <2>1 DEF RowsWellFormed, TypeOK, Doc
    <3>3. docs[d].source # None => docs'[docs[d].source].type \in OrderTypes
      BY <1>4, <1>6, <2>1, <3>2 DEF TypeOK
    <3>4. QED
      BY <2>1, <3>1, <3>2, <3>3 DEF RowsWellFormed, Exists
  <2>4. QED
    BY <2>2, <2>3
<1>8. SettledInvoicesStay'
  BY <1>4 DEF HoldBill, CoreInv, SettledInvoicesStay, Live, Exists, Posted, TypeOK
<1>9. ChequesFollowDocs'
  BY <1>3, <1>4
  DEF HoldBill, CoreInv, ChequesFollowDocs, InForce, Live, Exists, Posted, PaysByCheque, TypeOK
<1>10. Rests(n)
  BY <1>3, <1>4, <1>5, SameRefl
  DEF HoldBill, Rests, Frame, InForce, Live, Exists, CoreInv, TypeOK
<1>11. QED
  BY <1>5, <1>7, <1>8, <1>9, <1>10 DEF CoreInv

LEMMA CreatePaymentInv ==
  ASSUME CoreInv, NEW n \in Docs, NEW in \in Inputs, NEW al \in [Docs -> Nat],
         \A e \in Docs : al[e] > 0 => Live(e) /\ Posted(docs[e]),
         IsNext(n), CreatePayment(n, in, al)
  PROVE  CoreInv' /\ Posts(n)
<1>1. PICK acct \in ResolveMoneyAccount(in.shop, in.method, in.pick) :
        LET t == NewDoc(in, acct, None, None)
        IN  /\ PostNew(n, in, t, acct)
            /\ docs' = [Allocated(docs, al, FALSE) EXCEPT ![n] = t]
  BY DEF CreatePayment
<1>2. /\ in \in Request /\ ~in.hold /\ ~Exists(n) /\ alloc' = [alloc EXCEPT ![n] = al]
      /\ UNCHANGED <<counts, miscounted, transfers>>
  BY InputsAssumption DEF CreatePayment, IsNext
<1>3. in.method \in Kinds => acct \in AccountIds \cup {None}
  BY <1>2, ResolveType DEF CoreInv, TypeOK, Request
<1>4. NewDoc(in, acct, None, None) \in Doc
  BY <1>2, <1>3, NewDocType DEF CoreInv
<1>5. Allocated(docs, al, FALSE) \in [Docs -> Doc]
  BY AllocatedType DEF CoreInv
<1>6. \A e \in Docs : Same(docs[e], Allocated(docs, al, FALSE)[e])
  BY AllocatedSame DEF CoreInv, Live
<1>7. /\ docs' \in [Docs -> Doc]
      /\ docs'[n] = NewDoc(in, acct, None, None)
      /\ \A e \in Docs \ {n} : Same(docs[e], docs'[e])
  BY <1>1, <1>4, <1>5, <1>6
<1>8. alloc' \in [Docs -> [Docs -> Nat]]
  BY <1>2 DEF CoreInv, TypeOK
<1>9. QED
  BY <1>1, <1>2, <1>3, <1>7, <1>8, PostNewInv, PostNewPosts DEF CoreInv, TypeOK

LEMMA RefundInv ==
  ASSUME CoreInv, Slips = {}, NEW n \in Docs, NEW d \in Docs, NEW qty \in Nat,
         NEW full \in BOOLEAN, NEW cash \in BOOLEAN, RefundInvoice(n, d, qty, full, cash)
  PROVE  CoreInv' /\ Posts(n)
<1> DEFINE total == IF full /\ ~HasReturns(d) THEN docs[d].total
                    ELSE qty * Price[docs[d].item]
           in == [type |-> "CREDIT_NOTE", shop |-> docs[d].shop, party |-> docs[d].party,
                  to |-> None, item |-> docs[d].item, qty |-> qty, total |-> total,
                  method |-> "CASH", own |-> IF cash THEN total ELSE 0,
                  pick |-> None, hold |-> FALSE]
<1>1. PICK acct \in ResolveMoneyAccount(in.shop, in.method, in.pick) :
        /\ PostNew(n, in, NewDoc(in, acct, None, d), acct)
        /\ docs' = [e \in Docs |->
                      IF e = n THEN NewDoc(in, acct, None, d)
                      ELSE IF e = d /\ Returned(d) + qty >= docs[d].qty
                      THEN [docs[d] EXCEPT !.status = "REFUNDED"]
                      ELSE docs[e]]
  BY DEF RefundInvoice
<1>2. /\ Exists(d) /\ docs[d].type = "SALE_INVOICE" /\ docs[d].status # "HELD"
      /\ alloc' = alloc /\ ~Exists(n) /\ UNCHANGED <<counts, miscounted, transfers>>
  BY DEF RefundInvoice, IsNext
<1>3. docs[d] \in Doc
  BY DEF CoreInv, TypeOK
<1>4. docs[d].item \in Items
  BY <1>2, <1>3 DEF CoreInv, RowsWellFormed, LineTypes, Doc
<1>5. Price[docs[d].item] \in Nat
  BY <1>4, ItemsAssumption
<1>6. qty * Price[docs[d].item] \in Nat
  BY <1>5
<1>7. total \in Nat
  BY <1>3, <1>6 DEF Doc
<1> HIDE DEF total
<1>8. in \in Request
  BY <1>3, <1>7, KindsAssumption DEF Request, Doc, TxnTypes, LineTypes, Methods
<1>9. in.method \in Kinds => acct \in AccountIds \cup {None}
  BY <1>8, ResolveType DEF CoreInv, TypeOK, Request
<1>10. ~in.hold /\ in.type = "CREDIT_NOTE"
  OBVIOUS
<1> HIDE DEF in
<1>11. NewDoc(in, acct, None, d) \in Doc
  BY <1>8, <1>9, NewDocType DEF CoreInv
<1>12. [docs[d] EXCEPT !.status = "REFUNDED"] \in Doc
  BY <1>3 DEF Doc, Statuses
<1>13. Same(docs[d], [docs[d] EXCEPT !.status = "REFUNDED"])
  BY <1>2, <1>3 DEF Same, Doc, Exists
<1>14. /\ docs' \in [Docs -> Doc]
       /\ docs'[n] = NewDoc(in, acct, None, d)
       /\ \A e \in Docs \ {n} : Same(docs[e], docs'[e])
  BY <1>1, <1>11, <1>12, <1>13, SameRefl DEF CoreInv, TypeOK
<1>15. \A e \in Docs : alloc'[n][e] > 0 => Live(e) /\ Posted(docs[e])
  BY <1>2 DEF CoreInv, SettledInvoicesStay
<1>16. QED
  BY <1>1, <1>2, <1>8, <1>9, <1>10, <1>14, <1>15, PostNewInv, PostNewPosts DEF CoreInv, TypeOK

LEMMA ConvertInv ==
  ASSUME CoreInv, NEW n \in Docs, NEW d \in Docs, NEW qty \in Nat,
         NEW part \in BOOLEAN, NEW cash \in BOOLEAN, ConvertTxn(n, d, qty, part, cash)
  PROVE  CoreInv' /\ Posts(n)
<1> DEFINE total == IF part THEN qty * Price[docs[d].item] ELSE docs[d].total
           in == [type |-> IF docs[d].type = "PURCHASE_ORDER" THEN "PURCHASE_BILL"
                           ELSE "SALE_INVOICE",
                  shop |-> docs[d].shop, party |-> docs[d].party, to |-> None,
                  item |-> docs[d].item, qty |-> qty, total |-> total,
                  method |-> "CASH", own |-> IF cash THEN total ELSE 0,
                  pick |-> None, hold |-> FALSE]
           status == StatusConverted(d, qty, part)
<1>1. PICK acct \in ResolveMoneyAccount(in.shop, in.method, in.pick) :
        /\ PostNew(n, in, NewDoc(in, acct, d, None), acct)
        /\ docs' = [docs EXCEPT ![n] = NewDoc(in, acct, d, None), ![d].status = status]
  BY DEF ConvertTxn
<1>2. /\ Exists(d) /\ docs[d].type \in OrderTypes
      /\ alloc' = alloc /\ ~Exists(n) /\ UNCHANGED <<counts, miscounted, transfers>>
  BY DEF ConvertTxn, IsNext
<1>3. docs[d] \in Doc
  BY DEF CoreInv, TypeOK
<1>4. docs[d].item \in Items /\ docs[d].status # "HELD" /\ n # d
  BY <1>2, <1>3 DEF CoreInv, RowsWellFormed, LineTypes, OrderTypes, Doc
<1>5. Price[docs[d].item] \in Nat
  BY <1>4, ItemsAssumption
<1>6. qty * Price[docs[d].item] \in Nat
  BY <1>5
<1>7. total \in Nat
  BY <1>3, <1>6 DEF Doc
<1>8. status \in Statuses \ {"NONE", "HELD"}
  <2>1. docs[d].status \in Statuses \ {"NONE", "HELD"}
    BY <1>2, <1>3, <1>4 DEF Doc, Exists
  <2>2. {"CONVERTED", "ORDER_CLOSED"} \subseteq Statuses \ {"NONE", "HELD"}
    BY DEF Statuses
  <2>3. QED
    BY <2>1, <2>2 DEF StatusConverted
<1> HIDE DEF total, status
<1>9. in \in Request
  BY <1>3, <1>7, KindsAssumption DEF Request, Doc, TxnTypes, LineTypes, Methods
<1>10. in.method \in Kinds => acct \in AccountIds \cup {None}
  BY <1>9, ResolveType DEF CoreInv, TypeOK, Request
<1>11. ~in.hold /\ in.type \notin OrderTypes
  BY DEF OrderTypes
<1> HIDE DEF in
<1>12. NewDoc(in, acct, d, None) \in Doc
  BY <1>9, <1>10, NewDocType DEF CoreInv
<1>13. [docs[d] EXCEPT !.status = status] \in Doc
  BY <1>3, <1>8 DEF Doc
<1>14. Same(docs[d], [docs[d] EXCEPT !.status = status])
  BY <1>2, <1>3, <1>4, <1>8 DEF Same, Doc, Exists
<1>15. /\ docs' \in [Docs -> Doc]
       /\ docs'[n] = NewDoc(in, acct, d, None)
       /\ \A e \in Docs \ {n} : Same(docs[e], docs'[e])
  BY <1>1, <1>4, <1>12, <1>13, <1>14, SameRefl DEF CoreInv, TypeOK
<1>16. \A e \in Docs : alloc'[n][e] > 0 => Live(e) /\ Posted(docs[e])
  BY <1>2 DEF CoreInv, SettledInvoicesStay
<1>17. QED
  BY <1>1, <1>2, <1>9, <1>10, <1>11, <1>15, <1>16, PostNewInv, PostNewPosts DEF CoreInv, TypeOK

LEMMA AutoInv ==
  ASSUME CoreInv, NEW n \in Docs, NEW in \in Inputs, CreatePaymentAuto(n, in)
  PROVE  CoreInv' /\ Posts(n)
<1>1. PICK al \in AutoAllocations(in) : CreatePayment(n, in, al)
  BY DEF CreatePaymentAuto
<1>2. /\ al \in [Docs -> 0 .. in.total]
      /\ \A e \in Docs : e \notin Owing(in) => al[e] = 0
  BY DEF AutoAllocations
<1>3. in.total \in Nat
  BY InputsAssumption DEF Request
<1>4. al \in [Docs -> Nat]
  BY <1>2, <1>3
<1>5. \A e \in Docs : al[e] > 0 => Live(e) /\ Posted(docs[e])
  BY <1>2 DEF Owing, Posted
<1>6. QED
  BY <1>1, <1>4, <1>5, CreatePaymentInv DEF CreatePaymentAuto

LEMMA ManualInv ==
  ASSUME CoreInv, Slips = {}, NEW n \in Docs, NEW in \in Inputs, CreatePaymentManual(n, in)
  PROVE  CoreInv' /\ Posts(n)
<1>1. PICK al \in ManualAllocations(in) : CreatePayment(n, in, al)
  BY DEF CreatePaymentManual
<1>2. /\ al \in [Docs -> 0 .. in.total]
      /\ \A e \in Docs : al[e] > 0 => Live(e) /\ Posted(docs[e])
  BY DEF ManualAllocations, Live, Posted
<1>3. in.total \in Nat
  BY InputsAssumption DEF Request
<1>4. al \in [Docs -> Nat]
  BY <1>2, <1>3
<1>5. QED
  BY <1>1, <1>2, <1>4, CreatePaymentInv DEF CreatePaymentManual

LEMMA ResumeInv ==
  ASSUME CoreInv, Slips = {}, NEW d \in Docs, NEW in \in Inputs, ResumeHeld(d, in)
  PROVE  CoreInv' /\ Posts(d)
<1> DEFINE req == [in EXCEPT !.party = docs[d].party]
           new(acct) == NewDoc(req, acct, docs[d].source, docs[d].against)
           t(acct) == [new(acct) EXCEPT !.deleted = docs[d].deleted]
<1>1. PICK acct \in ResolveMoneyAccount(in.shop, in.method, in.pick) :
        /\ PostStockAndParty(t(acct), FALSE)
        /\ Pay(d, t(acct), acct)
        /\ docs' = [docs EXCEPT ![d] = t(acct)]
  BY DEF ResumeHeld
<1>2. /\ docs[d].status = "HELD" /\ ~docs[d].deleted
      /\ in.type = docs[d].type /\ ~in.hold /\ Acceptable(in)
      /\ alloc' = alloc /\ UNCHANGED <<counts, miscounted, transfers>>
  BY DEF ResumeHeld
<1>3. docs[d] \in Doc /\ in \in Request
  BY InputsAssumption DEF CoreInv, TypeOK
<1>4. in.type = "SALE_INVOICE" /\ in.item # None
  BY <1>2 DEF CoreInv, RowsWellFormed, Acceptable, LineTypes
<1>5. req \in Request
  BY <1>3 DEF Request, Doc
<1>6. in.method \in Kinds => acct \in AccountIds \cup {None}
  BY <1>3, ResolveType DEF CoreInv, TypeOK, Request
<1>7. new(acct) \in Doc
  BY <1>3, <1>5, <1>6, NewDocType DEF Request, Doc, CoreInv
<1>8. t(acct) \in Doc
  BY <1>3, <1>7 DEF Doc
<1>9. /\ t(acct).status \notin {"NONE", "HELD"} /\ ~t(acct).deleted
      /\ t(acct).type = "SALE_INVOICE" /\ t(acct).item # None
      /\ t(acct).source = docs[d].source
      /\ (t(acct).own > 0 /\ t(acct).method \in Kinds => t(acct).method = in.method)
  <2>1. /\ new(acct).status \notin {"NONE", "HELD"}
        /\ new(acct).type = in.type /\ new(acct).item = in.item
        /\ new(acct).source = docs[d].source /\ new(acct).method = in.method
    BY <1>2, <1>3, <1>4, SettlementType DEF NewDoc, Request, OrderTypes, PaymentTypes
  <2>2. QED
    BY <1>2, <1>4, <1>7, <2>1 DEF Doc
<1> HIDE DEF t, new, req
<1>10. TypeOK'
  <2>1. /\ currentStock' \in [Items -> Int]
        /\ stockLevel' \in [Shops \X Items -> Int]
        /\ partyBalance' \in [Parties -> Int]
    BY <1>1, <1>8, PostTypes DEF CoreInv
  <2>2. PaysInto(t(acct)) => acct \in AccountIds \cup {None}
    BY <1>6, <1>9 DEF PaysInto
  <2>3. /\ accountBalance' \in [AccountIds -> Int]
        /\ accounts' \subseteq AccountIds
        /\ cheques' \in [Docs -> Cheque]
    BY <1>1, <1>8, <2>2, PayTypes DEF CoreInv
  <2>4. QED
    BY <1>1, <1>2, <1>8, <2>1, <2>3 DEF TypeOK, CoreInv
<1>11. RowsWellFormed'
  <2> SUFFICES ASSUME NEW e \in Docs
               PROVE  /\ docs'[e].status = "NONE" => docs'[e] = BlankDoc
                      /\ docs'[e].status # "NONE" /\ docs'[e].type \in LineTypes
                           => docs'[e].item # None
                      /\ docs'[e].status = "HELD"
                           => docs'[e].type = "SALE_INVOICE" /\ docs'[e].own = 0
                      /\ docs'[e].source # None
                           => /\ docs'[e].type \notin OrderTypes
                              /\ docs'[docs'[e].source].type \in OrderTypes
    BY DEF RowsWellFormed, Exists, BlankDoc, HomeShop
  <2>1. RowsWellFormed /\ TypeOK
    BY DEF CoreInv
  <2>2. docs'[e].source = docs[e].source /\ docs'[e].type = docs[e].type
    BY <1>1, <1>2, <1>4, <1>9, <2>1 DEF TypeOK
  <2>3. docs[e].source # None => docs[e].source \in Docs
    BY <2>1 DEF TypeOK, Doc
  <2>4. docs[e].source # None => docs'[docs[e].source].type = docs[docs[e].source].type
    BY <1>1, <1>2, <1>4, <1>9, <2>1, <2>3 DEF TypeOK
  <2>5. CASE e = d
    BY <1>1, <1>9, <2>1, <2>2, <2>4, <2>5 DEF TypeOK, RowsWellFormed
  <2>6. CASE e # d
    BY <1>1, <2>1, <2>2, <2>4, <2>6 DEF TypeOK, RowsWellFormed, Exists
  <2>7. QED
    BY <2>5, <2>6
<1>12. SettledInvoicesStay'
  BY <1>1, <1>2 DEF CoreInv, SettledInvoicesStay, Live, Exists, Posted, TypeOK
<1>13. ChequesFollowDocs'
  <2> SUFFICES ASSUME NEW e \in Docs
               PROVE  /\ cheques'[e].status # "NONE" <=>
                           /\ docs'[e].status \notin {"NONE", "HELD"}
                           /\ ~docs'[e].deleted
                           /\ docs'[e].own > 0 /\ docs'[e].method = "CHEQUE"
                      /\ cheques'[e].status = "CLOSED" <=> cheques'[e].account # None
    BY DEF ChequesFollowDocs, InForce, Live, Exists, Posted, PaysByCheque
  <2>1. /\ cheques[e].status # "NONE" <=>
            /\ docs[e].status \notin {"NONE", "HELD"}
            /\ ~docs[e].deleted
            /\ docs[e].own > 0 /\ docs[e].method = "CHEQUE"
        /\ cheques[e].status = "CLOSED" <=> cheques[e].account # None
    BY DEF CoreInv, ChequesFollowDocs, InForce, Live, Exists, Posted, PaysByCheque
  <2>2. cheques' = IF PaysByCheque(t(acct))
                   THEN [cheques EXCEPT ![d] = [status |-> "OPEN", account |-> None]]
                   ELSE cheques
    BY <1>1 DEF Pay
  <2>3. CASE e = d
    BY <1>1, <1>2, <1>9, <2>1, <2>2, <2>3 DEF CoreInv, TypeOK, Cheque, PaysByCheque
  <2>4. CASE e # d
    BY <1>1, <2>1, <2>2, <2>4 DEF CoreInv, TypeOK
  <2>5. QED
    BY <2>3, <2>4
<1>14. docs' \in [Docs -> Doc] /\ docs \in [Docs -> Doc]
  BY <1>10 DEF TypeOK, CoreInv
<1>15. Frame(d)
  BY <1>1, <1>2, <1>14, SameRefl DEF Frame
<1>16. Posts(d)
  BY <1>1, <1>2, <1>9, <1>14, <1>15 DEF Posts, InForce, Posted
<1>17. QED
  BY <1>10, <1>11, <1>12, <1>13, <1>16 DEF CoreInv

(* What deleting and restoring leave of a row. *)
Alike(t, u) ==
    /\ u.type = t.type /\ u.shop = t.shop /\ u.party = t.party /\ u.to = t.to
    /\ u.item = t.item /\ u.qty = t.qty /\ u.total = t.total
    /\ u.method = t.method /\ u.own = t.own /\ u.acct = t.acct
    /\ u.paid = t.paid /\ u.status = t.status
    /\ u.source = t.source /\ u.against = t.against

LEMMA RecountedType ==
  ASSUME TypeOK, NEW t \in Doc
  PROVE  /\ Recounted(t) \in Doc /\ Alike(t, Recounted(t))
         /\ Recounted(t).deleted = t.deleted
<1>1. Counted(t) \in Nat
  BY CountedType DEF TypeOK, Doc
<1>2. QED
  BY <1>1 DEF Recounted, Doc, Alike

(* Deleting: no invoice is settled by a row of d that is not there, and    *)
(* the order that d came from opens again.                                 *)
LEMMA DeleteShape ==
  ASSUME CoreInv, NEW d \in Docs, DeleteTxn(d)
  PROVE  /\ docs' \in [Docs -> Doc]
         /\ docs'[d] = [docs[d] EXCEPT !.deleted = TRUE]
         /\ Alike(docs[d], docs'[d]) /\ docs'[d].deleted
         /\ \A e \in Docs \ {d} : Same(docs[e], docs'[e])
<1> DEFINE released == IF Posted(docs[d]) THEN Allocated(docs, alloc[d], TRUE) ELSE docs
<1>1. docs' = [e \in Docs |->
                 IF e = d THEN [docs[d] EXCEPT !.deleted = TRUE]
                 ELSE IF e = docs[d].source THEN [docs[e] EXCEPT !.status = "ORDER_OPEN"]
                 ELSE released[e]]
  BY DEF DeleteTxn
<1>2. alloc[d] \in [Docs -> Nat] /\ docs \in [Docs -> Doc]
  BY DEF CoreInv, TypeOK
<1>3. \A e \in Docs : alloc[d][e] > 0 => Exists(e) /\ Posted(docs[e])
  BY DEF CoreInv, SettledInvoicesStay, Live
<1>4. Allocated(docs, alloc[d], TRUE) \in [Docs -> Doc]
  BY <1>2, AllocatedType DEF CoreInv
<1>5. \A e \in Docs : Same(docs[e], Allocated(docs, alloc[d], TRUE)[e])
  BY <1>2, <1>3, AllocatedSame DEF CoreInv
<1>6. released \in [Docs -> Doc] /\ \A e \in Docs : Same(docs[e], released[e])
  BY <1>2, <1>4, <1>5, SameRefl
<1>7. LET u == [docs[d] EXCEPT !.deleted = TRUE]
      IN  u \in Doc /\ Alike(docs[d], u) /\ u.deleted
  BY <1>2 DEF Doc, Alike
<1>8. ASSUME NEW e \in Docs, e = docs[d].source
      PROVE  /\ [docs[e] EXCEPT !.status = "ORDER_OPEN"] \in Doc
             /\ Same(docs[e], [docs[e] EXCEPT !.status = "ORDER_OPEN"])
  <2>1. docs[e] \in Doc
    BY <1>2
  <2>2. e # None
    BY NoneAssumption
  <2>3. docs[e].type \in OrderTypes
    BY <1>8, <2>2 DEF CoreInv, RowsWellFormed
  <2>4. docs[e].status \notin {"NONE", "HELD"}
    BY <2>3 DEF CoreInv, RowsWellFormed, Exists, BlankDoc, OrderTypes
  <2>5. QED
    BY <2>1, <2>4 DEF Doc, Statuses, Same
<1> HIDE DEF released
<1>9. QED
  BY <1>1, <1>6, <1>7, <1>8

(* The row a restored document is posted from. *)
Again(d) == [docs[d] EXCEPT !.moved = IF Posted(docs[d]) THEN Counted(docs[d]) ELSE @]

LEMMA RestoreShape ==
  ASSUME CoreInv, NEW d \in Docs, RestoreTxn(d)
  PROVE  /\ docs' \in [Docs -> Doc]
         /\ Again(d) \in Doc /\ docs'[d] = [Again(d) EXCEPT !.deleted = FALSE]
         /\ Alike(docs[d], docs'[d]) /\ ~docs'[d].deleted
         /\ \A e \in Docs \ {d} : Same(docs[e], docs'[e])
<1> DEFINE applied == IF Posted(docs[d]) THEN Allocated(docs, alloc[d], FALSE) ELSE docs
<1>1. docs' = [applied EXCEPT ![d] = [Again(d) EXCEPT !.deleted = FALSE]]
  BY DEF RestoreTxn, Again
<1>2. alloc[d] \in [Docs -> Nat] /\ docs \in [Docs -> Doc]
  BY DEF CoreInv, TypeOK
<1>3. \A e \in Docs : alloc[d][e] > 0 => Exists(e) /\ Posted(docs[e])
  BY DEF CoreInv, SettledInvoicesStay, Live
<1>4. Allocated(docs, alloc[d], FALSE) \in [Docs -> Doc]
  BY <1>2, AllocatedType DEF CoreInv
<1>5. \A e \in Docs : Same(docs[e], Allocated(docs, alloc[d], FALSE)[e])
  BY <1>2, <1>3, AllocatedSame DEF CoreInv
<1>6. applied \in [Docs -> Doc] /\ \A e \in Docs : Same(docs[e], applied[e])
  BY <1>2, <1>4, <1>5, SameRefl
<1>7. LET u == [Again(d) EXCEPT !.deleted = FALSE]
      IN  Again(d) \in Doc /\ u \in Doc /\ Alike(docs[d], u) /\ ~u.deleted
  <2> DEFINE n == IF Posted(docs[d]) THEN Counted(docs[d]) ELSE docs[d].moved
  <2>1. Counted(docs[d]) \in Nat /\ docs[d] \in Doc
    BY <1>2, CountedType DEF CoreInv, TypeOK, Doc
  <2>2. n \in Nat /\ Again(d) = [docs[d] EXCEPT !.moved = n]
    BY <2>1 DEF Again, Doc
  <2> HIDE DEF n
  <2>3. QED
    BY <2>1, <2>2 DEF Doc, Alike
<1> HIDE DEF applied
<1>8. QED
  BY <1>1, <1>6, <1>7

(* Rows stay well formed when d is deleted or restored. *)
LEMMA FlagRows ==
  ASSUME CoreInv, NEW d \in Docs, Exists(d),
         docs' \in [Docs -> Doc], Alike(docs[d], docs'[d]),
         \A e \in Docs \ {d} : Same(docs[e], docs'[e])
  PROVE  RowsWellFormed'
<1> SUFFICES ASSUME NEW e \in Docs
             PROVE  /\ docs'[e].status = "NONE" => docs'[e] = BlankDoc
                    /\ docs'[e].status # "NONE" /\ docs'[e].type \in LineTypes
                         => docs'[e].item # None
                    /\ docs'[e].status = "HELD"
                         => docs'[e].type = "SALE_INVOICE" /\ docs'[e].own = 0
                    /\ docs'[e].source # None
                         => /\ docs'[e].type \notin OrderTypes
                            /\ docs'[docs'[e].source].type \in OrderTypes
  BY DEF RowsWellFormed, Exists, BlankDoc, HomeShop
<1>1. RowsWellFormed /\ docs \in [Docs -> Doc]
  BY DEF CoreInv, TypeOK
<1>2. \A x \in Docs : docs'[x].type = docs[x].type
  BY <1>1 DEF Same, Alike
<1>3. docs[e].source # None => docs[e].source \in Docs
  BY <1>1 DEF Doc
<1>4. CASE e = d
  <2>1. /\ docs'[d].source = docs[d].source /\ docs'[d].status = docs[d].status
        /\ docs'[d].item = docs[d].item /\ docs'[d].own = docs[d].own
    BY DEF Alike
  <2>2. docs[d].source # None => /\ docs[d].type \notin OrderTypes
                                 /\ docs'[docs[d].source].type \in OrderTypes
    BY <1>1, <1>2, <1>3, <1>4 DEF RowsWellFormed
  <2>3. docs'[d].type = docs[d].type /\ docs[d].status # "NONE"
    BY <1>2 DEF Exists
  <2>4. /\ docs[d].type \in LineTypes => docs[d].item # None
        /\ docs[d].status = "HELD" => docs[d].type = "SALE_INVOICE" /\ docs[d].own = 0
    BY <1>1 DEF RowsWellFormed, Exists
  <2>5. QED
    BY <1>4, <2>1, <2>2, <2>3, <2>4
<1>5. CASE e # d
  BY <1>1, <1>2, <1>3, <1>5 DEF RowsWellFormed, Exists, Same
<1>6. QED
  BY <1>4, <1>5

LEMMA DeleteInv ==
  ASSUME CoreInv, NEW d \in Docs, DeleteTxn(d)
  PROVE  CoreInv' /\ (Reverses(d) \/ Rests(d))
<1>1. /\ docs' \in [Docs -> Doc]
      /\ Alike(docs[d], docs'[d]) /\ docs'[d].deleted
      /\ \A e \in Docs \ {d} : Same(docs[e], docs'[e])
  BY DeleteShape
<1>2. /\ Live(d) /\ alloc' = alloc /\ \A p \in Docs : ~(alloc[p][d] > 0)
      /\ UNCHANGED <<counts, transfers>>
  BY DEF DeleteTxn, Undeletable
<1>3. docs[d] \in Doc
  BY DEF CoreInv, TypeOK
<1>4. TypeOK'
  <2>1. CASE Posted(docs[d])
    <3>1. PostStockAndParty(Recounted(docs[d]), TRUE) /\ Unpay(d, docs[d])
      BY <2>1 DEF DeleteTxn, Recounted
    <3>2. miscounted' \subseteq Items
      BY <2>1 DEF DeleteTxn, CoreInv, TypeOK
    <3>3. Recounted(docs[d]) \in Doc
      BY <1>3, RecountedType DEF CoreInv
    <3>4. QED
      BY <1>1, <1>2, <1>3, <3>1, <3>2, <3>3, PostTypes, UnpayTypes DEF CoreInv, TypeOK
  <2>2. CASE ~Posted(docs[d])
    BY <1>1, <1>2, <2>2 DEF DeleteTxn, CoreInv, TypeOK
  <2>3. QED
    BY <2>1, <2>2
<1>5. RowsWellFormed'
  BY <1>1, <1>2, FlagRows DEF Live
<1>6. SettledInvoicesStay'
  <2> SUFFICES ASSUME NEW p \in Docs, NEW e \in Docs, alloc'[p][e] > 0
               PROVE  docs'[e].status \notin {"NONE", "HELD"} /\ ~docs'[e].deleted
    BY DEF SettledInvoicesStay, Live, Exists, Posted
  <2>1. e # d
    BY <1>2
  <2>2. Live(e) /\ Posted(docs[e])
    BY <1>2 DEF CoreInv, SettledInvoicesStay
  <2>3. QED
    BY <1>1, <2>1, <2>2 DEF Same, Live, Exists, Posted
<1>7. ChequesFollowDocs'
  <2> SUFFICES ASSUME NEW e \in Docs
               PROVE  /\ cheques'[e].status # "NONE" <=>
                           /\ docs'[e].status \notin {"NONE", "HELD"}
                           /\ ~docs'[e].deleted
                           /\ docs'[e].own > 0 /\ docs'[e].method = "CHEQUE"
                      /\ cheques'[e].status = "CLOSED" <=> cheques'[e].account # None
    BY DEF ChequesFollowDocs, InForce, Live, Exists, Posted, PaysByCheque
  <2>1. /\ cheques[e].status # "NONE" <=>
            /\ docs[e].status \notin {"NONE", "HELD"}
            /\ ~docs[e].deleted
            /\ docs[e].own > 0 /\ docs[e].method = "CHEQUE"
        /\ cheques[e].status = "CLOSED" <=> cheques[e].account # None
    BY DEF CoreInv, ChequesFollowDocs, InForce, Live, Exists, Posted, PaysByCheque
  <2>2. cheques' = IF Posted(docs[d]) /\ PaysByCheque(docs[d])
                   THEN [cheques EXCEPT ![d] = NoCheque] ELSE cheques
    BY DEF DeleteTxn, Unpay
  <2>3. CASE e = d
    <3>1. docs'[d].deleted
      BY <1>1
    <3>2. CASE Posted(docs[d]) /\ PaysByCheque(docs[d])
      BY <2>2, <2>3, <3>1, <3>2 DEF CoreInv, TypeOK, NoCheque
    <3>3. CASE ~(Posted(docs[d]) /\ PaysByCheque(docs[d]))
      BY <2>1, <2>2, <2>3, <3>1, <3>3 DEF Posted, PaysByCheque
    <3>4. QED
      BY <3>2, <3>3
  <2>4. CASE e # d
    BY <1>1, <2>1, <2>2, <2>4 DEF CoreInv, TypeOK, Same
  <2>5. QED
    BY <2>3, <2>4
<1>8. Frame(d) /\ docs'[d].deleted
  BY <1>1, <1>2 DEF Frame
<1>9. CASE Posted(docs[d])
  <2>1. /\ PostStockAndParty(Recounted(docs[d]), TRUE)
        /\ miscounted' = miscounted \cup
             {i \in Items : StockMove(Recounted(docs[d]), i) # StockMove(docs[d], i)}
    BY <1>9 DEF DeleteTxn, Recounted
  <2>2. Reverses(d)
    BY <1>2, <1>8, <1>9, <2>1 DEF Reverses, InForce
  <2>3. QED
    BY <1>4, <1>5, <1>6, <1>7, <2>2 DEF CoreInv
<1>10. CASE ~Posted(docs[d])
  <2>1. Rests(d)
    BY <1>8, <1>10 DEF Rests, InForce, DeleteTxn
  <2>2. QED
    BY <1>4, <1>5, <1>6, <1>7, <2>1 DEF CoreInv
<1>11. QED
  BY <1>9, <1>10

(* The effects of a document do not depend on its deleted flag. *)
LEMMA FlagEffects ==
  ASSUME NEW t \in Doc, NEW flag \in BOOLEAN
  PROVE  LET u == [t EXCEPT !.deleted = flag]
         IN  /\ \A i \in Items : StockMove(u, i) = StockMove(t, i)
             /\ \A k \in Shops \X Items : LevelEffect(u, k) = LevelEffect(t, k)
             /\ \A p \in Parties : PartyEffect(u, p) = PartyEffect(t, p)
<1> DEFINE u == [t EXCEPT !.deleted = flag]
<1>1. /\ u.type = t.type /\ u.shop = t.shop /\ u.party = t.party /\ u.to = t.to
      /\ u.item = t.item /\ u.qty = t.qty /\ u.total = t.total /\ u.own = t.own
      /\ u.moved = t.moved
  BY DEF Doc
<1> HIDE DEF u
<1>2. QED
  BY <1>1 DEF u, StockMove, StockEffect, LevelEffect, PartyEffect

LEMMA RestoreInv ==
  ASSUME CoreInv, NEW d \in Docs, RestoreTxn(d)
  PROVE  CoreInv' /\ (Posts(d) \/ Rests(d))
<1>1. /\ docs' \in [Docs -> Doc]
      /\ Again(d) \in Doc /\ docs'[d] = [Again(d) EXCEPT !.deleted = FALSE]
      /\ Alike(docs[d], docs'[d]) /\ ~docs'[d].deleted
      /\ \A e \in Docs \ {d} : Same(docs[e], docs'[e])
  BY RestoreShape
<1>2. /\ Exists(d) /\ docs[d].deleted /\ alloc' = alloc
      /\ UNCHANGED <<counts, miscounted, transfers>>
  BY DEF RestoreTxn
<1>3. docs[d] \in Doc
  BY DEF CoreInv, TypeOK
<1>4. TypeOK'
  <2>1. CASE Posted(docs[d])
    <3>1. PostStockAndParty(Again(d), FALSE) /\ Pay(d, docs[d], AccountOfRow(docs[d]))
      BY <2>1 DEF RestoreTxn, Again
    <3>2. AccountOfRow(docs[d]) \in AccountIds \cup {None}
      BY <1>3 DEF AccountOfRow, Doc
    <3>3. QED
      BY <1>1, <1>2, <1>3, <3>1, <3>2, PostTypes, PayTypes DEF CoreInv, TypeOK
  <2>2. CASE ~Posted(docs[d])
    BY <1>1, <1>2, <2>2 DEF RestoreTxn, CoreInv, TypeOK
  <2>3. QED
    BY <2>1, <2>2
<1>5. RowsWellFormed'
  BY <1>1, <1>2, FlagRows
<1>6. SettledInvoicesStay'
  <2> SUFFICES ASSUME NEW p \in Docs, NEW e \in Docs, alloc'[p][e] > 0
               PROVE  docs'[e].status \notin {"NONE", "HELD"} /\ ~docs'[e].deleted
    BY DEF SettledInvoicesStay, Live, Exists, Posted
  <2>1. Live(e) /\ Posted(docs[e])
    BY <1>2 DEF CoreInv, SettledInvoicesStay
  <2>2. e # d
    BY <1>2, <2>1 DEF Live
  <2>3. QED
    BY <1>1, <2>1, <2>2 DEF Same, Live, Exists, Posted
<1>7. ChequesFollowDocs'
  <2> SUFFICES ASSUME NEW e \in Docs
               PROVE  /\ cheques'[e].status # "NONE" <=>
                           /\ docs'[e].status \notin {"NONE", "HELD"}
                           /\ ~docs'[e].deleted
                           /\ docs'[e].own > 0 /\ docs'[e].method = "CHEQUE"
                      /\ cheques'[e].status = "CLOSED" <=> cheques'[e].account # None
    BY DEF ChequesFollowDocs, InForce, Live, Exists, Posted, PaysByCheque
  <2>1. /\ cheques[e].status # "NONE" <=>
            /\ docs[e].status \notin {"NONE", "HELD"}
            /\ ~docs[e].deleted
            /\ docs[e].own > 0 /\ docs[e].method = "CHEQUE"
        /\ cheques[e].status = "CLOSED" <=> cheques[e].account # None
    BY DEF CoreInv, ChequesFollowDocs, InForce, Live, Exists, Posted, PaysByCheque
  <2>2. cheques' = IF Posted(docs[d]) /\ PaysByCheque(docs[d])
                   THEN [cheques EXCEPT ![d] = [status |-> "OPEN", account |-> None]]
                   ELSE cheques
    BY DEF RestoreTxn, Pay
  <2>3. CASE e = d
    <3>1. /\ ~docs'[d].deleted /\ docs'[d].status = docs[d].status
          /\ docs'[d].own = docs[d].own /\ docs'[d].method = docs[d].method
      BY <1>1 DEF Alike
    <3>2. CASE Posted(docs[d]) /\ PaysByCheque(docs[d])
      BY <1>2, <2>2, <2>3, <3>1, <3>2 DEF CoreInv, TypeOK, Posted, PaysByCheque, Exists
    <3>3. CASE ~(Posted(docs[d]) /\ PaysByCheque(docs[d]))
      BY <1>2, <2>1, <2>2, <2>3, <3>1, <3>3 DEF Posted, PaysByCheque
    <3>4. QED
      BY <3>2, <3>3
  <2>4. CASE e # d
    BY <1>1, <2>1, <2>2, <2>4 DEF CoreInv, TypeOK, Same
  <2>5. QED
    BY <2>3, <2>4
<1>8. /\ Frame(d) /\ ~InForce(d)
      /\ ~docs'[d].deleted /\ docs'[d].status = docs[d].status
  BY <1>1, <1>2 DEF Frame, InForce, Live, Alike
<1>9. CASE Posted(docs[d])
  <2>1. PostStockAndParty(Again(d), FALSE)
    BY <1>9 DEF RestoreTxn, Again
  <2>2. PostStockAndParty(docs'[d], FALSE)
    BY <1>1, <1>3, <2>1, FlagEffects DEF PostStockAndParty
  <2>3. Posts(d)
    BY <1>2, <1>8, <1>9, <2>2 DEF Posts, Exists, Posted
  <2>4. QED
    BY <1>4, <1>5, <1>6, <1>7, <2>3 DEF CoreInv
<1>10. CASE ~Posted(docs[d])
  <2>1. Rests(d)
    BY <1>8, <1>10 DEF Rests, Posted, RestoreTxn
  <2>2. QED
    BY <1>4, <1>5, <1>6, <1>7, <2>1 DEF CoreInv
<1>11. QED
  BY <1>9, <1>10

LEMMA SettleInv ==
  ASSUME CoreInv, NEW d \in Docs, NEW a \in AccountIds, SettleCheque(d, a)
  PROVE  CoreInv' /\ BookStep
<1>1. /\ cheques[d].status = "OPEN" /\ a # None
      /\ cheques' = [cheques EXCEPT ![d] = [status |-> "CLOSED", account |-> a]]
      /\ accountBalance' = [accountBalance EXCEPT ![a] = @ + MoneyEffect(docs[d])]
      /\ UNCHANGED <<docs, alloc, currentStock, stockLevel, partyBalance, accounts,
                     counts, miscounted, transfers>>
  BY NoneAssumption DEF SettleCheque
<1>2. MoneyEffect(docs[d]) \in Int
  BY EffectTypes DEF CoreInv, TypeOK
<1>3. TypeOK'
  BY <1>1, <1>2 DEF CoreInv, TypeOK, Cheque
<1>4. RowsWellFormed'
  BY <1>1 DEF CoreInv, RowsWellFormed, Exists, BlankDoc, HomeShop
<1>5. SettledInvoicesStay'
  BY <1>1 DEF CoreInv, SettledInvoicesStay, Live, Exists, Posted
<1>6. ChequesFollowDocs'
  BY <1>1 DEF CoreInv, ChequesFollowDocs, InForce, Live, Exists, Posted, PaysByCheque, TypeOK
<1>7. QED
  BY <1>1, <1>3, <1>4, <1>5, <1>6 DEF CoreInv, BookStep

LEMMA ReopenInv ==
  ASSUME CoreInv, NEW d \in Docs, ReopenCheque(d)
  PROVE  CoreInv' /\ BookStep
<1>1. /\ cheques[d].status = "CLOSED"
      /\ cheques' = [cheques EXCEPT ![d] = [status |-> "OPEN", account |-> None]]
      /\ accountBalance' =
           [accountBalance EXCEPT ![cheques[d].account] = @ - MoneyEffect(docs[d])]
      /\ UNCHANGED <<docs, alloc, currentStock, stockLevel, partyBalance, accounts,
                     counts, miscounted, transfers>>
  BY DEF ReopenCheque
<1>2. MoneyEffect(docs[d]) \in Int /\ cheques[d].account \in AccountIds
  BY <1>1, EffectTypes DEF CoreInv, TypeOK, Cheque, ChequesFollowDocs
<1>3. TypeOK'
  BY <1>1, <1>2 DEF CoreInv, TypeOK, Cheque
<1>4. RowsWellFormed'
  BY <1>1 DEF CoreInv, RowsWellFormed, Exists, BlankDoc, HomeShop
<1>5. SettledInvoicesStay'
  BY <1>1 DEF CoreInv, SettledInvoicesStay, Live, Exists, Posted
<1>6. ChequesFollowDocs'
  BY <1>1 DEF CoreInv, ChequesFollowDocs, InForce, Live, Exists, Posted, PaysByCheque, TypeOK
<1>7. QED
  BY <1>1, <1>3, <1>4, <1>5, <1>6 DEF CoreInv, BookStep

(* What neither documents nor money depend on. *)
LEMMA EditInv ==
  ASSUME CoreInv, NEW i \in Items, NEW n \in Edits, EditItem(i, n)
  PROVE  CoreInv' /\ BookStep
<1>1. /\ UNCHANGED <<docs, alloc, currentStock, stockLevel, partyBalance, accounts,
                     accountBalance, cheques, miscounted, transfers>>
      /\ counts' = [counts EXCEPT ![i] = n]
  BY DEF EditItem
<1>2. TypeOK'
  BY <1>1, EditsAssumption DEF CoreInv, TypeOK
<1>3. QED
  BY <1>1, <1>2 DEF CoreInv, RowsWellFormed, SettledInvoicesStay, ChequesFollowDocs,
                    Live, Exists, Posted, InForce, BlankDoc, HomeShop, PaysByCheque, BookStep

LEMMA TransferEffectType ==
  ASSUME NEW m \in Moves \cup {NoTransfer}, NEW a
  PROVE  TransferEffect(m, a) \in Int
BY TransfersAssumption DEF Transfer, NoTransfer, TransferEffect

LEMMA MoveInv ==
  ASSUME CoreInv, NEW id \in Transfers, NEW m \in Moves, MoveMoney(id, m)
  PROVE  CoreInv' /\ BookStep
<1>1. /\ UNCHANGED <<docs, alloc, currentStock, stockLevel, partyBalance, accounts,
                     cheques, counts, miscounted>>
      /\ transfers' = [transfers EXCEPT ![id] = m]
      /\ accountBalance' = [a \in AccountIds |-> accountBalance[a] + TransferEffect(m, a)]
  BY DEF MoveMoney
<1>2. \A a \in AccountIds : TransferEffect(m, a) \in Int
  BY TransferEffectType
<1>3. TypeOK'
  BY <1>1, <1>2 DEF CoreInv, TypeOK
<1>4. QED
  BY <1>1, <1>3 DEF CoreInv, RowsWellFormed, SettledInvoicesStay, ChequesFollowDocs,
                    Live, Exists, Posted, InForce, BlankDoc, HomeShop, PaysByCheque, BookStep

LEMMA InitInv == Init => CoreInv
<1> SUFFICES ASSUME Init PROVE CoreInv
  OBVIOUS
<1>1. /\ docs = [d \in Docs |-> BlankDoc]
      /\ alloc = [d \in Docs |-> [e \in Docs |-> 0]]
      /\ currentStock = Stock0 /\ stockLevel = Level0
      /\ partyBalance = [p \in Parties |-> 0] /\ accounts = Accounts0
      /\ accountBalance = Opening0
      /\ cheques = [d \in Docs |-> NoCheque]
      /\ counts = [i \in Items |-> 1] /\ miscounted = {}
      /\ transfers = [m \in Transfers |-> NoTransfer]
  BY DEF Init, NoAmounts
<1>2. TypeOK
  BY <1>1, BlankType, ItemsAssumption, AccountsAssumption
  DEF TypeOK, Level0, NoCheque, Cheque
<1>3. RowsWellFormed
  BY <1>1 DEF RowsWellFormed, Exists, BlankDoc
<1>4. SettledInvoicesStay
  BY <1>1 DEF SettledInvoicesStay
<1>5. ChequesFollowDocs
  BY <1>1 DEF ChequesFollowDocs, NoCheque, InForce, Live, Exists, BlankDoc
<1>6. QED
  BY <1>2, <1>3, <1>4, <1>5 DEF CoreInv

LEMMA StutterInv == ASSUME CoreInv, UNCHANGED vars PROVE CoreInv' /\ BookStep
BY DEF CoreInv, vars, TypeOK, RowsWellFormed, SettledInvoicesStay, ChequesFollowDocs,
       Live, Exists, Posted, InForce, BlankDoc, HomeShop, PaysByCheque, BookStep

LEMMA NextInv ==
  ASSUME Slips = {}, CoreInv, [Next]_vars
  PROVE  CoreInv' /\ BookStep
<1>1. ASSUME NEW n \in Docs, NEW in \in Inputs,
             \/ CreateTxn(n, in)
             \/ HoldBill(n, in)
             \/ CreatePaymentAuto(n, in)
             \/ CreatePaymentManual(n, in)
             \/ ResumeHeld(n, in)
      PROVE  CoreInv' /\ BookStep
  BY <1>1, CreateTxnInv, HoldBillInv, AutoInv, ManualInv, ResumeInv DEF BookStep
<1>2. ASSUME NEW n \in Docs, NEW d \in Docs, NEW b \in BOOLEAN, NEW cash \in BOOLEAN,
             NEW qty \in Quantities,
             RefundInvoice(n, d, qty, b, cash) \/ ConvertTxn(n, d, qty, b, cash)
      PROVE  CoreInv' /\ BookStep
  <2>1. qty \in Nat
    BY DEF Quantities, CoreInv, TypeOK, Doc
  <2>2. QED
    BY <1>2, <2>1, RefundInv, ConvertInv DEF BookStep
<1>3. ASSUME NEW d \in Docs,
             \/ DeleteTxn(d)
             \/ RestoreTxn(d)
             \/ ReopenCheque(d)
             \/ \E a \in AccountIds : SettleCheque(d, a)
      PROVE  CoreInv' /\ BookStep
  BY <1>3, DeleteInv, RestoreInv, ReopenInv, SettleInv DEF BookStep
<1>4. CASE Next
  BY <1>1, <1>2, <1>3, <1>4, EditInv, MoveInv DEF Next
<1>5. QED
  BY <1>4, StutterInv

(***************************************************************************)
(* Safety, for clients that act only on documents their lists still show.  *)
(***************************************************************************)

(* Whatever sequence of creates, resumes, conversions, returns, deletes,   *)
(* restores and cheque movements clients ask for, the rows keep their      *)
(* types, a payment settles only live posted bills, and a cheque exists    *)
(* exactly while its document is in force (txn-core.service.ts).           *)
THEOREM CoreSafety == ASSUME Slips = {} PROVE Spec => []CoreInv
<1>1. Init => CoreInv
  BY InitInv
<1>2. CoreInv /\ [Next]_vars => CoreInv'
  BY NextInv
<1>3. QED
  BY <1>1, <1>2, PTL DEF Spec

(* The type invariant of TxnCore. *)
THEOREM Typing == ASSUME Slips = {} PROVE Spec => []TypeOK
<1>1. CoreInv => TypeOK
  BY DEF CoreInv
<1>2. QED
  BY <1>1, CoreSafety, PTL

(* deleteTxn refuses a bill with a payment on it and restoreTxn needs no   *)
(* such check: a payment row never points at a bill in the recycle bin.    *)
THEOREM Settled == ASSUME Slips = {} PROVE Spec => []SettledInvoicesStay
<1>1. CoreInv => SettledInvoicesStay
  BY DEF CoreInv
<1>2. QED
  BY <1>1, CoreSafety, PTL

(* Cheques appear and disappear with their documents (applyPayments).      *)
THEOREM ChequeRows == ASSUME Slips = {} PROVE Spec => []ChequesFollowDocs
<1>1. CoreInv => ChequesFollowDocs
  BY DEF CoreInv
<1>2. QED
  BY <1>1, CoreSafety, PTL

-----------------------------------------------------------------------------
(***************************************************************************)
(* The books: what a BookStep does to the entries and to the totals.       *)
(***************************************************************************)

LEMMA SameEffects ==
  ASSUME NEW t, NEW u, Same(t, u)
  PROVE  /\ \A i \in Items : StockMove(u, i) = StockMove(t, i)
         /\ \A k \in Shops \X Items : LevelEffect(u, k) = LevelEffect(t, k)
         /\ \A p \in Parties : PartyEffect(u, p) = PartyEffect(t, p)
BY DEF Same, StockMove, LevelEffect, PartyEffect

(* What a step does to the entry of any document, in any of the books.     *)
LEMMA FrameForce ==
  ASSUME CoreInv, NEW d \in Docs, Frame(d), NEW e \in Docs \ {d}
  PROVE  /\ Same(docs[e], docs'[e])
         /\ InForce(e)' <=> InForce(e)
<1>1. Same(docs[e], docs'[e])
  BY DEF Frame
<1>2. QED
  BY <1>1 DEF Same, InForce, Live, Exists, Posted

(* Which side of a step document d is in force on. *)
LEMMA Flips ==
  ASSUME NEW d \in Docs
  PROVE  /\ Posts(d) => Frame(d) /\ ~InForce(d) /\ InForce(d)'
         /\ Reverses(d) => Frame(d) /\ InForce(d) /\ ~(InForce(d)')
         /\ Rests(d) => Frame(d) /\ ~InForce(d) /\ ~(InForce(d)')
BY DEF Posts, Reverses, Rests, InForce, Live, Exists, Posted

LEMMA StockStep ==
  ASSUME CoreInv, CoreInv', BookStep
  PROVE  [StockBook!Next]_(StockBook!vars)
<1>1. /\ docs \in [Docs -> Doc] /\ docs' \in [Docs -> Doc]
      /\ currentStock \in [Items -> Int] /\ currentStock' \in [Items -> Int]
  BY DEF CoreInv, TypeOK
<1>2. \A e \in Docs, i \in Items : /\ StockMove(docs[e], i) \in Int
                                   /\ StockMove(docs'[e], i) \in Int
  BY <1>1, EffectTypes
<1>3. /\ StockEntries \in [Docs -> [Items -> Int]]
      /\ StockEntries' \in [Docs -> [Items -> Int]]
      /\ \A e \in Docs, i \in Items :
           /\ StockEntries[e][i] = IF InForce(e) THEN StockMove(docs[e], i) ELSE 0
           /\ StockEntries'[e][i] = IF InForce(e)' THEN StockMove(docs'[e], i) ELSE 0
  BY <1>2 DEF StockEntries
<1>4. ASSUME NEW d \in Docs, Frame(d) PROVE \A e \in Docs \ {d} : StockEntries'[e] = StockEntries[e]
  <2> SUFFICES ASSUME NEW e \in Docs \ {d} PROVE StockEntries'[e] = StockEntries[e]
    OBVIOUS
  <2>1. \A i \in Items : StockEntries'[e][i] = StockEntries[e][i]
    BY <1>3, <1>4, FrameForce, SameEffects
  <2>2. StockEntries'[e] \in [Items -> Int] /\ StockEntries[e] \in [Items -> Int]
    BY <1>3
  <2>3. QED
    BY <2>1, <2>2
<1>5. ASSUME NEW d \in Docs, Frame(d), miscounted \subseteq miscounted',
             \A i \in Items \ miscounted' :
                currentStock'[i] = currentStock[i] - StockEntries[d][i] + StockEntries'[d][i]
      PROVE  StockBook!Next
  <2>1. StockEntries' = [StockEntries EXCEPT ![d] = StockEntries'[d]]
    BY <1>3, <1>4, <1>5
  <2>2. StockEntries'[d] \in [Items -> Int]
    BY <1>3
  <2> HIDE DEF StockEntries
  <2>3. StockBook!Move(d)
    BY <1>1, <1>5, <2>1, <2>2 DEF StockBook!Move
  <2>4. QED
    BY <2>3 DEF StockBook!Next
<1>6. CASE UNCHANGED <<docs, currentStock, stockLevel, partyBalance, miscounted>>
  BY <1>6 DEF StockBook!vars, StockEntries, InForce, Live, Exists, Posted, StockMove
<1>7. ASSUME NEW d \in Docs, Posts(d) PROVE StockBook!Next
  <2>1. Frame(d) /\ ~InForce(d) /\ InForce(d)' /\ miscounted' = miscounted
    BY <1>7, Flips DEF Posts
  <2>2. currentStock' = [i \in Items |-> currentStock[i] + StockMove(docs'[d], i)]
    BY <1>7 DEF Posts, PostStockAndParty, Signed
  <2>3. QED
    BY <1>1, <1>2, <1>3, <1>5, <2>1, <2>2
<1>8. ASSUME NEW d \in Docs, Reverses(d) PROVE StockBook!Next
  <2>1. Frame(d) /\ InForce(d) /\ ~(InForce(d)') /\ miscounted \subseteq miscounted'
    BY <1>8, Flips DEF Reverses
  <2>2. \A i \in Items \ miscounted' : StockMove(Recounted(docs[d]), i) = StockMove(docs[d], i)
    BY <1>8 DEF Reverses
  <2>3. currentStock' = [i \in Items |-> currentStock[i] + -StockMove(Recounted(docs[d]), i)]
    BY <1>8 DEF Reverses, PostStockAndParty, Signed
  <2>4. QED
    BY <1>1, <1>2, <1>3, <1>5, <2>1, <2>2, <2>3
<1>9. ASSUME NEW d \in Docs, Rests(d) PROVE StockBook!Next
  <2>1. Frame(d) /\ ~InForce(d) /\ ~(InForce(d)') /\ miscounted' = miscounted
    BY <1>9, Flips DEF Rests
  <2>2. currentStock' = currentStock
    BY <1>9 DEF Rests
  <2>3. QED
    BY <1>1, <1>2, <1>3, <1>5, <2>1, <2>2
<1>10. QED
  BY <1>6, <1>7, <1>8, <1>9 DEF BookStep

LEMMA LevelStep ==
  ASSUME CoreInv, CoreInv', BookStep
  PROVE  [LevelBook!Next]_(LevelBook!vars)
<1>1. /\ docs \in [Docs -> Doc] /\ docs' \in [Docs -> Doc]
      /\ stockLevel \in [Shops \X Items -> Int] /\ stockLevel' \in [Shops \X Items -> Int]
  BY DEF CoreInv, TypeOK
<1>2. \A e \in Docs, k \in Shops \X Items : /\ LevelEffect(docs[e], k) \in Int
                                   /\ LevelEffect(docs'[e], k) \in Int
  BY <1>1, EffectTypes
<1>3. /\ LevelEntries \in [Docs -> [Shops \X Items -> Int]]
      /\ LevelEntries' \in [Docs -> [Shops \X Items -> Int]]
      /\ \A e \in Docs, k \in Shops \X Items :
           /\ LevelEntries[e][k] = IF InForce(e) THEN LevelEffect(docs[e], k) ELSE 0
           /\ LevelEntries'[e][k] = IF InForce(e)' THEN LevelEffect(docs'[e], k) ELSE 0
  BY <1>2 DEF LevelEntries
<1>4. ASSUME NEW d \in Docs, Frame(d) PROVE \A e \in Docs \ {d} : LevelEntries'[e] = LevelEntries[e]
  <2> SUFFICES ASSUME NEW e \in Docs \ {d} PROVE LevelEntries'[e] = LevelEntries[e]
    OBVIOUS
  <2>1. \A k \in Shops \X Items : LevelEntries'[e][k] = LevelEntries[e][k]
    BY <1>3, <1>4, FrameForce, SameEffects
  <2>2. LevelEntries'[e] \in [Shops \X Items -> Int] /\ LevelEntries[e] \in [Shops \X Items -> Int]
    BY <1>3
  <2>3. QED
    BY <2>1, <2>2
<1>5. ASSUME NEW d \in Docs, Frame(d), miscounted \subseteq miscounted',
             \A k \in Shops \X (Items \ miscounted') :
                stockLevel'[k] = stockLevel[k] - LevelEntries[d][k] + LevelEntries'[d][k]
      PROVE  LevelBook!Next
  <2>1. LevelEntries' = [LevelEntries EXCEPT ![d] = LevelEntries'[d]]
    BY <1>3, <1>4, <1>5
  <2>2. LevelEntries'[d] \in [Shops \X Items -> Int]
    BY <1>3
  <2> HIDE DEF LevelEntries
  <2>3. LevelBook!Move(d)
    BY <1>1, <1>5, <2>1, <2>2 DEF LevelBook!Move
  <2>4. QED
    BY <2>3 DEF LevelBook!Next
<1>6. CASE UNCHANGED <<docs, currentStock, stockLevel, partyBalance, miscounted>>
  BY <1>6 DEF LevelBook!vars, LevelEntries, InForce, Live, Exists, Posted, LevelEffect, StockMove
<1>7. ASSUME NEW d \in Docs, Posts(d) PROVE LevelBook!Next
  <2>1. Frame(d) /\ ~InForce(d) /\ InForce(d)' /\ miscounted' = miscounted
    BY <1>7, Flips DEF Posts
  <2>2. stockLevel' = [k \in Shops \X Items |-> stockLevel[k] + LevelEffect(docs'[d], k)]
    BY <1>7 DEF Posts, PostStockAndParty, Signed
  <2>3. QED
    BY <1>1, <1>2, <1>3, <1>5, <2>1, <2>2
<1>8. ASSUME NEW d \in Docs, Reverses(d) PROVE LevelBook!Next
  <2>1. Frame(d) /\ InForce(d) /\ ~(InForce(d)') /\ miscounted \subseteq miscounted'
    BY <1>8, Flips DEF Reverses
  <2>2. \A i \in Items \ miscounted' : StockMove(Recounted(docs[d]), i) = StockMove(docs[d], i)
    BY <1>8 DEF Reverses
  <2>3. \A k \in Shops \X (Items \ miscounted') :
          LevelEffect(Recounted(docs[d]), k) = LevelEffect(docs[d], k)
    BY <1>1, <2>2, RecountedType DEF LevelEffect, Alike, CoreInv
  <2>4. stockLevel' = [k \in Shops \X Items |-> stockLevel[k] + -LevelEffect(Recounted(docs[d]), k)]
    BY <1>8 DEF Reverses, PostStockAndParty, Signed
  <2>5. QED
    BY <1>1, <1>2, <1>3, <1>5, <2>1, <2>3, <2>4
<1>9. ASSUME NEW d \in Docs, Rests(d) PROVE LevelBook!Next
  <2>1. Frame(d) /\ ~InForce(d) /\ ~(InForce(d)') /\ miscounted' = miscounted
    BY <1>9, Flips DEF Rests
  <2>2. stockLevel' = stockLevel
    BY <1>9 DEF Rests
  <2>3. QED
    BY <1>1, <1>2, <1>3, <1>5, <2>1, <2>2
<1>10. QED
  BY <1>6, <1>7, <1>8, <1>9 DEF BookStep

LEMMA PartyStep ==
  ASSUME CoreInv, CoreInv', BookStep
  PROVE  [PartyBook!Next]_(PartyBook!vars)
<1>1. /\ docs \in [Docs -> Doc] /\ docs' \in [Docs -> Doc]
      /\ partyBalance \in [Parties -> Int] /\ partyBalance' \in [Parties -> Int]
  BY DEF CoreInv, TypeOK
<1>2. \A e \in Docs, p \in Parties : /\ PartyEffect(docs[e], p) \in Int
                                   /\ PartyEffect(docs'[e], p) \in Int
  BY <1>1, EffectTypes
<1>3. /\ PartyEntries \in [Docs -> [Parties -> Int]]
      /\ PartyEntries' \in [Docs -> [Parties -> Int]]
      /\ \A e \in Docs, p \in Parties :
           /\ PartyEntries[e][p] = IF InForce(e) THEN PartyEffect(docs[e], p) ELSE 0
           /\ PartyEntries'[e][p] = IF InForce(e)' THEN PartyEffect(docs'[e], p) ELSE 0
  BY <1>2 DEF PartyEntries
<1>4. ASSUME NEW d \in Docs, Frame(d) PROVE \A e \in Docs \ {d} : PartyEntries'[e] = PartyEntries[e]
  <2> SUFFICES ASSUME NEW e \in Docs \ {d} PROVE PartyEntries'[e] = PartyEntries[e]
    OBVIOUS
  <2>1. \A p \in Parties : PartyEntries'[e][p] = PartyEntries[e][p]
    BY <1>3, <1>4, FrameForce, SameEffects
  <2>2. PartyEntries'[e] \in [Parties -> Int] /\ PartyEntries[e] \in [Parties -> Int]
    BY <1>3
  <2>3. QED
    BY <2>1, <2>2
<1>5. ASSUME NEW d \in Docs, Frame(d),
             \A p \in Parties :
                partyBalance'[p] = partyBalance[p] - PartyEntries[d][p] + PartyEntries'[d][p]
      PROVE  PartyBook!Next
  <2>1. PartyEntries' = [PartyEntries EXCEPT ![d] = PartyEntries'[d]]
    BY <1>3, <1>4, <1>5
  <2>2. PartyEntries'[d] \in [Parties -> Int]
    BY <1>3
  <2> HIDE DEF PartyEntries
  <2>3. PartyBook!Move(d)
    BY <1>1, <1>5, <2>1, <2>2 DEF PartyBook!Move
  <2>4. QED
    BY <2>3 DEF PartyBook!Next
<1>6. CASE UNCHANGED <<docs, currentStock, stockLevel, partyBalance, miscounted>>
  BY <1>6 DEF PartyBook!vars, PartyEntries, InForce, Live, Exists, Posted, PartyEffect, PartyDelta
<1>7. ASSUME NEW d \in Docs, Posts(d) PROVE PartyBook!Next
  <2>1. Frame(d) /\ ~InForce(d) /\ InForce(d)'
    BY <1>7, Flips
  <2>2. partyBalance' = [p \in Parties |-> partyBalance[p] + PartyEffect(docs'[d], p)]
    BY <1>7 DEF Posts, PostStockAndParty, Signed
  <2>3. QED
    BY <1>1, <1>2, <1>3, <1>5, <2>1, <2>2
<1>8. ASSUME NEW d \in Docs, Reverses(d) PROVE PartyBook!Next
  <2>1. Frame(d) /\ InForce(d) /\ ~(InForce(d)')
    BY <1>8, Flips
  <2>2. \A p \in Parties : PartyEffect(Recounted(docs[d]), p) = PartyEffect(docs[d], p)
    BY <1>1, RecountedType DEF PartyEffect, Alike, CoreInv
  <2>3. partyBalance' = [p \in Parties |-> partyBalance[p] + -PartyEffect(Recounted(docs[d]), p)]
    BY <1>8 DEF Reverses, PostStockAndParty, Signed
  <2>4. QED
    BY <1>1, <1>2, <1>3, <1>5, <2>1, <2>2, <2>3
<1>9. ASSUME NEW d \in Docs, Rests(d) PROVE PartyBook!Next
  <2>1. Frame(d) /\ ~InForce(d) /\ ~(InForce(d)')
    BY <1>9, Flips
  <2>2. partyBalance' = partyBalance
    BY <1>9 DEF Rests
  <2>3. QED
    BY <1>1, <1>2, <1>3, <1>5, <2>1, <2>2
<1>10. QED
  BY <1>6, <1>7, <1>8, <1>9 DEF BookStep

LEMMA NothingInForce == Init => \A d \in Docs : ~InForce(d)
BY DEF Init, BlankDoc, InForce, Live, Exists

(* The stock of every item follows the documents in force, one document a  *)
(* step (applyStock and its reversal, from createTxn to restoreTxn).       *)
THEOREM StockImplementsBooks == ASSUME Slips = {} PROVE Spec => StockFollowsDocs
<1>1. Init => StockBook!Init
  BY NothingInForce DEF Init, StockBook!Init, StockEntries
<1>2. CoreInv /\ CoreInv' /\ [Next]_vars => [StockBook!Next]_(StockBook!vars)
  BY NextInv, StockStep
<1>3. QED
  BY <1>1, <1>2, CoreSafety, PTL DEF Spec, StockFollowsDocs, StockBook!Spec

(* So does the stock level of every shop, in step with currentStock        *)
(* (applyStock keeps both).                                                *)
THEOREM LevelsImplementBooks == ASSUME Slips = {} PROVE Spec => LevelsFollowDocs
<1>1. Init => LevelBook!Init
  BY NothingInForce DEF Init, LevelBook!Init, LevelEntries
<1>2. CoreInv /\ CoreInv' /\ [Next]_vars => [LevelBook!Next]_(LevelBook!vars)
  BY NextInv, LevelStep
<1>3. QED
  BY <1>1, <1>2, CoreSafety, PTL DEF Spec, LevelsFollowDocs, LevelBook!Spec

(* And the balance of every party: a reversal takes back exactly what the  *)
(* posting added, whatever payments were allocated in between, because     *)
(* postEffects uses the document's own payments and not its live balance.  *)
THEOREM PartiesImplementBooks == ASSUME Slips = {} PROVE Spec => PartiesFollowDocs
<1>1. Init => PartyBook!Init
  BY NothingInForce DEF Init, PartyBook!Init, PartyEntries
<1>2. CoreInv /\ CoreInv' /\ [Next]_vars => [PartyBook!Next]_(PartyBook!vars)
  BY NextInv, PartyStep
<1>3. QED
  BY <1>1, <1>2, CoreSafety, PTL DEF Spec, PartiesFollowDocs, PartyBook!Spec

(***************************************************************************)
(* The steps again, with all that they do.                                 *)
(***************************************************************************)

(* What a step that posts d with the allocations al does to the other rows: *)
(* a bill is settled by al, an invoice is marked as returned, or the order *)
(* that d comes from is closed once it is received.                        *)
Others(d, in, source, al) ==
    \A e \in Docs \ {d} :
        /\ docs'[e].paid = docs[e].paid + al[e]
        /\ \/ al[e] > 0 /\ docs'[e].status = Settlement(docs[e].total, docs'[e].paid)
           \/ al[e] = 0 /\ docs'[e].status = docs[e].status
           \/ al[e] = 0 /\ docs'[e].status = "REFUNDED"
           \/ /\ al[e] = 0 /\ e = source
              /\ \/ docs'[e].status = "CONVERTED"
                 \/ docs'[e].status = "ORDER_CLOSED" /\ Received(e) + in.qty >= docs[e].qty

(* The allocations a payment can carry. *)
Settles(in, al) ==
    \A e \in Docs : al[e] > 0 =>
        /\ in.type \in PaymentTypes
        /\ Live(e) /\ Posted(docs[e])
        /\ docs[e].type = SettledBy(in.type) /\ docs[e].party = in.party

(* The requests that the operations hand to createTxn. *)
Handed(in) ==
    /\ in \in Request /\ ~in.hold /\ Acceptable(in)
    /\ in.pick # None => \E x \in Inputs : x.pick = in.pick /\ x.shop = in.shop
    /\ in.type \in PaymentTypes => in.party # None
    /\ in.type = "P2P_TRANSFER" => in.own = 0

(* Document d comes in, or comes off hold, by request in. *)
Entering(d, in, acct, source, al) ==
    /\ Posts(d)
    /\ Handed(in)
    /\ source # None => docs[source].type \in OrderTypes /\ docs[source].item = in.item
    /\ docs[d].status \in {"NONE", "HELD"}
    /\ \E against \in Docs \cup {None} : docs'[d] = NewDoc(in, acct, source, against)
    /\ Pay(d, docs'[d], acct)
    /\ Settles(in, al)
    /\ alloc' = [alloc EXCEPT ![d] = al]
    /\ Others(d, in, source, al)

Enters(d) ==
    \E in \in Request, source \in Docs \cup {None}, al \in [Docs -> Nat] :
        \E acct \in ResolveMoneyAccount(in.shop, in.method, in.pick) :
            Entering(d, in, acct, source, al)

(* Document d is held. *)
Parks(d, in) ==
    /\ Rests(d)
    /\ in \in Request /\ in.hold /\ Acceptable(in)
    /\ in.type = "SALE_INVOICE" /\ in.own = 0
    /\ docs[d].status = "NONE"
    /\ docs' = [docs EXCEPT ![d] = NewDoc(in, None, None, None)]
    /\ UNCHANGED <<alloc, accounts, accountBalance, cheques>>

(* Document d goes to the recycle bin or comes back from it.               *)
Flagged(d, flag) ==
    /\ Exists(d)
    /\ docs[d].deleted # flag
    /\ Alike(docs[d], docs'[d]) /\ docs'[d].deleted = flag
    /\ \A p \in Docs : alloc[p][d] = 0
    /\ alloc' = alloc
    /\ \A e \in Docs \ {d} :
         /\ docs'[e].paid = docs[e].paid + Signed(alloc[d][e], flag)
         /\ \/ alloc[d][e] > 0 /\ docs'[e].status = Settlement(docs[e].total, docs'[e].paid)
            \/ alloc[d][e] = 0 /\ docs'[e].status = docs[e].status
            \/ alloc[d][e] = 0 /\ docs'[e].status = "ORDER_OPEN"

Deletes(d) ==
    /\ Flagged(d, TRUE)
    /\ docs[d].source # None => docs'[docs[d].source].status = "ORDER_OPEN"
    /\ ~\E e \in Docs : Exists(e) /\ docs[e].source = d
    /\ \/ Reverses(d) /\ Unpay(d, docs[d])
       \/ Rests(d) /\ UNCHANGED <<accounts, accountBalance, cheques>>

Restores(d) ==
    /\ Flagged(d, FALSE)
    /\ \/ Posts(d) /\ Pay(d, docs'[d], AccountOfRow(docs'[d]))
       \/ Rests(d) /\ UNCHANGED <<accounts, accountBalance, cheques>>

LEMMA NothingAllocated ==
  ASSUME BooksInv, NEW d \in Docs, docs[d].status \in {"NONE", "HELD"}, alloc' = alloc
  PROVE  /\ alloc[d] \in [Docs -> Nat]
         /\ \A e \in Docs : alloc[d][e] = 0
         /\ alloc' = [alloc EXCEPT ![d] = alloc[d]]
         /\ \A in : Settles(in, alloc[d])
<1>1. alloc \in [Docs -> [Docs -> Nat]]
  BY DEF BooksInv, CoreInv, TypeOK
<1>2. \A e \in Docs : ~(alloc[d][e] > 0)
  <2>1. docs[d].status = "HELD" => docs[d].type \notin PaymentTypes
    BY DEF BooksInv, CoreInv, RowsWellFormed, PaymentTypes
  <2>2. QED
    BY <2>1 DEF BooksInv, AllocationsMatch, Exists
<1>3. QED
  BY <1>1, <1>2 DEF Settles

LEMMA CreateTxnShape ==
  ASSUME BooksInv, NEW n \in Docs, NEW in \in Inputs, CreateTxn(n, in)
  PROVE  Enters(n)
<1>1. PICK acct \in ResolveMoneyAccount(in.shop, in.method, in.pick) :
        LET t == NewDoc(in, acct, None, None)
        IN  /\ PostNew(n, in, t, acct)
            /\ docs' = [docs EXCEPT ![n] = t]
  BY DEF CreateTxn
<1>2. docs \in [Docs -> Doc] /\ CoreInv
  BY DEF BooksInv, CoreInv, TypeOK
<1>3. Posts(n)
  BY <1>2, CreateTxnInv
<1>4. /\ alloc' = alloc /\ docs[n].status = "NONE"
      /\ in \in Request /\ in.type \notin PaymentTypes /\ ~in.hold
      /\ in.type = "P2P_TRANSFER" => in.own = 0
  BY InputsAssumption DEF CreateTxn, IsNext, Exists
<1>5. /\ alloc[n] \in [Docs -> Nat]
      /\ \A e \in Docs : alloc[n][e] = 0
      /\ alloc' = [alloc EXCEPT ![n] = alloc[n]]
      /\ Settles(in, alloc[n])
  BY <1>4, NothingAllocated
<1>6. Others(n, in, None, alloc[n])
  BY <1>1, <1>2, <1>5 DEF Others, Doc
<1>7. Handed(in)
  BY <1>1, <1>4 DEF Handed, PostNew
<1>8. docs'[n] = NewDoc(in, acct, None, None)
  BY <1>1, <1>2
<1>9. Pay(n, docs'[n], acct)
  BY <1>1, <1>8 DEF PostNew
<1>10. Entering(n, in, acct, None, alloc[n])
  BY <1>3, <1>4, <1>5, <1>6, <1>7, <1>8, <1>9 DEF Entering
<1>11. QED
  BY <1>4, <1>5, <1>10 DEF Enters

LEMMA PaymentShape ==
  ASSUME BooksInv, NEW n \in Docs, NEW in \in Inputs, in.type \in PaymentTypes,
         NEW al \in [Docs -> Nat], Settles(in, al),
         IsNext(n), CreatePayment(n, in, al)
  PROVE  Enters(n)
<1>1. PICK acct \in ResolveMoneyAccount(in.shop, in.method, in.pick) :
        LET t == NewDoc(in, acct, None, None)
        IN  /\ PostNew(n, in, t, acct)
            /\ docs' = [Allocated(docs, al, FALSE) EXCEPT ![n] = t]
  BY DEF CreatePayment
<1>2. docs \in [Docs -> Doc] /\ CoreInv
  BY DEF BooksInv, CoreInv, TypeOK
<1>3. Posts(n)
  <2>1. \A e \in Docs : al[e] > 0 => Live(e) /\ Posted(docs[e])
    BY DEF Settles
  <2>2. QED
    BY <1>2, <2>1, CreatePaymentInv
<1>4. /\ alloc' = [alloc EXCEPT ![n] = al] /\ docs[n].status = "NONE"
      /\ in \in Request /\ ~in.hold /\ in.party # None /\ in.type # "P2P_TRANSFER"
  BY InputsAssumption DEF CreatePayment, IsNext, Exists, PaymentTypes
<1>5. Others(n, in, None, al)
  <2> SUFFICES ASSUME NEW e \in Docs \ {n}
               PROVE  /\ docs'[e].paid = docs[e].paid + al[e]
                      /\ \/ al[e] > 0 /\ docs'[e].status = Settlement(docs[e].total, docs'[e].paid)
                         \/ al[e] = 0 /\ docs'[e].status = docs[e].status
    BY DEF Others
  <2>1. docs'[e] = Allocated(docs, al, FALSE)[e]
    BY <1>1 DEF Allocated
  <2>2. docs'[e] = IF al[e] = 0 THEN docs[e]
                   ELSE [docs[e] EXCEPT !.paid = docs[e].paid + al[e],
                           !.status = Settlement(docs[e].total, docs[e].paid + al[e])]
    BY <2>1 DEF Allocated, Signed
  <2>3. docs[e] \in Doc /\ docs[e].paid \in Int /\ al[e] \in Nat
    BY <1>2 DEF Doc
  <2>4. CASE al[e] = 0
    BY <2>2, <2>3, <2>4
  <2>5. CASE al[e] # 0
    <3>1. /\ docs'[e].paid = docs[e].paid + al[e]
          /\ docs'[e].status = Settlement(docs[e].total, docs[e].paid + al[e])
      BY <2>2, <2>3, <2>5 DEF Doc
    <3>2. QED
      BY <2>3, <2>5, <3>1
  <2>6. QED
    BY <2>4, <2>5
<1>6. Handed(in)
  BY <1>1, <1>4 DEF Handed, PostNew
<1>7. docs'[n] = NewDoc(in, acct, None, None)
  BY <1>1, <1>2 DEF Allocated
<1>8. Pay(n, docs'[n], acct)
  BY <1>1, <1>7 DEF PostNew
<1>9. Entering(n, in, acct, None, al)
  BY <1>3, <1>4, <1>5, <1>6, <1>7, <1>8 DEF Entering
<1>10. QED
  BY <1>4, <1>9 DEF Enters

LEMMA AutoShape ==
  ASSUME BooksInv, NEW n \in Docs, NEW in \in Inputs, CreatePaymentAuto(n, in)
  PROVE  Enters(n)
<1>1. PICK al \in AutoAllocations(in) : CreatePayment(n, in, al)
  BY DEF CreatePaymentAuto
<1>2. /\ al \in [Docs -> 0 .. in.total]
      /\ \A e \in Docs : e \notin Owing(in) => al[e] = 0
  BY DEF AutoAllocations
<1>3. al \in [Docs -> Nat]
  BY <1>2, InputsAssumption DEF Request
<1>4. Settles(in, al)
  BY <1>2 DEF Settles, Owing, Posted, CreatePaymentAuto
<1>5. QED
  BY <1>1, <1>3, <1>4, PaymentShape DEF CreatePaymentAuto

LEMMA ManualShape ==
  ASSUME BooksInv, Slips = {}, NEW n \in Docs, NEW in \in Inputs, CreatePaymentManual(n, in)
  PROVE  Enters(n)
<1>1. PICK al \in ManualAllocations(in) : CreatePayment(n, in, al)
  BY DEF CreatePaymentManual
<1>2. al \in [Docs -> 0 .. in.total]
  BY DEF ManualAllocations
<1>3. al \in [Docs -> Nat]
  BY <1>2, InputsAssumption DEF Request
<1>4. Settles(in, al)
  BY DEF Settles, ManualAllocations, Live, Posted, CreatePaymentManual
<1>5. QED
  BY <1>1, <1>3, <1>4, PaymentShape DEF CreatePaymentManual

LEMMA RefundShape ==
  ASSUME BooksInv, Slips = {}, NEW n \in Docs, NEW d \in Docs, NEW qty \in Nat,
         NEW full \in BOOLEAN, NEW cash \in BOOLEAN, RefundInvoice(n, d, qty, full, cash)
  PROVE  Enters(n)
<1> DEFINE total == IF full /\ ~HasReturns(d) THEN docs[d].total
                    ELSE qty * Price[docs[d].item]
           in == [type |-> "CREDIT_NOTE", shop |-> docs[d].shop, party |-> docs[d].party,
                  to |-> None, item |-> docs[d].item, qty |-> qty, total |-> total,
                  method |-> "CASH", own |-> IF cash THEN total ELSE 0,
                  pick |-> None, hold |-> FALSE]
<1>1. PICK acct \in ResolveMoneyAccount(in.shop, in.method, in.pick) :
        /\ PostNew(n, in, NewDoc(in, acct, None, d), acct)
        /\ docs' = [e \in Docs |->
                      IF e = n THEN NewDoc(in, acct, None, d)
                      ELSE IF e = d /\ Returned(d) + qty >= docs[d].qty
                      THEN [docs[d] EXCEPT !.status = "REFUNDED"]
                      ELSE docs[e]]
  BY DEF RefundInvoice
<1>2. docs \in [Docs -> Doc] /\ CoreInv
  BY DEF BooksInv, CoreInv, TypeOK
<1>3. Posts(n)
  BY <1>2, RefundInv
<1>4. /\ Exists(d) /\ docs[d].type = "SALE_INVOICE"
      /\ alloc' = alloc /\ docs[n].status = "NONE"
  BY DEF RefundInvoice, IsNext, Exists
<1>5. docs[d].item \in Items
  BY <1>2, <1>4 DEF CoreInv, RowsWellFormed, LineTypes, Doc
<1>6. qty * Price[docs[d].item] \in Nat
  BY <1>5, ItemsAssumption
<1>7. total \in Nat
  BY <1>2, <1>6 DEF Doc
<1> HIDE DEF total
<1>8. in \in Request
  BY <1>2, <1>7, KindsAssumption DEF Request, Doc, TxnTypes, LineTypes, Methods
<1>9. Handed(in)
  BY <1>1, <1>8 DEF Handed, PostNew, PaymentTypes
<1> HIDE DEF in
<1>10. /\ alloc[n] \in [Docs -> Nat]
       /\ \A e \in Docs : alloc[n][e] = 0
       /\ alloc' = [alloc EXCEPT ![n] = alloc[n]]
       /\ Settles(in, alloc[n])
  BY <1>4, NothingAllocated
<1>11. Others(n, in, None, alloc[n])
  BY <1>1, <1>2, <1>10 DEF Others, Doc
<1>12. docs'[n] = NewDoc(in, acct, None, d)
  BY <1>1
<1>13. Pay(n, docs'[n], acct)
  BY <1>1, <1>12 DEF PostNew
<1>14. Entering(n, in, acct, None, alloc[n])
  BY <1>3, <1>4, <1>9, <1>10, <1>11, <1>12, <1>13 DEF Entering
<1>15. QED
  BY <1>8, <1>10, <1>14 DEF Enters

LEMMA ConvertShape ==
  ASSUME BooksInv, NEW n \in Docs, NEW d \in Docs, NEW qty \in Nat,
         NEW part \in BOOLEAN, NEW cash \in BOOLEAN, ConvertTxn(n, d, qty, part, cash)
  PROVE  Enters(n)
<1> DEFINE total == IF part THEN qty * Price[docs[d].item] ELSE docs[d].total
           in == [type |-> IF docs[d].type = "PURCHASE_ORDER" THEN "PURCHASE_BILL"
                           ELSE "SALE_INVOICE",
                  shop |-> docs[d].shop, party |-> docs[d].party, to |-> None,
                  item |-> docs[d].item, qty |-> qty, total |-> total,
                  method |-> "CASH", own |-> IF cash THEN total ELSE 0,
                  pick |-> None, hold |-> FALSE]
           status == StatusConverted(d, qty, part)
<1>1. PICK acct \in ResolveMoneyAccount(in.shop, in.method, in.pick) :
        /\ PostNew(n, in, NewDoc(in, acct, d, None), acct)
        /\ docs' = [docs EXCEPT ![n] = NewDoc(in, acct, d, None), ![d].status = status]
  BY DEF ConvertTxn
<1>2. docs \in [Docs -> Doc] /\ CoreInv
  BY DEF BooksInv, CoreInv, TypeOK
<1>3. Posts(n)
  BY <1>2, ConvertInv
<1>4. /\ Exists(d) /\ docs[d].type \in OrderTypes /\ docs[d].status \in Statuses
      /\ docs[d].status \notin {"CONVERTED", "ORDER_CLOSED"}
      /\ ~part => qty = docs[d].qty
      /\ alloc' = alloc /\ docs[n].status = "NONE" /\ n # d
  BY <1>2 DEF ConvertTxn, IsNext, Exists, Doc
<1>5. docs[d].item \in Items
  BY <1>2, <1>4 DEF CoreInv, RowsWellFormed, LineTypes, Doc
<1>6. qty * Price[docs[d].item] \in Nat
  BY <1>5, ItemsAssumption
<1>7. total \in Nat
  BY <1>2, <1>6 DEF Doc
<1> HIDE DEF total
<1>8. in \in Request
  BY <1>2, <1>7, KindsAssumption DEF Request, Doc, TxnTypes, LineTypes, Methods
<1>9. Handed(in) /\ in.item = docs[d].item /\ in.qty = qty
  BY <1>1, <1>8 DEF Handed, PostNew, PaymentTypes
<1> HIDE DEF in
<1>10. /\ alloc[n] \in [Docs -> Nat]
       /\ \A e \in Docs : alloc[n][e] = 0
       /\ alloc' = [alloc EXCEPT ![n] = alloc[n]]
       /\ Settles(in, alloc[n])
  BY <1>4, NothingAllocated
<1>11. \/ status = docs[d].status
       \/ status = "CONVERTED"
       \/ status = "ORDER_CLOSED" /\ Received(d) + qty >= docs[d].qty
  <2>1. docs[d].qty \in Nat
    BY <1>2 DEF Doc
  <2>2. Received(d) \in Nat
    <3> DEFINE T == {e \in Docs : Live(e) /\ docs[e].source = d /\ docs[e].item = docs[d].item}
               f == [e \in T |-> docs[e].qty]
    <3>1. IsFiniteSet(T)
      BY FiniteAssumption, FS_Subset
    <3>2. \A e \in T : f[e] \in Nat
      BY <1>2 DEF Doc
    <3>3. Received(d) = SumFunctionOnSet(f, T)
      BY DEF Received, Sum
    <3> HIDE DEF T, f
    <3>4. QED
      BY <3>1, <3>2, <3>3, SumNat
  <2>3. ~(part /\ Received(d) + qty < docs[d].qty) => Received(d) + qty >= docs[d].qty
    BY <1>4, <2>1, <2>2
  <2>4. QED
    BY <2>3 DEF StatusConverted
<1> HIDE DEF status
<1>12. docs' \in [Docs -> Doc]
  BY <1>3 DEF Posts, Frame
<1>13. Others(n, in, d, alloc[n])
  <2> SUFFICES ASSUME NEW e \in Docs \ {n}
               PROVE  /\ docs'[e].paid = docs[e].paid
                      /\ \/ docs'[e].status = docs[e].status
                         \/ e = d /\ docs'[e].status = "CONVERTED"
                         \/ /\ e = d /\ docs'[e].status = "ORDER_CLOSED"
                            /\ Received(e) + qty >= docs[e].qty
    BY <1>2, <1>9, <1>10 DEF Others, Doc
  <2>1. CASE e = d
    <3>1. docs'[d] = [docs[d] EXCEPT !.status = status]
      BY <1>1, <1>2, <1>4
    <3>2. docs'[d].paid = docs[d].paid /\ docs'[d].status = status
      BY <1>2, <3>1 DEF Doc
    <3>3. QED
      BY <1>11, <2>1, <3>2
  <2>2. CASE e # d
    BY <1>1, <1>2, <2>2
  <2>3. QED
    BY <2>1, <2>2
<1>14. docs'[n] = NewDoc(in, acct, d, None)
  BY <1>1, <1>2, <1>4
<1>15. Pay(n, docs'[n], acct)
  BY <1>1, <1>14 DEF PostNew
<1>16. Entering(n, in, acct, d, alloc[n])
  BY <1>3, <1>4, <1>9, <1>10, <1>13, <1>14, <1>15 DEF Entering
<1>17. QED
  BY <1>8, <1>10, <1>16 DEF Enters

LEMMA ResumeShape ==
  ASSUME BooksInv, Slips = {}, NEW d \in Docs, NEW in \in Inputs, ResumeHeld(d, in)
  PROVE  Enters(d)
<1> DEFINE req == [in EXCEPT !.party = docs[d].party]
           new(acct) == NewDoc(req, acct, docs[d].source, docs[d].against)
<1>1. PICK acct \in ResolveMoneyAccount(in.shop, in.method, in.pick) :
        /\ Pay(d, [new(acct) EXCEPT !.deleted = docs[d].deleted], acct)
        /\ docs' = [docs EXCEPT ![d] = [new(acct) EXCEPT !.deleted = docs[d].deleted]]
  BY DEF ResumeHeld
<1>2. docs \in [Docs -> Doc] /\ CoreInv
  BY DEF BooksInv, CoreInv, TypeOK
<1>3. Posts(d)
  BY <1>2, ResumeInv
<1>4. /\ docs[d].status = "HELD" /\ ~docs[d].deleted /\ docs[d].type = "SALE_INVOICE"
      /\ in.type = docs[d].type /\ in.shop = docs[d].shop /\ ~in.hold /\ Acceptable(in)
      /\ alloc' = alloc
  BY <1>2 DEF ResumeHeld, CoreInv, RowsWellFormed
<1>5. docs[d] \in Doc /\ in \in Request
  BY <1>2, InputsAssumption
<1>6. docs[d].source = None
  BY <1>4 DEF BooksInv, RowsFollowRequests, FollowsRequest, Exists
<1>7. req \in Request
  BY <1>5 DEF Request, Doc
<1>8. new(acct) = [new(acct) EXCEPT !.deleted = docs[d].deleted]
  <2>1. docs[d].deleted = FALSE
    BY <1>4, <1>5 DEF Doc
  <2>2. new(acct).deleted = FALSE
    BY DEF NewDoc
  <2>3. in.method \in Kinds => acct \in AccountIds \cup {None}
    BY <1>2, <1>5, ResolveType DEF CoreInv, TypeOK, Request
  <2>4. req.method = in.method
    BY <1>5 DEF Request
  <2>5. docs[d].source \in Docs \cup {None} /\ docs[d].against \in Docs \cup {None}
    BY <1>5 DEF Doc
  <2>6. new(acct) \in Doc
    BY <1>2, <1>7, <2>3, <2>4, <2>5, NewDocType DEF CoreInv
  <2> HIDE DEF new, req
  <2>7. QED
    BY <2>1, <2>2, <2>6 DEF Doc
<1>9. docs' = [docs EXCEPT ![d] = new(acct)] /\ Pay(d, new(acct), acct)
  BY <1>1, <1>8
<1>10. Handed(req)
  <2>1. /\ req.type = in.type /\ req.shop = in.shop /\ req.item = in.item /\ req.qty = in.qty
        /\ req.own = in.own /\ req.total = in.total /\ req.pick = in.pick /\ req.hold = in.hold
        /\ req.party = docs[d].party
    BY <1>5 DEF Request
  <2>2. docs[d].party # None => Home[docs[d].party] = docs[d].shop
    BY <1>4 DEF BooksInv, RowsFollowRequests, FollowsRequest, Exists
  <2>3. Acceptable(req)
    BY <1>4, <2>1, <2>2 DEF Acceptable
  <2>4. QED
    BY <1>4, <1>7, <2>1, <2>3 DEF Handed, PaymentTypes
<1>11. acct \in ResolveMoneyAccount(req.shop, req.method, req.pick)
  BY <1>5 DEF Request
<1> HIDE DEF req
<1>12. /\ alloc[d] \in [Docs -> Nat]
       /\ \A e \in Docs : alloc[d][e] = 0
       /\ alloc' = [alloc EXCEPT ![d] = alloc[d]]
       /\ Settles(req, alloc[d])
  BY <1>4, NothingAllocated
<1>13. Others(d, req, None, alloc[d])
  BY <1>2, <1>9, <1>12 DEF Others, Doc
<1>14. docs'[d] = NewDoc(req, acct, None, docs[d].against) /\ docs[d].against \in Docs \cup {None}
  BY <1>2, <1>5, <1>6, <1>9 DEF Doc
<1>15. Pay(d, docs'[d], acct)
  BY <1>2, <1>9
<1>16. Entering(d, req, acct, None, alloc[d])
  BY <1>3, <1>4, <1>10, <1>12, <1>13, <1>14, <1>15 DEF Entering
<1>17. QED
  BY <1>7, <1>11, <1>12, <1>16 DEF Enters

LEMMA HoldShape ==
  ASSUME BooksInv, NEW n \in Docs, NEW in \in Inputs, HoldBill(n, in)
  PROVE  Parks(n, in)
<1>1. Rests(n)
  BY HoldBillInv DEF BooksInv
<1>2. QED
  BY <1>1, InputsAssumption DEF HoldBill, Parks, IsNext, Exists

(* What applyAllocations does to a row. *)
LEMMA AllocatedRow ==
  ASSUME TypeOK, NEW amounts \in [Docs -> Nat], NEW invert \in BOOLEAN, NEW e \in Docs
  PROVE  LET u == Allocated(docs, amounts, invert)[e]
         IN  /\ u.paid = docs[e].paid + Signed(amounts[e], invert)
             /\ \/ amounts[e] > 0 /\ u.status = Settlement(docs[e].total, u.paid)
                \/ amounts[e] = 0 /\ u.status = docs[e].status
<1> DEFINE u == Allocated(docs, amounts, invert)[e]
           paid == docs[e].paid + Signed(amounts[e], invert)
<1>1. docs[e] \in Doc /\ docs[e].paid \in Int /\ amounts[e] \in Nat
  BY DEF TypeOK, Doc
<1>2. u = IF amounts[e] = 0 THEN docs[e]
          ELSE [docs[e] EXCEPT !.paid = paid, !.status = Settlement(docs[e].total, paid)]
  BY DEF Allocated
<1> HIDE DEF u
<1>3. CASE amounts[e] = 0
  BY <1>1, <1>2, <1>3 DEF Signed, u
<1>4. CASE amounts[e] # 0
  <2>1. u.paid = paid /\ u.status = Settlement(docs[e].total, paid)
    BY <1>1, <1>2, <1>4 DEF Doc
  <2>2. QED
    BY <1>1, <1>4, <2>1 DEF u
<1>5. QED
  BY <1>3, <1>4

(* A row that is not posted is no payment and settles nothing. *)
LEMMA HeldSettlesNothing ==
  ASSUME BooksInv, NEW d \in Docs, ~Posted(docs[d])
  PROVE  \A e \in Docs : alloc[d][e] = 0
<1>1. docs[d].type \notin PaymentTypes
  BY DEF BooksInv, CoreInv, RowsWellFormed, Posted, PaymentTypes
<1>2. QED
  BY <1>1 DEF BooksInv, CoreInv, TypeOK, AllocationsMatch

LEMMA DeleteStepShape ==
  ASSUME BooksInv, NEW d \in Docs, DeleteTxn(d)
  PROVE  Deletes(d)
<1> DEFINE released == IF Posted(docs[d]) THEN Allocated(docs, alloc[d], TRUE) ELSE docs
<1>1. /\ docs \in [Docs -> Doc] /\ CoreInv /\ TypeOK
      /\ alloc[d] \in [Docs -> Nat]
  BY DEF BooksInv, CoreInv, TypeOK
<1>2. /\ Live(d) /\ alloc' = alloc
      /\ \A e \in Docs : ~(alloc[e][d] > 0)
      /\ ~\E e \in Docs : Exists(e) /\ docs[e].source = d
      /\ docs' = [e \in Docs |->
                    IF e = d THEN [docs[d] EXCEPT !.deleted = TRUE]
                    ELSE IF e = docs[d].source THEN [docs[e] EXCEPT !.status = "ORDER_OPEN"]
                    ELSE released[e]]
  BY DEF DeleteTxn, Undeletable
<1>3. ASSUME NEW e \in Docs
      PROVE  /\ released[e].paid = docs[e].paid + Signed(alloc[d][e], TRUE)
             /\ \/ alloc[d][e] > 0 /\ released[e].status = Settlement(docs[e].total, released[e].paid)
                \/ alloc[d][e] = 0 /\ released[e].status = docs[e].status
  <2>1. CASE Posted(docs[d])
    BY <1>1, <2>1, AllocatedRow
  <2>2. CASE ~Posted(docs[d])
    <3>1. alloc[d][e] = 0 /\ docs[e].paid \in Int
      BY <1>1, <2>2, HeldSettlesNothing DEF Doc
    <3>2. QED
      BY <2>2, <3>1 DEF Signed
  <2>3. QED
    BY <2>1, <2>2
<1> HIDE DEF released
<1>4. docs[d].source # None =>
        /\ docs[d].source \in Docs /\ docs[d].source # d
        /\ alloc[d][docs[d].source] = 0
        /\ docs'[docs[d].source] = [docs[docs[d].source] EXCEPT !.status = "ORDER_OPEN"]
  <2> SUFFICES ASSUME docs[d].source # None
               PROVE  /\ docs[d].source \in Docs /\ docs[d].source # d
                      /\ alloc[d][docs[d].source] = 0
                      /\ docs'[docs[d].source] = [docs[docs[d].source] EXCEPT !.status = "ORDER_OPEN"]
    OBVIOUS
  <2>1. docs[d].source \in Docs /\ docs[docs[d].source].type \in OrderTypes
        /\ docs[d].source # d
    BY <1>1, <1>2 DEF CoreInv, RowsWellFormed, Doc, Live, Exists
  <2>2. ~(alloc[d][docs[d].source] > 0)
    BY <2>1 DEF BooksInv, AllocationsMatch, SettledBy, OrderTypes
  <2>3. QED
    BY <1>1, <1>2, <2>1, <2>2
<1>5. ASSUME NEW e \in Docs \ {d}
      PROVE  /\ docs'[e].paid = docs[e].paid + Signed(alloc[d][e], TRUE)
             /\ \/ alloc[d][e] > 0 /\ docs'[e].status = Settlement(docs[e].total, docs'[e].paid)
                \/ alloc[d][e] = 0 /\ docs'[e].status = docs[e].status
                \/ alloc[d][e] = 0 /\ docs'[e].status = "ORDER_OPEN"
  <2>1. CASE e = docs[d].source
    <3>1. e # None /\ docs[e] \in Doc /\ docs[e].paid \in Int
      BY <1>1, NoneAssumption DEF Doc
    <3>2. alloc[d][e] = 0 /\ docs'[e] = [docs[e] EXCEPT !.status = "ORDER_OPEN"]
      BY <1>4, <2>1, <3>1
    <3>3. docs'[e].paid = docs[e].paid /\ docs'[e].status = "ORDER_OPEN"
      BY <3>1, <3>2 DEF Doc
    <3>4. QED
      BY <3>1, <3>2, <3>3 DEF Signed
  <2>2. CASE e # docs[d].source
    <3>1. docs'[e] = released[e]
      BY <1>2, <2>2
    <3>2. QED
      BY <1>3, <3>1
  <2>3. QED
    BY <2>1, <2>2
<1>6. /\ Alike(docs[d], docs'[d]) /\ docs'[d].deleted = TRUE
      /\ Exists(d) /\ docs[d].deleted # TRUE
      /\ \A p \in Docs : alloc[p][d] = 0
  <2>1. Alike(docs[d], docs'[d]) /\ docs'[d].deleted = TRUE
    BY <1>1, DeleteShape DEF Doc
  <2>2. docs[d].deleted = FALSE
    BY <1>1, <1>2 DEF Live, Doc
  <2>3. \A p \in Docs : alloc[p][d] = 0
    BY <1>1, <1>2 DEF TypeOK
  <2>4. QED
    BY <1>2, <2>1, <2>2, <2>3 DEF Live
<1>7. Flagged(d, TRUE)
  BY <1>2, <1>5, <1>6 DEF Flagged
<1>8. docs[d].source # None => docs'[docs[d].source].status = "ORDER_OPEN"
  BY <1>1, <1>4 DEF Doc
<1>9. Reverses(d) \/ Rests(d)
  BY <1>1, DeleteInv
<1>10. CASE Posted(docs[d])
  <2>1. InForce(d) /\ Unpay(d, docs[d])
    BY <1>2, <1>10 DEF DeleteTxn, InForce
  <2>2. Reverses(d)
    BY <1>9, <2>1 DEF Rests
  <2>3. QED
    BY <1>2, <1>7, <1>8, <2>1, <2>2 DEF Deletes
<1>11. CASE ~Posted(docs[d])
  <2>1. UNCHANGED <<accounts, accountBalance, cheques>>
    BY <1>11 DEF DeleteTxn
  <2>2. Rests(d)
    BY <1>9, <1>11 DEF Reverses, InForce
  <2>3. QED
    BY <1>2, <1>7, <1>8, <2>1, <2>2 DEF Deletes
<1>12. QED
  BY <1>10, <1>11

LEMMA RestoreStepShape ==
  ASSUME BooksInv, NEW d \in Docs, RestoreTxn(d)
  PROVE  Restores(d)
<1> DEFINE applied == IF Posted(docs[d]) THEN Allocated(docs, alloc[d], FALSE) ELSE docs
<1>1. /\ docs \in [Docs -> Doc] /\ CoreInv /\ TypeOK
      /\ alloc[d] \in [Docs -> Nat]
  BY DEF BooksInv, CoreInv, TypeOK
<1>2. /\ Exists(d) /\ docs[d].deleted /\ alloc' = alloc
      /\ docs' = [applied EXCEPT ![d] = [Again(d) EXCEPT !.deleted = FALSE]]
  BY DEF RestoreTxn, Again
<1>3. DOMAIN applied = Docs
  BY <1>1 DEF Allocated
<1>4. ASSUME NEW e \in Docs
      PROVE  /\ applied[e].paid = docs[e].paid + Signed(alloc[d][e], FALSE)
             /\ \/ alloc[d][e] > 0 /\ applied[e].status = Settlement(docs[e].total, applied[e].paid)
                \/ alloc[d][e] = 0 /\ applied[e].status = docs[e].status
  <2>1. CASE Posted(docs[d])
    BY <1>1, <2>1, AllocatedRow
  <2>2. CASE ~Posted(docs[d])
    <3>1. alloc[d][e] = 0 /\ docs[e].paid \in Int
      BY <1>1, <2>2, HeldSettlesNothing DEF Doc
    <3>2. QED
      BY <2>2, <3>1 DEF Signed
  <2>3. QED
    BY <2>1, <2>2
<1> HIDE DEF applied
<1>5. /\ Alike(docs[d], docs'[d]) /\ docs'[d].deleted = FALSE
      /\ \A e \in Docs \ {d} : docs'[e] = applied[e]
  BY <1>1, <1>2, <1>3, RestoreShape DEF Doc
<1>6. \A p \in Docs : alloc[p][d] = 0
  BY <1>1, <1>2 DEF CoreInv, SettledInvoicesStay, Live, TypeOK
<1>7. Flagged(d, FALSE)
  BY <1>2, <1>4, <1>5, <1>6 DEF Flagged
<1>8. Posts(d) \/ Rests(d)
  BY <1>1, RestoreInv
<1>9. docs'[d].deleted = FALSE /\ docs'[d].status = docs[d].status /\ docs[d].status # "NONE"
  BY <1>1, <1>2, <1>5 DEF Alike, Exists
<1>10. CASE Posted(docs[d])
  <2>1. Pay(d, docs[d], AccountOfRow(docs[d]))
    BY <1>10 DEF RestoreTxn
  <2>2. /\ docs'[d].own = docs[d].own /\ docs'[d].method = docs[d].method
        /\ docs'[d].type = docs[d].type /\ docs'[d].acct = docs[d].acct
        /\ docs'[d].shop = docs[d].shop
    BY <1>5 DEF Alike
  <2>3. Pay(d, docs'[d], AccountOfRow(docs'[d]))
    BY <2>1, <2>2 DEF Pay, Moved, AccountOfRow, PaysInto, PaysByCheque, MoneyEffect
  <2>4. Posts(d)
    BY <1>8, <1>9, <1>10 DEF Rests, Posted
  <2>5. QED
    BY <1>7, <2>3, <2>4 DEF Restores
<1>11. CASE ~Posted(docs[d])
  <2>1. UNCHANGED <<accounts, accountBalance, cheques>>
    BY <1>11 DEF RestoreTxn
  <2>2. Rests(d)
    BY <1>8, <1>9, <1>11 DEF Posts, Posted
  <2>3. QED
    BY <1>7, <2>1, <2>2 DEF Restores
<1>12. QED
  BY <1>10, <1>11

(* All that an edit of an item leaves alone. *)
Idle == UNCHANGED <<docs, alloc, currentStock, stockLevel, partyBalance, accounts,
                    accountBalance, cheques, miscounted, transfers>>

(* Every step is one of these. *)
Shaped ==
    \/ \E d \in Docs : \/ Enters(d)
                       \/ \E in \in Inputs : Parks(d, in)
                       \/ Deletes(d)
                       \/ Restores(d)
                       \/ \E a \in AccountIds : SettleCheque(d, a)
                       \/ ReopenCheque(d)
    \/ \E id \in Transfers, m \in Moves : MoveMoney(id, m)
    \/ Idle

LEMMA NextShape ==
  ASSUME Slips = {}, BooksInv, [Next]_vars
  PROVE  Shaped
<1>1. ASSUME NEW n \in Docs, NEW in \in Inputs,
             \/ CreateTxn(n, in)
             \/ HoldBill(n, in)
             \/ CreatePaymentAuto(n, in)
             \/ CreatePaymentManual(n, in)
             \/ ResumeHeld(n, in)
      PROVE  Enters(n) \/ Parks(n, in)
  BY <1>1, CreateTxnShape, HoldShape, AutoShape, ManualShape, ResumeShape
<1>2. ASSUME NEW n \in Docs, NEW d \in Docs, NEW b \in BOOLEAN, NEW cash \in BOOLEAN,
             NEW qty \in Quantities,
             RefundInvoice(n, d, qty, b, cash) \/ ConvertTxn(n, d, qty, b, cash)
      PROVE  Enters(n)
  <2>1. qty \in Nat
    BY DEF Quantities, BooksInv, CoreInv, TypeOK, Doc
  <2>2. QED
    BY <1>2, <2>1, RefundShape, ConvertShape
<1>3. ASSUME NEW d \in Docs, DeleteTxn(d) \/ RestoreTxn(d)
      PROVE  Deletes(d) \/ Restores(d)
  BY <1>3, DeleteStepShape, RestoreStepShape
<1>4. CASE Next
  BY <1>1, <1>2, <1>3, <1>4 DEF Next, Shaped, Idle, EditItem
<1>5. QED
  BY <1>4 DEF Shaped, Idle, vars

(***************************************************************************)
(* The parts of the invariant.                                             *)
(***************************************************************************)

(* The row that a request makes. *)
LEMMA EnteredRow ==
  ASSUME NEW in, NEW acct, NEW source, NEW against, Handed(in)
  PROVE  LET t == NewDoc(in, acct, source, against)
         IN  /\ t.type = in.type /\ t.shop = in.shop /\ t.party = in.party /\ t.to = in.to
             /\ t.item = in.item /\ t.qty = in.qty /\ t.total = in.total
             /\ t.method = in.method /\ t.source = source /\ ~t.deleted
             /\ t.own = (IF in.type \in OrderTypes THEN 0 ELSE in.own)
             /\ t.acct = (IF t.own > 0 /\ in.method \in Kinds
                          THEN IF acct # None THEN acct ELSE in.pick ELSE None)
             /\ t.paid = t.own
             /\ t.status \in {"ORDER_OPEN", "OPEN", "PARTIAL", "PAID"}
             /\ t.status # "ORDER_OPEN" => t.status = Settlement(t.total, t.paid)
<1> DEFINE t == NewDoc(in, acct, source, against)
<1>1. /\ t.type = in.type /\ t.shop = in.shop /\ t.party = in.party /\ t.to = in.to
      /\ t.item = in.item /\ t.qty = in.qty /\ t.total = in.total
      /\ t.method = in.method /\ t.source = source /\ ~t.deleted
      /\ t.own = (IF in.type \in OrderTypes THEN 0 ELSE in.own)
      /\ t.acct = (IF t.own > 0 /\ in.method \in Kinds
                   THEN IF acct # None THEN acct ELSE in.pick ELSE None)
      /\ t.paid = (IF in.type \in PaymentTypes THEN in.total ELSE t.own)
      /\ t.status = (IF in.type \in OrderTypes THEN "ORDER_OPEN"
                     ELSE IF in.type \in PaymentTypes THEN "PAID"
                     ELSE Settlement(in.total, t.own))
  BY DEF NewDoc, Handed
<1>2. in.type \in PaymentTypes => in.type \notin OrderTypes /\ in.own = in.total
  BY DEF Handed, Acceptable, PaymentTypes, OrderTypes
<1>3. in.total \in Nat
  BY DEF Handed, Request
<1>4. Settlement(in.total, in.total) = "PAID"
  BY <1>3 DEF Settlement
<1> HIDE DEF t
<1>5. t.paid = t.own
  BY <1>1, <1>2
<1>6. /\ t.status \in {"ORDER_OPEN", "OPEN", "PARTIAL", "PAID"}
      /\ t.status # "ORDER_OPEN" => t.status = Settlement(t.total, t.paid)
  BY <1>1, <1>2, <1>4, <1>5, SettlementType
<1>7. QED
  BY <1>1, <1>5, <1>6 DEF t

(* A document that is not there or on hold is no order. *)
LEMMA EntersNoOrder ==
  ASSUME BooksInv, NEW d \in Docs, docs[d].status \in {"NONE", "HELD"}
  PROVE  docs[d].type = "SALE_INVOICE" /\ docs[d].source = None /\ docs[d].own = 0
BY DEF BooksInv, CoreInv, RowsWellFormed, RowsFollowRequests, FollowsRequest, Exists, BlankDoc

LEMMA RowKept ==
  ASSUME BooksInv, NEW d \in Docs, Frame(d),
         docs[d].type \notin OrderTypes \/ docs'[d].item = docs[d].item,
         NEW e \in Docs \ {d}, docs'[e].status # "NONE"
  PROVE  FollowsRequest(docs[e])'
<1>1. Same(docs[e], docs'[e]) /\ docs \in [Docs -> Doc]
  BY DEF Frame, BooksInv, CoreInv, TypeOK
<1>2. FollowsRequest(docs[e])
  BY <1>1 DEF Same, BooksInv, RowsFollowRequests, Exists
<1>3. docs[e].source # None => docs'[docs[e].source].item = docs[docs[e].source].item
  <2> SUFFICES ASSUME docs[e].source # None
               PROVE  docs'[docs[e].source].item = docs[docs[e].source].item
    OBVIOUS
  <2>1. docs[e].source \in Docs /\ docs[docs[e].source].type \in OrderTypes
    BY <1>1 DEF BooksInv, CoreInv, RowsWellFormed, Doc
  <2>2. QED
    BY <2>1 DEF Frame, Same
<1>4. QED
  BY <1>1, <1>2, <1>3 DEF FollowsRequest, Same, PaysInto

LEMMA EnteredFollows ==
  ASSUME BooksInv, NEW d \in Docs, NEW in \in Request, NEW source \in Docs \cup {None},
         NEW al, NEW acct, Entering(d, in, acct, source, al)
  PROVE  FollowsRequest(docs[d])'
<1>1. PICK against \in Docs \cup {None} : docs'[d] = NewDoc(in, acct, source, against)
  BY DEF Entering
<1>2. /\ Handed(in) /\ docs[d].status \in {"NONE", "HELD"}
      /\ source # None => docs[source].type \in OrderTypes /\ docs[source].item = in.item
      /\ Frame(d)
  BY DEF Entering, Posts
<1> DEFINE t == NewDoc(in, acct, source, against)
<1>3. /\ t.type = in.type /\ t.shop = in.shop /\ t.party = in.party
      /\ t.item = in.item /\ t.total = in.total
      /\ t.method = in.method /\ t.source = source
      /\ t.own = (IF in.type \in OrderTypes THEN 0 ELSE in.own)
      /\ t.acct # None => t.own > 0 /\ in.method \in Kinds
      /\ t.status # "HELD"
  BY <1>2, EnteredRow
<1>4. /\ in.type \in PaymentTypes => in.own = in.total /\ in.party # None
                                     /\ in.type \notin OrderTypes
      /\ in.type = "P2P_TRANSFER" => in.own = 0
      /\ in.item # None => Home[in.item] = in.shop
      /\ in.party # None => Home[in.party] = in.shop
  BY <1>2 DEF Handed, Acceptable, PaymentTypes, OrderTypes
<1>5. source # None => docs'[source].item = in.item
  BY <1>2, EntersNoOrder DEF Frame, Same, OrderTypes
<1> HIDE DEF t
<1>6. QED
  BY <1>1, <1>3, <1>4, <1>5 DEF FollowsRequest, PaysInto, t

LEMMA RowsStep ==
  ASSUME BooksInv, Shaped
  PROVE  RowsFollowRequests'
<1> SUFFICES ASSUME NEW e \in Docs, docs'[e].status # "NONE"
             PROVE  FollowsRequest(docs[e])'
  BY DEF RowsFollowRequests, Exists
<1>1. ASSUME NEW d \in Docs, Enters(d) PROVE FollowsRequest(docs[e])'
  <2>1. PICK in \in Request, source \in Docs \cup {None}, al \in [Docs -> Nat] :
               \E acct \in ResolveMoneyAccount(in.shop, in.method, in.pick) :
                 Entering(d, in, acct, source, al)
    BY <1>1 DEF Enters
  <2>2. Frame(d) /\ docs[d].type \notin OrderTypes
    BY <2>1, EntersNoOrder DEF Entering, Posts, OrderTypes
  <2>3. QED
    BY <2>1, <2>2, RowKept, EnteredFollows
<1>2. ASSUME NEW d \in Docs, NEW in \in Inputs, Parks(d, in) PROVE FollowsRequest(docs[e])'
  <2>1. Frame(d) /\ docs[d].type \notin OrderTypes
    BY <1>2, EntersNoOrder DEF Parks, Rests, OrderTypes
  <2>2. CASE e # d
    BY <2>1, <2>2, RowKept
  <2>3. CASE e = d
    <3>1. docs'[d] = NewDoc(in, None, None, None)
      BY <1>2 DEF Parks, BooksInv, CoreInv, TypeOK
    <3>2. /\ docs'[d].type = "SALE_INVOICE" /\ docs'[d].item = in.item
          /\ docs'[d].shop = in.shop /\ docs'[d].party = in.party
          /\ docs'[d].source = None /\ docs'[d].acct = None
      BY <1>2, <3>1 DEF Parks, NewDoc
    <3>3. /\ in.item # None => Home[in.item] = in.shop
          /\ in.party # None => Home[in.party] = in.shop
      BY <1>2 DEF Parks, Acceptable
    <3>4. QED
      BY <2>3, <3>2, <3>3 DEF FollowsRequest, PaymentTypes, OrderTypes
  <2>4. QED
    BY <2>2, <2>3
<1>3. ASSUME NEW d \in Docs, NEW flag \in BOOLEAN, Flagged(d, flag), Frame(d)
      PROVE  FollowsRequest(docs[e])'
  <2>1. docs[d] \in Doc /\ Alike(docs[d], docs'[d]) /\ Exists(d)
    BY <1>3 DEF Flagged, BooksInv, CoreInv, TypeOK
  <2>2. /\ docs'[d].type = docs[d].type /\ docs'[d].own = docs[d].own
        /\ docs'[d].total = docs[d].total /\ docs'[d].party = docs[d].party
        /\ docs'[d].item = docs[d].item /\ docs'[d].shop = docs[d].shop
        /\ docs'[d].acct = docs[d].acct /\ docs'[d].method = docs[d].method
        /\ docs'[d].status = docs[d].status /\ docs'[d].source = docs[d].source
    BY <2>1 DEF Alike
  <2>3. CASE e # d
    BY <1>3, <2>2, <2>3, RowKept
  <2>4. CASE e = d
    <3>1. FollowsRequest(docs[d])
      BY <2>1 DEF BooksInv, RowsFollowRequests
    <3>2. docs[d].source # None => docs'[docs[d].source].item = docs[docs[d].source].item
      <4>1. docs[d].source # None => docs[d].source \in Docs
        BY <2>1 DEF Doc
      <4>2. QED
        BY <1>3, <2>2, <4>1 DEF Frame, Same
    <3>3. QED
      BY <2>2, <2>4, <3>1, <3>2 DEF FollowsRequest, PaysInto
  <2>5. QED
    BY <2>3, <2>4
<1>4. ASSUME NEW d \in Docs, Deletes(d) \/ Restores(d) PROVE FollowsRequest(docs[e])'
  BY <1>3, <1>4 DEF Deletes, Restores, Posts, Reverses, Rests
<1>5. ASSUME docs' = docs PROVE FollowsRequest(docs[e])'
  BY <1>5 DEF BooksInv, RowsFollowRequests, FollowsRequest, Exists, PaysInto
<1>6. QED
  BY <1>1, <1>2, <1>4, <1>5 DEF Shaped, Idle, SettleCheque, ReopenCheque, MoveMoney

(* A step that sets a flag, or none, keeps what the other parts read of a row. *)
LEMMA FlagKeeps ==
  ASSUME BooksInv, NEW d \in Docs, NEW flag \in BOOLEAN, Flagged(d, flag), Frame(d)
  PROVE  \A e \in Docs : /\ docs'[e].type = docs[e].type
                         /\ docs'[e].shop = docs[e].shop
                         /\ docs'[e].party = docs[e].party
                         /\ docs'[e].item = docs[e].item
                         /\ docs'[e].qty = docs[e].qty
                         /\ docs'[e].total = docs[e].total
                         /\ docs'[e].own = docs[e].own
                         /\ docs'[e].method = docs[e].method
                         /\ docs'[e].acct = docs[e].acct
                         /\ docs'[e].source = docs[e].source
                         /\ docs'[e].status = "NONE" <=> docs[e].status = "NONE"
                         /\ docs'[e].status = "HELD" <=> docs[e].status = "HELD"
<1> SUFFICES ASSUME NEW e \in Docs
             PROVE  /\ docs'[e].type = docs[e].type
                    /\ docs'[e].shop = docs[e].shop
                    /\ docs'[e].party = docs[e].party
                    /\ docs'[e].item = docs[e].item
                    /\ docs'[e].qty = docs[e].qty
                    /\ docs'[e].total = docs[e].total
                    /\ docs'[e].own = docs[e].own
                    /\ docs'[e].method = docs[e].method
                    /\ docs'[e].acct = docs[e].acct
                    /\ docs'[e].source = docs[e].source
                    /\ docs'[e].status = "NONE" <=> docs[e].status = "NONE"
                    /\ docs'[e].status = "HELD" <=> docs[e].status = "HELD"
  OBVIOUS
<1>1. CASE e # d
  BY <1>1 DEF Frame, Same
<1>2. CASE e = d
  BY <1>2 DEF Flagged, Alike
<1>3. QED
  BY <1>1, <1>2

LEMMA AllocationsStep ==
  ASSUME BooksInv, Shaped
  PROVE  AllocationsMatch'
<1> SUFFICES ASSUME NEW p \in Docs, NEW e \in Docs, alloc'[p][e] > 0
             PROVE  /\ docs'[p].status # "NONE" /\ docs'[p].type \in PaymentTypes
                    /\ docs'[e].type = SettledBy(docs'[p].type)
                    /\ docs'[e].party = docs'[p].party
  BY DEF AllocationsMatch, Exists
<1>1. alloc \in [Docs -> [Docs -> Nat]]
  BY DEF BooksInv, CoreInv, TypeOK
<1>2. ASSUME alloc[p][e] > 0
      PROVE  /\ docs[p].status \notin {"NONE", "HELD"} /\ docs[p].type \in PaymentTypes
             /\ docs[e].status \notin {"NONE", "HELD"}
             /\ docs[e].type = SettledBy(docs[p].type)
             /\ docs[e].party = docs[p].party
  BY <1>2 DEF BooksInv, AllocationsMatch, CoreInv, SettledInvoicesStay, RowsWellFormed, Exists, Live,
              Posted, PaymentTypes
<1>3. ASSUME NEW d \in Docs, Frame(d), docs[d].status \in {"NONE", "HELD"}, alloc[p][e] > 0
      PROVE  /\ docs'[p].status # "NONE" /\ docs'[p].type \in PaymentTypes
             /\ docs'[e].type = SettledBy(docs'[p].type)
             /\ docs'[e].party = docs'[p].party
  BY <1>2, <1>3 DEF Frame, Same
<1>4. ASSUME NEW d \in Docs, Enters(d)
      PROVE  /\ docs'[p].status # "NONE" /\ docs'[p].type \in PaymentTypes
             /\ docs'[e].type = SettledBy(docs'[p].type)
             /\ docs'[e].party = docs'[p].party
  <2>1. PICK in \in Request, source \in Docs \cup {None}, al \in [Docs -> Nat] :
               \E acct \in ResolveMoneyAccount(in.shop, in.method, in.pick) :
                 Entering(d, in, acct, source, al)
    BY <1>4 DEF Enters
  <2>2. PICK acct \in ResolveMoneyAccount(in.shop, in.method, in.pick) :
               Entering(d, in, acct, source, al)
    BY <2>1
  <2>3. /\ Posts(d) /\ Frame(d) /\ docs[d].status \in {"NONE", "HELD"}
        /\ Handed(in) /\ Settles(in, al) /\ alloc' = [alloc EXCEPT ![d] = al]
        /\ docs'[d].status # "NONE"
    BY <2>2 DEF Entering, Posts
  <2>4. CASE p # d
    BY <1>1, <1>3, <2>3, <2>4
  <2>5. CASE p = d
    <3>1. al[e] > 0
      BY <1>1, <2>3, <2>5
    <3>2. /\ in.type \in PaymentTypes /\ Live(e) /\ Posted(docs[e])
          /\ docs[e].type = SettledBy(in.type) /\ docs[e].party = in.party
      BY <2>3, <3>1 DEF Settles
    <3>3. e # d
      BY <2>3, <3>2 DEF Live, Exists, Posted
    <3>4. docs'[e].type = docs[e].type /\ docs'[e].party = docs[e].party
      BY <2>3, <3>3 DEF Frame, Same
    <3>5. docs'[d].type = in.type /\ docs'[d].party = in.party
      <4>1. PICK against \in Docs \cup {None} : docs'[d] = NewDoc(in, acct, source, against)
        BY <2>2 DEF Entering
      <4>2. QED
        BY <2>3, <4>1, EnteredRow
    <3>6. QED
      BY <2>3, <2>5, <3>2, <3>4, <3>5
  <2>6. QED
    BY <2>4, <2>5
<1>5. ASSUME NEW d \in Docs, NEW in \in Inputs, Parks(d, in)
      PROVE  /\ docs'[p].status # "NONE" /\ docs'[p].type \in PaymentTypes
             /\ docs'[e].type = SettledBy(docs'[p].type)
             /\ docs'[e].party = docs'[p].party
  BY <1>3, <1>5 DEF Parks, Rests
<1>6. ASSUME NEW d \in Docs, Deletes(d) \/ Restores(d)
      PROVE  /\ docs'[p].status # "NONE" /\ docs'[p].type \in PaymentTypes
             /\ docs'[e].type = SettledBy(docs'[p].type)
             /\ docs'[e].party = docs'[p].party
  <2>1. PICK flag \in BOOLEAN : Flagged(d, flag) /\ Frame(d)
    BY <1>6 DEF Deletes, Restores, Posts, Reverses, Rests
  <2>2. alloc' = alloc
    BY <2>1 DEF Flagged
  <2>3. QED
    BY <1>2, <2>1, <2>2, FlagKeeps
<1>7. ASSUME docs' = docs, alloc' = alloc
      PROVE  /\ docs'[p].status # "NONE" /\ docs'[p].type \in PaymentTypes
             /\ docs'[e].type = SettledBy(docs'[p].type)
             /\ docs'[e].party = docs'[p].party
  BY <1>2, <1>7
<1>8. QED
  BY <1>4, <1>5, <1>6, <1>7 DEF Shaped, Idle, SettleCheque, ReopenCheque, MoveMoney

(* The account a payment is posted to belongs to the shop and is a known   *)
(* one or the shop's first of its kind.                                    *)
LEMMA ResolvedIsOwn ==
  ASSUME IInv, AccountsOfTheirOwn, PicksOfTheirOwn,
         NEW in \in Request, Handed(in), in.method \in Kinds,
         NEW acct \in ResolveMoneyAccount(in.shop, in.method, in.pick)
  PROVE  acct \in AccountIds /\ acct.shop = in.shop
<1>1. in.shop \in Shops /\ accounts \subseteq AccountIds
  BY DEF Request, IInv, BooksInv, CoreInv, TypeOK
<1>2. CASE in.pick # None
  <2>1. in.pick \in Accounts0 /\ in.pick.shop = in.shop
    BY <1>2 DEF Handed, PicksOfTheirOwn
  <2>2. in.pick \in accounts
    BY <2>1 DEF IInv, AccountsOfRows
  <2>3. acct = in.pick
    BY <1>2, <2>1, <2>2 DEF ResolveMoneyAccount
  <2>4. QED
    BY <1>1, <2>1, <2>2, <2>3
<1>3. CASE in.pick = None
  <2> DEFINE own == [shop |-> in.shop, kind |-> in.method]
  <2>1. own \in AccountIds /\ own.shop = in.shop
    BY <1>1 DEF AccountIds
  <2>2. \/ acct = own
        \/ own \notin accounts /\ acct \in accounts /\ acct.kind = in.method
    BY <1>3 DEF ResolveMoneyAccount
  <2> HIDE DEF own
  <2>3. ASSUME own \notin accounts, acct \in accounts, acct.kind = in.method
        PROVE  acct.shop = in.shop
    <3>1. own \notin Accounts0
      BY <2>3 DEF IInv, AccountsOfRows
    <3>2. PICK s \in Shops : Shops = {s} /\ \A a \in Accounts0 : a.kind = in.method => a.shop = s
      <4>1. ~\A s \in Shops : [shop |-> s, kind |-> in.method] \in Accounts0
        BY <1>1, <3>1 DEF own
      <4>2. QED
        BY <4>1 DEF AccountsOfTheirOwn
    <3>3. acct.shop \in Shops
      BY <2>3, <3>2 DEF IInv, AccountsOfRows
    <3>4. QED
      BY <1>1, <3>2, <3>3
  <2>4. QED
    BY <1>1, <2>1, <2>2, <2>3
<1>4. QED
  BY <1>2, <1>3

LEMMA EnteredAccount ==
  ASSUME IInv, AccountsOfTheirOwn, PicksOfTheirOwn,
         NEW d \in Docs, NEW in \in Request, NEW source, NEW al,
         NEW acct \in ResolveMoneyAccount(in.shop, in.method, in.pick),
         Entering(d, in, acct, source, al), PaysInto(docs'[d])
  PROVE  /\ acct \in AccountIds /\ docs'[d].acct = acct /\ acct.shop = docs'[d].shop
         /\ accounts' = accounts \cup {acct}
<1>1. PICK against \in Docs \cup {None} : docs'[d] = NewDoc(in, acct, source, against)
  BY DEF Entering
<1>2. Handed(in) /\ Pay(d, docs'[d], acct)
  BY DEF Entering
<1>3. /\ docs'[d].shop = in.shop /\ docs'[d].method = in.method
      /\ docs'[d].acct = (IF docs'[d].own > 0 /\ in.method \in Kinds
                          THEN IF acct # None THEN acct ELSE in.pick ELSE None)
  BY <1>1, <1>2, EnteredRow
<1>4. in.method \in Kinds /\ docs'[d].own > 0
  BY <1>3 DEF PaysInto
<1>5. acct \in AccountIds /\ acct.shop = in.shop
  BY <1>2, <1>4, ResolvedIsOwn
<1>6. acct # None
  BY <1>5, NoneAssumption
<1>7. accounts' = accounts \cup {acct}
  BY <1>2, <1>6 DEF Pay
<1>8. QED
  BY <1>3, <1>4, <1>5, <1>6, <1>7

LEMMA AccountsStep ==
  ASSUME IInv, AccountsOfTheirOwn, PicksOfTheirOwn, Shaped
  PROVE  AccountsOfRows'
<1> DEFINE Kept == /\ accounts \subseteq accounts'
                   /\ \A a \in accounts' \ accounts : a.shop \in Shops
           Rows == \A e \in Docs : PaysInto(docs'[e]) =>
                      docs'[e].acct \in accounts' /\ docs'[e].acct.shop = docs'[e].shop
           Notes == \A e \in Docs : cheques'[e].account # None => cheques'[e].account \in accounts'
<1>1. /\ cheques \in [Docs -> Cheque] /\ docs \in [Docs -> Doc]
      /\ Accounts0 \subseteq accounts
      /\ \A a \in accounts \ Accounts0 : a.shop \in Shops
      /\ \A e \in Docs : PaysInto(docs[e]) => docs[e].acct \in accounts
                                              /\ docs[e].acct.shop = docs[e].shop
      /\ \A e \in Docs : cheques[e].account # None => cheques[e].account \in accounts
  BY DEF IInv, BooksInv, CoreInv, TypeOK, AccountsOfRows
<1>2. SUFFICES Kept /\ Rows /\ Notes
  BY <1>1 DEF AccountsOfRows, PaysInto
<1>3. ASSUME NEW d \in Docs, Frame(d), accounts \subseteq accounts',
             PaysInto(docs'[d]) => docs'[d].acct \in accounts'
                                   /\ docs'[d].acct.shop = docs'[d].shop
      PROVE  Rows
  BY <1>1, <1>3 DEF Frame, Same, PaysInto
<1>4. ASSUME NEW d \in Docs, NEW t, NEW acct, Pay(d, t, acct)
      PROVE  /\ accounts \subseteq accounts' /\ Notes
             /\ accounts' \subseteq accounts \cup {acct}
  <2>1. \A e \in Docs : cheques'[e].account # None => cheques'[e].account = cheques[e].account
    BY <1>1, <1>4 DEF Pay
  <2>2. accounts \subseteq accounts' /\ accounts' \subseteq accounts \cup {acct}
    BY <1>4 DEF Pay
  <2>3. QED
    BY <1>1, <2>1, <2>2
<1>5. ASSUME NEW d \in Docs, Enters(d) PROVE Kept /\ Rows /\ Notes
  <2>1. PICK in \in Request, source \in Docs \cup {None}, al \in [Docs -> Nat] :
               \E acct \in ResolveMoneyAccount(in.shop, in.method, in.pick) :
                 Entering(d, in, acct, source, al)
    BY <1>5 DEF Enters
  <2>2. PICK acct \in ResolveMoneyAccount(in.shop, in.method, in.pick) :
               Entering(d, in, acct, source, al)
    BY <2>1
  <2>3. Frame(d) /\ Pay(d, docs'[d], acct)
    BY <2>2 DEF Entering, Posts
  <2>4. accounts \subseteq accounts' /\ Notes
    BY <1>4, <2>3
  <2>5. PaysInto(docs'[d]) => /\ docs'[d].acct = acct /\ acct.shop = docs'[d].shop
                              /\ accounts' = accounts \cup {acct}
    BY <2>2, EnteredAccount
  <2>6. ~PaysInto(docs'[d]) => accounts' = accounts
    BY <2>3 DEF Pay
  <2>7. docs'[d].shop \in Shops
    BY <2>3 DEF Frame, Doc
  <2>8. Kept
    BY <2>4, <2>5, <2>6, <2>7
  <2>9. QED
    BY <1>3, <2>3, <2>4, <2>5, <2>8
<1>6. ASSUME NEW d \in Docs, NEW in \in Inputs, Parks(d, in) PROVE Kept /\ Rows /\ Notes
  <2>1. docs'[d].acct = None /\ docs'[d].own = 0
    BY <1>1, <1>6 DEF Parks, NewDoc
  <2>2. UNCHANGED <<accounts, cheques>> /\ Frame(d)
    BY <1>6 DEF Parks, Rests
  <2>3. ~PaysInto(docs'[d])
    BY <2>1 DEF PaysInto
  <2>4. QED
    BY <1>1, <1>3, <2>2, <2>3
<1>7. ASSUME NEW d \in Docs, Deletes(d) \/ Restores(d) PROVE Kept /\ Rows /\ Notes
  <2>1. PICK flag \in BOOLEAN : Flagged(d, flag) /\ Frame(d)
    BY <1>7 DEF Deletes, Restores, Posts, Reverses, Rests
  <2>2. \A e \in Docs : /\ PaysInto(docs'[e]) <=> PaysInto(docs[e])
                        /\ docs'[e].acct = docs[e].acct /\ docs'[e].shop = docs[e].shop
    BY <2>1, FlagKeeps DEF IInv, PaysInto
  <2>3. accounts' = accounts /\ Notes
    <3>1. CASE UNCHANGED <<accounts, accountBalance, cheques>>
      BY <1>1, <3>1
    <3>2. CASE Unpay(d, docs[d])
      <4>1. \A e \in Docs : cheques'[e].account # None => cheques'[e].account = cheques[e].account
        BY <1>1, <3>2 DEF Unpay, NoCheque
      <4>2. QED
        BY <1>1, <3>2, <4>1 DEF Unpay
    <3>3. CASE Pay(d, docs'[d], AccountOfRow(docs'[d]))
      <4>1. AccountOfRow(docs'[d]) \in accounts \cup {None}
        BY DEF AccountOfRow
      <4>2. accounts' = accounts
        BY <3>3, <4>1 DEF Pay
      <4>3. QED
        BY <1>4, <3>3, <4>2
    <3>4. QED
      BY <1>7, <3>1, <3>2, <3>3 DEF Deletes, Restores
  <2>4. QED
    BY <1>1, <2>2, <2>3
<1>8. ASSUME NEW d \in Docs, NEW a \in AccountIds, SettleCheque(d, a)
      PROVE  Kept /\ Rows /\ Notes
  BY <1>1, <1>8 DEF SettleCheque
<1>9. ASSUME NEW d \in Docs, ReopenCheque(d) PROVE  Kept /\ Rows /\ Notes
  BY <1>1, <1>9 DEF ReopenCheque
<1>10. ASSUME UNCHANGED <<docs, accounts, cheques>> PROVE  Kept /\ Rows /\ Notes
  BY <1>1, <1>10
<1>11. QED
  BY <1>5, <1>6, <1>7, <1>8, <1>9, <1>10 DEF Shaped, Idle, MoveMoney

Amounts == [Docs -> [Docs -> Nat]]

(* What the payments L settle of e by the allocations a. *)
SettledOf(a, L, e) == Sum(LAMBDA p : a[p][e], L)

SettledAfter(a, b, L, M, d, e) ==
    SettledOf(a, L, e) - (IF d \in L THEN a[d][e] ELSE 0) + (IF d \in M THEN b[d][e] ELSE 0)

LEMMA SettledSum ==
  ASSUME NEW a \in [Docs -> [Docs -> Nat]], NEW L \in SUBSET Docs, NEW e \in Docs
  PROVE  /\ SettledOf(a, L, e) = SumFunctionOnSet([p \in Docs |-> IF p \in L THEN a[p][e] ELSE 0], Docs)
         /\ SettledOf(a, L, e) \in Nat
<1> DEFINE f == [p \in L |-> a[p][e]]
           g == [p \in Docs |-> IF p \in L THEN a[p][e] ELSE 0]
<1>1. SettledOf(a, L, e) = SumFunctionOnSet(f, L)
  BY DEF SettledOf, Sum
<1>2. /\ \A p \in L : f[p] = g[p] /\ f[p] \in Nat
      /\ \A p \in Docs \ L : g[p] = 0
      /\ \A p \in Docs : g[p] \in Int
  OBVIOUS
<1>3. IsFiniteSet(Docs) /\ IsFiniteSet(L)
  BY FiniteAssumption, FS_Subset
<1> HIDE DEF f, g
<1>4. SumFunctionOnSet(f, L) = SumFunctionOnSet(g, Docs)
  BY <1>2, <1>3, SumExtend
<1>5. SumFunctionOnSet(f, L) \in Nat
  BY <1>2, <1>3, SumNat
<1>6. QED
  BY <1>1, <1>4, <1>5 DEF g

LEMMA SettledMoves ==
  ASSUME NEW a \in Amounts, NEW b \in Amounts,
         NEW L \in SUBSET Docs, NEW M \in SUBSET Docs, NEW d \in Docs, NEW e \in Docs,
         \A p \in Docs \ {d} : a[p][e] = b[p][e] /\ (p \in L <=> p \in M)
  PROVE  SettledOf(b, M, e) = SettledAfter(a, b, L, M, d, e)
<1> DEFINE f == [p \in Docs |-> IF p \in L THEN a[p][e] ELSE 0]
           g == [p \in Docs |-> IF p \in M THEN b[p][e] ELSE 0]
<1>1. /\ SettledOf(a, L, e) = SumFunctionOnSet(f, Docs)
      /\ SettledOf(b, M, e) = SumFunctionOnSet(g, Docs)
  BY SettledSum DEF Amounts
<1>2. \A p \in Docs : f[p] \in Int /\ g[p] \in Int
  BY DEF Amounts
<1>3. \A p \in Docs \ {d} : f[p] = g[p]
  OBVIOUS
<1>4. /\ f[d] = (IF d \in L THEN a[d][e] ELSE 0)
      /\ g[d] = (IF d \in M THEN b[d][e] ELSE 0)
  OBVIOUS
<1>5. IsFiniteSet(Docs)
  BY FiniteAssumption
<1> HIDE DEF f, g
<1>6. SumFunctionOnSet(g, Docs) = SumFunctionOnSet(f, Docs) - f[d] + g[d]
  BY <1>2, <1>3, <1>5, SumUpdate
<1>7. QED
  BY <1>1, <1>4, <1>6 DEF SettledAfter

LEMMA SettledNothing ==
  ASSUME NEW a \in [Docs -> [Docs -> Nat]], NEW L \in SUBSET Docs, NEW e \in Docs,
         \A p \in L : a[p][e] = 0
  PROVE  SettledOf(a, L, e) = 0
<1> DEFINE f == [p \in L |-> a[p][e]]
<1>1. SettledOf(a, L, e) = SumFunctionOnSet(f, L)
  BY DEF SettledOf, Sum
<1>2. IsFiniteSet(L) /\ \A p \in L : f[p] = 0
  BY FiniteAssumption, FS_Subset
<1> HIDE DEF f
<1>3. QED
  BY <1>1, <1>2, SumZero

LEMMA PaidStep ==
  ASSUME BooksInv, BooksInv => CoreInv', Shaped
  PROVE  PaidIsPayments'
<1> DEFINE L == {p \in Docs : Live(p)}
           M == {p \in Docs : Live(p)'}
           Good(e) == /\ docs'[e].paid = SettledOf(alloc', M, e) + docs'[e].own
                      /\ docs'[e].status \in {"OPEN", "PARTIAL", "PAID"} =>
                           docs'[e].status = Settlement(docs'[e].total, docs'[e].paid)
<1>1. /\ docs \in [Docs -> Doc] /\ alloc \in [Docs -> [Docs -> Nat]]
      /\ docs' \in [Docs -> Doc] /\ alloc' \in [Docs -> [Docs -> Nat]]
      /\ L \in SUBSET Docs /\ M \in SUBSET Docs
      /\ \A e \in Docs : /\ docs[e].paid \in Int /\ docs'[e].paid \in Int
                         /\ docs[e].own \in Nat /\ docs'[e].own \in Nat
  BY DEF BooksInv, CoreInv, TypeOK, Doc
<1>2. \A e \in Docs : Exists(e) =>
        /\ docs[e].paid = SettledOf(alloc, L, e) + docs[e].own
        /\ docs[e].status \in {"OPEN", "PARTIAL", "PAID"} =>
             docs[e].status = Settlement(docs[e].total, docs[e].paid)
  BY DEF BooksInv, PaidIsPayments, SettledOf
<1>3. SUFFICES ASSUME NEW e \in Docs, Exists(e)' PROVE Good(e)
  BY DEF PaidIsPayments, SettledOf, Sum
<1>4. \A p, x \in Docs : alloc[p][x] > 0 => Live(x) /\ Posted(docs[x])
  BY DEF BooksInv, CoreInv, SettledInvoicesStay
<1>5. SettledOf(alloc, L, e) \in Nat /\ SettledOf(alloc', M, e) \in Nat
  BY <1>1, SettledSum
<1>6. ASSUME NEW d \in Docs, Frame(d),
             \A p \in Docs \ {d} : alloc'[p] = alloc[p]
      PROVE  SettledOf(alloc', M, e) = SettledAfter(alloc, alloc', L, M, d, e)
  <2>1. \A p \in Docs \ {d} : p \in L <=> p \in M
    BY <1>6 DEF Frame, Same, Live, Exists
  <2>2. \A p \in Docs \ {d} : alloc[p][e] = alloc'[p][e] /\ (p \in L <=> p \in M)
    BY <1>6, <2>1
  <2> HIDE DEF L, M
  <2>3. /\ alloc \in Amounts /\ alloc' \in Amounts
        /\ L \in SUBSET Docs /\ M \in SUBSET Docs
    BY <1>1 DEF Amounts
  <2>4. QED
    BY ONLY <2>2, <2>3, SettledMoves, d \in Docs, e \in Docs
<1> HIDE DEF L, M
<1>7. ASSUME NEW d \in Docs, Enters(d) PROVE Good(e)
  <2>1. PICK in \in Request, source \in Docs \cup {None}, al \in [Docs -> Nat] :
               \E acct \in ResolveMoneyAccount(in.shop, in.method, in.pick) :
                 Entering(d, in, acct, source, al)
    BY <1>7 DEF Enters
  <2>2. PICK acct \in ResolveMoneyAccount(in.shop, in.method, in.pick) :
               Entering(d, in, acct, source, al)
    BY <2>1
  <2>3. /\ Posts(d) /\ Frame(d) /\ docs[d].status \in {"NONE", "HELD"} /\ Handed(in)
        /\ Settles(in, al) /\ alloc' = [alloc EXCEPT ![d] = al]
        /\ Others(d, in, source, al)
    BY <2>2 DEF Entering, Posts
  <2>4. alloc'[d] = al /\ \A p \in Docs \ {d} : alloc'[p] = alloc[p]
    BY <1>1, <2>3
  <2>5. \A x \in Docs : alloc[d][x] = 0
    <3>1. docs[d].status = "HELD" => docs[d].type \notin PaymentTypes
      BY DEF BooksInv, CoreInv, RowsWellFormed, PaymentTypes
    <3>2. \A x \in Docs : ~(alloc[d][x] > 0)
      BY <2>3, <3>1 DEF BooksInv, AllocationsMatch, Exists
    <3>3. QED
      BY <1>1, <3>2
  <2>6. CASE e # d
    <3>1. SettledOf(alloc', M, e) = SettledOf(alloc, L, e) + al[e]
      <4>1. d \in M
        BY <2>3 DEF Posts, M, Live, Exists
      <4>2. SettledOf(alloc', M, e) = SettledAfter(alloc, alloc', L, M, d, e)
        BY <1>6, <2>3, <2>4
      <4>3. QED
        BY <1>1, <1>5, <2>4, <2>5, <4>1, <4>2 DEF SettledAfter
    <3>2. docs'[e].own = docs[e].own /\ docs'[e].total = docs[e].total /\ Exists(e)
      BY <1>3, <2>3, <2>6 DEF Frame, Same, Exists
    <3>3. docs'[e].paid = docs[e].paid + al[e]
      BY <2>3, <2>6 DEF Others
    <3>4. docs'[e].paid = SettledOf(alloc', M, e) + docs'[e].own
      BY <1>1, <1>2, <1>5, <3>1, <3>2, <3>3
    <3>5. \/ docs'[e].status = Settlement(docs'[e].total, docs'[e].paid)
          \/ docs'[e].status = docs[e].status /\ docs'[e].paid = docs[e].paid
          \/ docs'[e].status \in {"REFUNDED", "CONVERTED", "ORDER_CLOSED"}
      BY <1>1, <2>3, <2>6, <3>2 DEF Others
    <3>6. QED
      BY <1>2, <3>2, <3>4, <3>5
  <2>7. CASE e = d
    <3>1. PICK against \in Docs \cup {None} : docs'[d] = NewDoc(in, acct, source, against)
      BY <2>2 DEF Entering
    <3>2. /\ docs'[d].paid = docs'[d].own
          /\ docs'[d].status # "ORDER_OPEN" =>
               docs'[d].status = Settlement(docs'[d].total, docs'[d].paid)
      BY <2>3, <3>1, EnteredRow
    <3>3. \A p \in Docs : alloc'[p][d] = 0
      <4>1. ~(Live(d) /\ Posted(docs[d]))
        BY <2>3 DEF Live, Exists, Posted
      <4>2. \A p \in Docs : ~(alloc[p][d] > 0) /\ ~(al[d] > 0)
        BY <1>4, <2>3, <4>1 DEF Settles
      <4>3. QED
        BY <1>1, <2>4, <4>2
    <3>4. SettledOf(alloc', M, d) = 0
      BY <1>1, <3>3, SettledNothing
    <3>5. QED
      BY <1>1, <2>7, <3>2, <3>4
  <2>8. QED
    BY <2>6, <2>7
<1>8. ASSUME NEW d \in Docs, NEW in \in Inputs, Parks(d, in) PROVE Good(e)
  <2>1. /\ Frame(d) /\ docs[d].status = "NONE" /\ alloc' = alloc /\ in.hold /\ in.own = 0
        /\ docs'[d] = NewDoc(in, None, None, None) /\ in.type = "SALE_INVOICE"
        /\ \A x \in Docs \ {d} : docs'[x] = docs[x]
    BY <1>1, <1>8 DEF Parks, Rests
  <2>2. \A p \in Docs : alloc[p][d] = 0 /\ alloc[d][p] = 0
    <3>1. \A p \in Docs : ~(alloc[p][d] > 0) /\ ~(alloc[d][p] > 0)
      BY <1>4, <2>1 DEF BooksInv, AllocationsMatch, Exists, Live
    <3>2. QED
      BY <1>1, <3>1
  <2>3. CASE e # d
    <3>1. SettledOf(alloc', M, e) = SettledAfter(alloc, alloc', L, M, d, e)
      BY <1>6, <2>1
    <3>2. QED
      BY <1>1, <1>2, <1>3, <1>5, <2>1, <2>2, <2>3, <3>1 DEF Exists, SettledAfter
  <2>4. CASE e = d
    <3>1. /\ docs'[d].own = 0 /\ docs'[d].paid = 0 /\ docs'[d].status = "HELD"
      BY <2>1 DEF NewDoc, PaymentTypes
    <3>2. SettledOf(alloc', M, d) = 0
      BY <1>1, <2>1, <2>2, SettledNothing
    <3>3. QED
      BY <1>1, <2>4, <3>1, <3>2
  <2>5. QED
    BY <2>3, <2>4
<1>9. ASSUME NEW d \in Docs, Deletes(d) \/ Restores(d) PROVE Good(e)
  <2>1. PICK flag \in BOOLEAN : Flagged(d, flag) /\ Frame(d)
    BY <1>9 DEF Deletes, Restores, Posts, Reverses, Rests
  <2>2. /\ Exists(d) /\ docs[d].deleted # flag
        /\ Alike(docs[d], docs'[d]) /\ docs'[d].deleted = flag
        /\ \A p \in Docs : alloc[p][d] = 0
        /\ alloc' = alloc
    BY <2>1 DEF Flagged
  <2>3. /\ docs'[e].own = docs[e].own /\ docs'[e].total = docs[e].total /\ Exists(e)
    BY <1>3, <2>1, FlagKeeps DEF Exists
  <2>4. CASE e # d
    <3>1. (d \in L <=> flag) /\ (d \in M <=> ~flag)
      <4>1. docs[d].deleted \in BOOLEAN /\ docs'[d].deleted = flag /\ docs'[d].status = docs[d].status
        BY <1>1, <2>2 DEF Doc, Alike
      <4>2. QED
        BY <2>2, <4>1 DEF L, M, Live, Exists
    <3>2. SettledOf(alloc', M, e) = SettledAfter(alloc, alloc', L, M, d, e)
      BY <1>6, <2>1, <2>2
    <3>3. docs'[e].paid = docs[e].paid + Signed(alloc[d][e], flag)
      BY <2>1, <2>4 DEF Flagged
    <3>4. docs'[e].paid = SettledOf(alloc', M, e) + docs'[e].own
      <4>1. alloc[d][e] \in Nat
        BY <1>1
      <4>2. SettledOf(alloc', M, e) = SettledOf(alloc, L, e) + Signed(alloc[d][e], flag)
        BY <1>5, <2>2, <3>1, <3>2, <4>1 DEF Signed, SettledAfter
      <4>3. Signed(alloc[d][e], flag) \in Int
        BY <4>1 DEF Signed
      <4>4. QED
        BY <1>1, <1>2, <1>5, <2>3, <3>3, <4>2, <4>3
    <3>5. \/ docs'[e].status = Settlement(docs'[e].total, docs'[e].paid)
          \/ docs'[e].status = docs[e].status /\ docs'[e].paid = docs[e].paid
          \/ docs'[e].status = "ORDER_OPEN"
      <4>1. alloc[d][e] = 0 => docs'[e].paid = docs[e].paid
        BY <1>1, <3>3 DEF Signed
      <4>2. QED
        BY <2>1, <2>3, <2>4, <4>1 DEF Flagged
    <3>6. QED
      BY <1>2, <2>3, <3>4, <3>5
  <2>5. CASE e = d
    <3>1. docs'[d].paid = docs[d].paid /\ docs'[d].status = docs[d].status
      BY <2>2 DEF Alike
    <3>2. SettledOf(alloc', M, d) = 0 /\ SettledOf(alloc, L, d) = 0
      BY <1>1, <2>2, SettledNothing
    <3>3. QED
      BY <1>2, <2>3, <2>5, <3>1, <3>2
  <2>6. QED
    BY <2>4, <2>5
<1>10. ASSUME docs' = docs, alloc' = alloc PROVE Good(e)
  BY <1>2, <1>3, <1>10 DEF L, M, Live, Exists
<1>11. QED
  BY <1>7, <1>8, <1>9, <1>10 DEF Shaped, Idle, SettleCheque, ReopenCheque, MoveMoney

Rows == [Docs -> Doc]

(* The live conversions of order d, and what they have received of it. *)
MadeFrom(rows, d) ==
    {e \in Docs : /\ rows[e].status # "NONE" /\ ~rows[e].deleted
                  /\ rows[e].source = d /\ rows[e].item = rows[d].item}

QtyFrom(rows, d) == Sum(LAMBDA e : rows[e].qty, MadeFrom(rows, d))

QtyWith(a, b, n, d) == QtyFrom(a, d) + (IF n \in MadeFrom(b, d) THEN b[n].qty ELSE 0)

LEMMA QtySum ==
  ASSUME NEW rows \in Rows, NEW d \in Docs
  PROVE  /\ QtyFrom(rows, d) = SumFunctionOnSet(
                                 [e \in Docs |-> IF e \in MadeFrom(rows, d) THEN rows[e].qty ELSE 0], Docs)
         /\ QtyFrom(rows, d) \in Nat
<1> DEFINE L == MadeFrom(rows, d)
           f == [e \in L |-> rows[e].qty]
           g == [e \in Docs |-> IF e \in L THEN rows[e].qty ELSE 0]
<1>1. QtyFrom(rows, d) = SumFunctionOnSet(f, L)
  BY DEF QtyFrom, Sum
<1>2. L \in SUBSET Docs /\ \A e \in Docs : rows[e].qty \in Nat
  BY DEF MadeFrom, Rows, Doc
<1> HIDE DEF L
<1>3. /\ \A e \in L : f[e] = g[e] /\ f[e] \in Nat
      /\ \A e \in Docs \ L : g[e] = 0
      /\ \A e \in Docs : g[e] \in Int
  BY <1>2
<1>4. IsFiniteSet(Docs) /\ IsFiniteSet(L)
  BY <1>2, FiniteAssumption, FS_Subset
<1> HIDE DEF f, g
<1>5. SumFunctionOnSet(f, L) = SumFunctionOnSet(g, Docs)
  BY <1>2, <1>3, <1>4, SumExtend
<1>6. SumFunctionOnSet(f, L) \in Nat
  BY <1>3, <1>4, SumNat
<1>7. QED
  BY <1>1, <1>5, <1>6 DEF g, L

LEMMA QtyMoves ==
  ASSUME NEW a \in Rows, NEW b \in Rows, NEW n \in Docs, NEW d \in Docs,
         \A e \in Docs \ {n} : /\ b[e].qty = a[e].qty
                               /\ e \in MadeFrom(b, d) <=> e \in MadeFrom(a, d),
         n \notin MadeFrom(a, d)
  PROVE  QtyFrom(b, d) = QtyWith(a, b, n, d)
<1> DEFINE f == [e \in Docs |-> IF e \in MadeFrom(a, d) THEN a[e].qty ELSE 0]
           g == [e \in Docs |-> IF e \in MadeFrom(b, d) THEN b[e].qty ELSE 0]
<1>1. /\ QtyFrom(a, d) = SumFunctionOnSet(f, Docs) /\ QtyFrom(a, d) \in Nat
      /\ QtyFrom(b, d) = SumFunctionOnSet(g, Docs)
  BY QtySum
<1>2. \A e \in Docs : a[e].qty \in Nat /\ b[e].qty \in Nat
  BY DEF Rows, Doc
<1>3. \A e \in Docs : f[e] \in Int /\ g[e] \in Int
  BY <1>2
<1>4. \A e \in Docs \ {n} : f[e] = g[e]
  OBVIOUS
<1>5. f[n] = 0 /\ g[n] = (IF n \in MadeFrom(b, d) THEN b[n].qty ELSE 0)
  OBVIOUS
<1>6. IsFiniteSet(Docs)
  BY FiniteAssumption
<1> HIDE DEF f, g
<1>7. SumFunctionOnSet(g, Docs) = SumFunctionOnSet(f, Docs) - f[n] + g[n]
  BY <1>3, <1>4, <1>6, SumUpdate
<1>8. QED
  BY <1>1, <1>3, <1>5, <1>7 DEF QtyWith

(* A step that brings n in never takes from what an order has received.    *)
LEMMA ReceivedGrows ==
  ASSUME BooksInv, NEW n \in Docs, Frame(n), NEW d \in Docs,
         docs'[d].item = docs[d].item, n \notin MadeFrom(docs, d)
  PROVE  /\ Received(d)' = Received(d) + (IF n \in MadeFrom(docs', d) THEN docs'[n].qty ELSE 0)
         /\ Received(d) \in Nat /\ docs'[n].qty \in Nat
<1>1. docs \in Rows /\ docs' \in Rows
  BY DEF BooksInv, CoreInv, TypeOK, Frame, Rows
<1>2. Received(d) = QtyFrom(docs, d)
  BY DEF Received, QtyFrom, MadeFrom, Sum, Live, Exists
<1>3. Received(d)' = QtyFrom(docs', d)
  BY DEF Received, QtyFrom, MadeFrom, Sum, Live, Exists
<1>4. \A e \in Docs \ {n} : /\ docs'[e].qty = docs[e].qty
                            /\ e \in MadeFrom(docs', d) <=> e \in MadeFrom(docs, d)
  BY DEF Frame, Same, MadeFrom
<1>5. QtyFrom(docs', d) = QtyWith(docs, docs', n, d)
  BY <1>1, <1>4, QtyMoves
<1>6. QtyFrom(docs, d) \in Nat
  BY <1>1, QtySum
<1>7. docs'[n].qty \in Nat
  BY <1>1 DEF Rows, Doc
<1>8. QED
  BY <1>2, <1>3, <1>5, <1>6, <1>7 DEF QtyWith

LEMMA OrdersStep ==
  ASSUME BooksInv, BooksInv => CoreInv', Shaped
  PROVE  ClosedOrdersAreReceived'
<1> DEFINE Good(e) == /\ docs'[e].status = "ORDER_CLOSED" => Received(e)' >= docs'[e].qty
                      /\ docs'[e].status = "CONVERTED" =>
                           \E x \in Docs : Live(x)' /\ docs'[x].source = e
<1> SUFFICES ASSUME NEW e \in Docs PROVE Good(e)
  BY DEF ClosedOrdersAreReceived
<1>1. /\ docs \in [Docs -> Doc] /\ docs' \in [Docs -> Doc]
      /\ docs[e].qty \in Nat
  BY DEF BooksInv, CoreInv, TypeOK, Doc
<1>2. /\ docs[e].status = "ORDER_CLOSED" => Received(e) >= docs[e].qty
      /\ docs[e].status = "CONVERTED" => \E x \in Docs : Live(x) /\ docs[x].source = e
  BY DEF BooksInv, ClosedOrdersAreReceived
<1>3. ASSUME NEW n \in Docs, Frame(n), docs'[e].item = docs[e].item,
             docs'[e].qty = docs[e].qty, n \notin MadeFrom(docs, e),
             docs'[e].status = docs[e].status,
             Live(n) /\ docs[n].source = e => Live(n)' /\ docs'[n].source = e
      PROVE  Good(e)
  <2>1. Received(e) \in Nat /\ Received(e)' \in Nat /\ Received(e)' >= Received(e)
    BY <1>3, ReceivedGrows
  <2>2. ASSUME NEW x \in Docs, Live(x), docs[x].source = e
        PROVE  Live(x)' /\ docs'[x].source = e
    BY <1>3, <2>2 DEF Frame, Same, Live, Exists
  <2>3. QED
    BY <1>1, <1>2, <1>3, <2>1, <2>2
<1>4. ASSUME NEW d \in Docs, Enters(d) PROVE Good(e)
  <2>1. PICK in \in Request, source \in Docs \cup {None}, al \in [Docs -> Nat] :
               \E acct \in ResolveMoneyAccount(in.shop, in.method, in.pick) :
                 Entering(d, in, acct, source, al)
    BY <1>4 DEF Enters
  <2>2. PICK acct \in ResolveMoneyAccount(in.shop, in.method, in.pick) :
               Entering(d, in, acct, source, al)
    BY <2>1
  <2>3. /\ Posts(d) /\ Frame(d) /\ docs[d].status \in {"NONE", "HELD"} /\ Handed(in)
        /\ source # None => docs[source].item = in.item
        /\ Others(d, in, source, al)
    BY <2>2 DEF Entering, Posts
  <2>4. PICK against \in Docs \cup {None} : docs'[d] = NewDoc(in, acct, source, against)
    BY <2>2 DEF Entering
  <2>5. /\ docs'[d].status \in {"ORDER_OPEN", "OPEN", "PARTIAL", "PAID"}
        /\ docs'[d].source = source /\ docs'[d].item = in.item /\ docs'[d].qty = in.qty
        /\ ~docs'[d].deleted
    BY <2>3, <2>4, EnteredRow
  <2>6. docs[d].source = None /\ e # None
    BY <2>3, EntersNoOrder, NoneAssumption
  <2>7. d \notin MadeFrom(docs, e)
    BY <2>6 DEF MadeFrom
  <2>8. CASE e = d
    BY <2>5, <2>8
  <2>9. CASE e # d
    <3>1. docs'[e].item = docs[e].item /\ docs'[e].qty = docs[e].qty
      BY <2>3, <2>9 DEF Frame, Same
    <3>2. CASE docs'[e].status = docs[e].status
      BY <1>3, <2>3, <2>6, <2>7, <3>1, <3>2
    <3>3. CASE e = source /\ docs'[e].status = "CONVERTED"
      <4>1. Live(d)' /\ docs'[d].source = e
        BY <2>5, <3>3 DEF Live, Exists
      <4>2. QED
        BY <3>3, <4>1
    <3>4. CASE e = source /\ docs'[e].status = "ORDER_CLOSED"
               /\ Received(e) + in.qty >= docs[e].qty
      <4>1. d \in MadeFrom(docs', e)
        BY <2>3, <2>5, <2>6, <3>1, <3>4 DEF MadeFrom
      <4>2. Received(e)' = Received(e) + in.qty
        BY <2>3, <2>5, <2>7, <3>1, <4>1, ReceivedGrows
      <4>3. QED
        BY <3>1, <3>4, <4>2
    <3>5. CASE docs'[e].status = "REFUNDED" \/ docs'[e].status = Settlement(docs[e].total, docs'[e].paid)
      <4>1. docs'[e].status \notin {"ORDER_CLOSED", "CONVERTED"}
        BY <3>5 DEF Settlement
      <4>2. QED
        BY <4>1
    <3>6. QED
      BY <2>3, <2>9, <3>2, <3>3, <3>4, <3>5 DEF Others
  <2>10. QED
    BY <2>8, <2>9
<1>5. ASSUME NEW d \in Docs, NEW in \in Inputs, Parks(d, in) PROVE Good(e)
  <2>1. /\ Frame(d) /\ docs[d].status = "NONE" /\ in.hold
        /\ docs' = [docs EXCEPT ![d] = NewDoc(in, None, None, None)]
    BY <1>5 DEF Parks, Rests
  <2>2. d \notin MadeFrom(docs, e) /\ ~Live(d)
    BY <2>1 DEF MadeFrom, Live, Exists
  <2>3. CASE e = d
    <3>1. docs'[d].status = "HELD"
      BY <1>1, <2>1 DEF NewDoc
    <3>2. QED
      BY <2>3, <3>1
  <2>4. CASE e # d
    <3>1. docs'[e] = docs[e]
      BY <1>1, <2>1, <2>4
    <3>2. QED
      BY <1>3, <2>1, <2>2, <3>1
  <2>5. QED
    BY <2>3, <2>4
<1>6. ASSUME NEW d \in Docs, Deletes(d) \/ Restores(d) PROVE Good(e)
  <2>1. PICK flag \in BOOLEAN :
          /\ Flagged(d, flag) /\ Frame(d)
          /\ flag => (docs[d].source # None => docs'[docs[d].source].status = "ORDER_OPEN")
    BY <1>6 DEF Deletes, Restores, Posts, Reverses, Rests
  <2>2. /\ docs[d].deleted # flag
        /\ docs[d].deleted \in BOOLEAN /\ docs'[d].status = docs[d].status
        /\ docs'[d].deleted = flag /\ docs'[d].source = docs[d].source
    BY <1>1, <2>1 DEF Flagged, Doc, Alike
  <2>3. docs'[e].item = docs[e].item /\ docs'[e].qty = docs[e].qty
    BY <2>1, FlagKeeps
  <2>4. CASE flag /\ docs[d].source = e
    <3>1. docs'[e].status = "ORDER_OPEN"
      BY <2>1, <2>4, NoneAssumption
    <3>2. QED
      BY <3>1
  <2>5. CASE ~(flag /\ docs[d].source = e)
    <3>1. d \notin MadeFrom(docs, e)
      BY <2>2, <2>5 DEF MadeFrom
    <3>2. Live(d) /\ docs[d].source = e => Live(d)' /\ docs'[d].source = e
      BY <2>2, <2>5 DEF Live, Exists
    <3>3. CASE docs'[e].status = docs[e].status
      BY <1>3, <2>1, <2>3, <3>1, <3>2, <3>3
    <3>4. CASE docs'[e].status = "ORDER_OPEN"
               \/ docs'[e].status = Settlement(docs[e].total, docs'[e].paid)
      <4>1. docs'[e].status \notin {"ORDER_CLOSED", "CONVERTED"}
        BY <3>4 DEF Settlement
      <4>2. QED
        BY <4>1
    <3>5. QED
      BY <2>1, <2>2, <3>3, <3>4 DEF Flagged
  <2>6. QED
    BY <2>4, <2>5
<1>7. ASSUME docs' = docs PROVE Good(e)
  <2>1. Received(e)' = Received(e)
    BY <1>7 DEF Received, Live, Exists, Sum
  <2>2. QED
    BY <1>2, <1>7, <2>1 DEF Live, Exists
<1>8. QED
  BY <1>4, <1>5, <1>6, <1>7 DEF Shaped, Idle, SettleCheque, ReopenCheque, MoveMoney

(***************************************************************************)
(* The whole invariant.                                                    *)
(***************************************************************************)

LEMMA InitBooksInv == Init => BooksInv
<1> SUFFICES ASSUME Init PROVE BooksInv
  OBVIOUS
<1>1. CoreInv
  BY InitInv
<1>2. /\ \A d \in Docs : docs[d].status = "NONE"
      /\ \A d, e \in Docs : ~(alloc[d][e] > 0)
  BY DEF Init, NoAmounts, BlankDoc
<1>3. RowsFollowRequests /\ PaidIsPayments
  BY <1>2 DEF RowsFollowRequests, PaidIsPayments, Exists
<1>4. AllocationsMatch /\ ClosedOrdersAreReceived
  BY <1>2 DEF AllocationsMatch, ClosedOrdersAreReceived
<1>5. QED
  BY <1>1, <1>3, <1>4 DEF BooksInv

LEMMA InitIInv == Init => IInv
<1> SUFFICES ASSUME Init PROVE IInv
  OBVIOUS
<1>1. /\ \A d \in Docs : docs[d] = BlankDoc
      /\ \A d \in Docs : cheques[d].account = None
      /\ accounts = Accounts0
  BY DEF Init, NoCheque
<1>2. \A d \in Docs : ~PaysInto(docs[d])
  BY <1>1 DEF PaysInto, BlankDoc
<1>3. AccountsOfRows
  BY <1>1, <1>2 DEF AccountsOfRows
<1>4. QED
  BY <1>3, InitBooksInv DEF IInv

LEMMA NextBooksInv ==
  ASSUME Slips = {}, BooksInv, [Next]_vars
  PROVE  BooksInv'
<1>1. Shaped
  BY NextShape
<1>2. CoreInv'
  BY NextInv DEF BooksInv
<1>3. QED
  BY <1>1, <1>2, RowsStep, AllocationsStep, PaidStep, OrdersStep DEF BooksInv

LEMMA NextIInv ==
  ASSUME Slips = {}, AccountsOfTheirOwn, PicksOfTheirOwn, IInv, [Next]_vars
  PROVE  IInv'
<1>1. Shaped
  BY NextShape DEF IInv
<1>2. BooksInv'
  BY NextBooksInv DEF IInv
<1>3. QED
  BY <1>1, <1>2, AccountsStep DEF IInv

(* The invariant of the documents needs nothing of the accounts.           *)
THEOREM BooksSafety ==
  ASSUME Slips = {}
  PROVE  Spec => []BooksInv
<1>1. Init => BooksInv
  BY InitBooksInv
<1>2. BooksInv /\ [Next]_vars => BooksInv'
  BY NextBooksInv
<1>3. QED
  BY <1>1, <1>2, PTL DEF Spec

(* The inductive invariant of the engine holds of every state: rows are    *)
(* what createTxn lets through, allocations join payments and bills of one *)
(* party, bills show what was paid of them, closed orders were received,   *)
(* and the account of a payment is there, in the shop of its document, for *)
(* a reversal to find.                                                     *)
THEOREM Safety ==
  ASSUME Slips = {}, AccountsOfTheirOwn, PicksOfTheirOwn
  PROVE  Spec => []IInv
<1>1. Init => IInv
  BY InitIInv
<1>2. IInv /\ [Next]_vars => IInv'
  BY NextIInv
<1>3. QED
  BY <1>1, <1>2, PTL DEF Spec

(* The paid amount of a bill is its own payment and the live allocations,  *)
(* through every payment, deletion and restore, whatever their order       *)
(* (applyAllocations only ever adds to what it read).                      *)
THEOREM PaidAmounts == ASSUME Slips = {} PROVE Spec => []PaidIsPayments
<1>1. BooksInv => PaidIsPayments
  BY DEF BooksInv
<1>2. QED
  BY <1>1, BooksSafety, PTL

(* No order is closed before live documents have received its quantity,    *)
(* and none is converted without a live document made from it              *)
(* (convertTxn, deleteTxn).                                                *)
THEOREM ClosedOrders == ASSUME Slips = {} PROVE Spec => []ClosedOrdersAreReceived
<1>1. BooksInv => ClosedOrdersAreReceived
  BY DEF BooksInv
<1>2. QED
  BY <1>1, BooksSafety, PTL

(***************************************************************************)
(* Money implements Books too: a reversal and a restore find the account   *)
(* that the posting used.                                                  *)
(***************************************************************************)

(* What the payment of t, and its cheque c, have put into account a. *)
MoneyIn(t, c, a) ==
    IF \/ PaysInto(t) /\ t.acct = a
       \/ c.status = "CLOSED" /\ c.account = a
    THEN MoneyEffect(t) ELSE 0

LEMMA MoneyRows ==
  ASSUME CoreInv
  PROVE  /\ MoneyEntries \in [Docs \cup Transfers -> [AccountIds -> Int]]
         /\ \A e \in Docs, a \in AccountIds :
              MoneyEntries[e][a] = IF InForce(e) THEN MoneyIn(docs[e], cheques[e], a) ELSE 0
         /\ \A m \in Transfers, a \in AccountIds :
              MoneyEntries[m][a] = TransferEffect(transfers[m], a)
<1>1. \A e \in Docs : MoneyEffect(docs[e]) \in Int
  BY EffectTypes DEF CoreInv, TypeOK
<1>2. \A e \in Docs, a \in AccountIds :
        DocMoney(e, a) = IF InForce(e) THEN MoneyIn(docs[e], cheques[e], a) ELSE 0
  BY DEF DocMoney, MoneyIn
<1>3. \A e \in Docs, a \in AccountIds : DocMoney(e, a) \in Int
  BY <1>1 DEF DocMoney
<1>4. \A m \in Transfers, a \in AccountIds : TransferEffect(transfers[m], a) \in Int
  BY TransferEffectType DEF CoreInv, TypeOK
<1>5. QED
  BY <1>2, <1>3, <1>4, TransfersAssumption DEF MoneyEntries

LEMMA MoneyRowsNext ==
  ASSUME CoreInv'
  PROVE  /\ MoneyEntries' \in [Docs \cup Transfers -> [AccountIds -> Int]]
         /\ \A e \in Docs, a \in AccountIds :
              MoneyEntries'[e][a] = IF InForce(e)' THEN MoneyIn(docs'[e], cheques'[e], a) ELSE 0
         /\ \A m \in Transfers, a \in AccountIds :
              MoneyEntries'[m][a] = TransferEffect(transfers'[m], a)
<1>1. \A e \in Docs : MoneyEffect(docs'[e]) \in Int
  BY EffectTypes DEF CoreInv, TypeOK
<1>2. \A e \in Docs, a \in AccountIds :
        DocMoney(e, a)' = IF InForce(e)' THEN MoneyIn(docs'[e], cheques'[e], a) ELSE 0
  BY DEF DocMoney, MoneyIn
<1>3. \A e \in Docs, a \in AccountIds : DocMoney(e, a)' \in Int
  BY <1>1 DEF DocMoney
<1>4. \A m \in Transfers, a \in AccountIds : TransferEffect(transfers'[m], a) \in Int
  BY TransferEffectType DEF CoreInv, TypeOK
<1>5. QED
  BY <1>2, <1>3, <1>4, TransfersAssumption DEF MoneyEntries

(* A move of the money book: the entry of d changes, and the balances by   *)
(* as much.                                                                *)
LEMMA MoneyMoves ==
  ASSUME CoreInv, CoreInv', NEW d \in Docs, Frame(d),
         \A e \in Docs \ {d} : cheques'[e] = cheques[e],
         accountBalance' = [a \in AccountIds |->
            accountBalance[a]
            - (IF InForce(d) THEN MoneyIn(docs[d], cheques[d], a) ELSE 0)
            + (IF InForce(d)' THEN MoneyIn(docs'[d], cheques'[d], a) ELSE 0)]
  PROVE  MoneyBook!Next
<1>1. /\ MoneyEntries \in [Docs \cup Transfers -> [AccountIds -> Int]]
      /\ MoneyEntries' \in [Docs \cup Transfers -> [AccountIds -> Int]]
      /\ \A e \in Docs, a \in AccountIds :
           /\ MoneyEntries[e][a] = IF InForce(e) THEN MoneyIn(docs[e], cheques[e], a) ELSE 0
           /\ MoneyEntries'[e][a] = IF InForce(e)' THEN MoneyIn(docs'[e], cheques'[e], a) ELSE 0
      /\ \A m \in Transfers, a \in AccountIds : MoneyEntries'[m][a] = MoneyEntries[m][a]
  BY MoneyRows, MoneyRowsNext DEF Frame
<1>2. \A e \in (Docs \cup Transfers) \ {d} : MoneyEntries'[e] = MoneyEntries[e]
  <2> SUFFICES ASSUME NEW e \in (Docs \cup Transfers) \ {d}
               PROVE  \A a \in AccountIds : MoneyEntries'[e][a] = MoneyEntries[e][a]
    BY <1>1
  <2>1. CASE e \in Docs
    <3>1. Same(docs[e], docs'[e]) /\ (InForce(e)' <=> InForce(e)) /\ cheques'[e] = cheques[e]
      BY <2>1, FrameForce
    <3>2. \A a \in AccountIds : MoneyIn(docs'[e], cheques'[e], a) = MoneyIn(docs[e], cheques[e], a)
      BY <3>1 DEF Same, MoneyIn, MoneyEffect, PaysInto
    <3>3. QED
      BY <1>1, <2>1, <3>1, <3>2
  <2>2. QED
    BY <1>1, <2>1
<1>3. MoneyEntries' = [MoneyEntries EXCEPT ![d] = MoneyEntries'[d]]
  BY <1>1, <1>2
<1>4. MoneyEntries'[d] \in [AccountIds -> Int]
  BY <1>1
<1>5. /\ accountBalance' \in [AccountIds -> Int]
      /\ \A a \in AccountIds :
           accountBalance'[a] = accountBalance[a] - MoneyEntries[d][a] + MoneyEntries'[d][a]
  BY <1>1 DEF CoreInv, TypeOK
<1> HIDE DEF MoneyEntries
<1>6. MoneyBook!Move(d)
  BY <1>3, <1>4, <1>5 DEF MoneyBook!Move
<1>7. QED
  BY <1>6 DEF MoneyBook!Next

(* A document that comes into force pays into the account of its row.      *)
LEMMA MoneyPosted ==
  ASSUME CoreInv, CoreInv', NEW d \in Docs, Posts(d), NEW acct, Pay(d, docs'[d], acct),
         PaysInto(docs'[d]) => docs'[d].acct = acct
  PROVE  MoneyBook!Next
<1>1. Frame(d) /\ ~InForce(d) /\ InForce(d)'
  BY Flips
<1>2. /\ accountBalance \in [AccountIds -> Int] /\ cheques \in [Docs -> Cheque]
      /\ MoneyEffect(docs'[d]) \in Int
  BY EffectTypes DEF CoreInv, TypeOK
<1>3. /\ \A e \in Docs \ {d} : cheques'[e] = cheques[e]
      /\ cheques'[d].status # "CLOSED"
  <2>1. cheques[d].status = "NONE"
    BY <1>1 DEF CoreInv, ChequesFollowDocs
  <2>2. QED
    BY <1>2, <2>1 DEF Pay
<1>4. \A a \in AccountIds :
        accountBalance'[a] = accountBalance[a] + MoneyIn(docs'[d], cheques'[d], a)
  BY <1>2, <1>3 DEF Pay, Moved, MoneyIn, Signed
<1>5. accountBalance' \in [AccountIds -> Int]
  BY DEF CoreInv, TypeOK
<1>6. \A a \in AccountIds : MoneyIn(docs'[d], cheques'[d], a) \in Int
  BY <1>2 DEF MoneyIn
<1>7. accountBalance' = [a \in AccountIds |->
            accountBalance[a]
            - (IF InForce(d) THEN MoneyIn(docs[d], cheques[d], a) ELSE 0)
            + (IF InForce(d)' THEN MoneyIn(docs'[d], cheques'[d], a) ELSE 0)]
  BY <1>1, <1>2, <1>4, <1>5, <1>6
<1>8. QED
  BY <1>1, <1>3, <1>7, MoneyMoves

(* A document that goes out of force takes back what it paid.              *)
LEMMA MoneyReversed ==
  ASSUME CoreInv, CoreInv', NEW d \in Docs, Reverses(d), Unpay(d, docs[d]),
         PaysInto(docs[d]) => docs[d].acct \in accounts /\ docs[d].acct.shop = docs[d].shop
  PROVE  MoneyBook!Next
<1>1. Frame(d) /\ InForce(d) /\ ~(InForce(d)')
  BY Flips
<1>2. /\ accountBalance \in [AccountIds -> Int] /\ cheques \in [Docs -> Cheque]
      /\ MoneyEffect(docs[d]) \in Int /\ accounts \subseteq AccountIds
      /\ accountBalance' \in [AccountIds -> Int]
  BY EffectTypes DEF CoreInv, TypeOK
<1>3. \A e \in Docs \ {d} : cheques'[e] = cheques[e]
  BY <1>2 DEF Unpay
<1>4. /\ cheques[d].status # "NONE" <=> PaysByCheque(docs[d])
      /\ cheques[d].status = "CLOSED" <=> cheques[d].account # None
  BY <1>1 DEF CoreInv, ChequesFollowDocs
<1>5. ~(PaysInto(docs[d]) /\ PaysByCheque(docs[d]))
  BY KindsAssumption DEF PaysInto, PaysByCheque
<1>6. \A a \in AccountIds :
        accountBalance'[a] = accountBalance[a] - MoneyIn(docs[d], cheques[d], a)
  <2>1. CASE cheques[d].status = "CLOSED"
    <3>1. PaysByCheque(docs[d]) /\ cheques[d].account \in AccountIds
      BY <1>2, <1>4, <2>1 DEF Cheque
    <3>2. accountBalance' = [accountBalance EXCEPT ![cheques[d].account] = @ - MoneyEffect(docs[d])]
      BY <2>1, <3>1 DEF Unpay
    <3>3. QED
      BY <1>2, <1>5, <2>1, <3>1, <3>2 DEF MoneyIn
  <2>2. CASE cheques[d].status # "CLOSED"
    <3>1. accountBalance' = Moved(docs[d], AccountOfRow(docs[d]), TRUE)
      BY <2>2 DEF Unpay
    <3>2. PaysInto(docs[d]) => AccountOfRow(docs[d]) = docs[d].acct
      BY <1>2, NoneAssumption DEF AccountOfRow
    <3>3. QED
      BY <1>2, <2>2, <3>1, <3>2 DEF Moved, MoneyIn, Signed
  <2>3. QED
    BY <2>1, <2>2
<1>7. \A a \in AccountIds : MoneyIn(docs[d], cheques[d], a) \in Int
  BY <1>2 DEF MoneyIn
<1>8. accountBalance' = [a \in AccountIds |->
            accountBalance[a]
            - (IF InForce(d) THEN MoneyIn(docs[d], cheques[d], a) ELSE 0)
            + (IF InForce(d)' THEN MoneyIn(docs'[d], cheques'[d], a) ELSE 0)]
  BY <1>1, <1>2, <1>6, <1>7
<1>9. QED
  BY <1>1, <1>3, <1>8, MoneyMoves

LEMMA MoneyRests ==
  ASSUME CoreInv, CoreInv', NEW d \in Docs, Rests(d),
         UNCHANGED <<accounts, accountBalance, cheques>>
  PROVE  MoneyBook!Next
<1>1. Frame(d) /\ ~InForce(d) /\ ~(InForce(d)')
  BY Flips
<1>2. accountBalance \in [AccountIds -> Int]
  BY DEF CoreInv, TypeOK
<1>3. accountBalance' = [a \in AccountIds |->
            accountBalance[a]
            - (IF InForce(d) THEN MoneyIn(docs[d], cheques[d], a) ELSE 0)
            + (IF InForce(d)' THEN MoneyIn(docs'[d], cheques'[d], a) ELSE 0)]
  BY <1>1, <1>2
<1>4. QED
  BY <1>1, <1>3, MoneyMoves

(* A cheque is deposited, or taken back. *)
LEMMA MoneyCheques ==
  ASSUME CoreInv, CoreInv', NEW d \in Docs,
         ReopenCheque(d) \/ \E a \in AccountIds : SettleCheque(d, a)
  PROVE  MoneyBook!Next
<1>1. /\ accountBalance \in [AccountIds -> Int] /\ cheques \in [Docs -> Cheque]
      /\ MoneyEffect(docs[d]) \in Int /\ docs \in [Docs -> Doc]
  BY EffectTypes DEF CoreInv, TypeOK
<1>2. docs' = docs /\ Frame(d) /\ (InForce(d)' <=> InForce(d))
  BY <1>1, SameRefl DEF ReopenCheque, SettleCheque, Frame, InForce, Live, Exists
<1>3. /\ cheques[d].status # "NONE" <=> InForce(d) /\ PaysByCheque(docs[d])
      /\ cheques[d].status = "CLOSED" <=> cheques[d].account # None
  BY DEF CoreInv, ChequesFollowDocs
<1>4. ~(PaysInto(docs[d]) /\ PaysByCheque(docs[d]))
  BY KindsAssumption DEF PaysInto, PaysByCheque
<1>5. ASSUME InForce(d),
             \A a \in AccountIds :
               accountBalance'[a] = accountBalance[a] - MoneyIn(docs[d], cheques[d], a)
                                                      + MoneyIn(docs'[d], cheques'[d], a),
             \A e \in Docs \ {d} : cheques'[e] = cheques[e]
      PROVE  MoneyBook!Next
  <2>1. accountBalance' \in [AccountIds -> Int]
    BY DEF CoreInv, TypeOK
  <2>2. accountBalance' = [a \in AccountIds |->
            accountBalance[a]
            - (IF InForce(d) THEN MoneyIn(docs[d], cheques[d], a) ELSE 0)
            + (IF InForce(d)' THEN MoneyIn(docs'[d], cheques'[d], a) ELSE 0)]
    BY <1>2, <1>5, <2>1
  <2>3. QED
    BY <1>2, <1>5, <2>2, MoneyMoves
<1>6. ASSUME NEW a \in AccountIds, SettleCheque(d, a) PROVE MoneyBook!Next
  <2>1. /\ InForce(d) /\ ~PaysInto(docs[d]) /\ cheques[d].status = "OPEN"
        /\ cheques' = [cheques EXCEPT ![d] = [status |-> "CLOSED", account |-> a]]
        /\ accountBalance' = [accountBalance EXCEPT ![a] = @ + MoneyEffect(docs[d])]
    BY <1>3, <1>4, <1>6 DEF SettleCheque
  <2>2. /\ cheques'[d].status = "CLOSED" /\ cheques'[d].account = a
        /\ \A e \in Docs \ {d} : cheques'[e] = cheques[e]
    BY <1>1, <2>1
  <2>3. \A b \in AccountIds :
          accountBalance'[b] = accountBalance[b] - MoneyIn(docs[d], cheques[d], b)
                                                 + MoneyIn(docs'[d], cheques'[d], b)
    BY <1>1, <1>2, <2>1, <2>2 DEF MoneyIn
  <2>4. QED
    BY <1>5, <2>1, <2>2, <2>3
<1>7. ASSUME ReopenCheque(d) PROVE MoneyBook!Next
  <2>1. /\ InForce(d) /\ ~PaysInto(docs[d]) /\ cheques[d].status = "CLOSED"
        /\ cheques[d].account \in AccountIds
        /\ cheques' = [cheques EXCEPT ![d] = [status |-> "OPEN", account |-> None]]
        /\ accountBalance' = [accountBalance EXCEPT ![cheques[d].account] = @ - MoneyEffect(docs[d])]
    BY <1>1, <1>3, <1>4, <1>7 DEF ReopenCheque, Cheque
  <2>2. /\ cheques'[d].status = "OPEN"
        /\ \A e \in Docs \ {d} : cheques'[e] = cheques[e]
    BY <1>1, <2>1
  <2>3. \A b \in AccountIds :
          accountBalance'[b] = accountBalance[b] - MoneyIn(docs[d], cheques[d], b)
                                                 + MoneyIn(docs'[d], cheques'[d], b)
    BY <1>1, <1>2, <2>1, <2>2 DEF MoneyIn
  <2>4. QED
    BY <1>5, <2>1, <2>2, <2>3
<1>8. QED
  BY <1>6, <1>7

(* A transfer or a loan moves the accounts it names. *)
LEMMA MoneyMoved ==
  ASSUME CoreInv, CoreInv', NEW id \in Transfers, NEW m \in Moves, MoveMoney(id, m)
  PROVE  MoneyBook!Next
<1>1. /\ UNCHANGED <<docs, cheques>> /\ transfers[id] = NoTransfer
      /\ transfers' = [transfers EXCEPT ![id] = m]
      /\ accountBalance' = [a \in AccountIds |-> accountBalance[a] + TransferEffect(m, a)]
  BY DEF MoveMoney
<1>2. /\ transfers \in [Transfers -> Moves \cup {NoTransfer}]
      /\ accountBalance \in [AccountIds -> Int] /\ accountBalance' \in [AccountIds -> Int]
  BY DEF CoreInv, TypeOK
<1>3. \A e \in Docs : InForce(e)' <=> InForce(e)
  BY <1>1 DEF InForce, Live, Exists, Posted
<1>4. \A a \in AccountIds :
        TransferEffect(transfers[id], a) = 0 /\ TransferEffect(m, a) \in Int
  <2>1. \A a \in AccountIds : TransferEffect(m, a) \in Int
    BY TransferEffectType
  <2> QED
    BY <1>1, <2>1 DEF NoTransfer, TransferEffect
<1>5. /\ MoneyEntries \in [Docs \cup Transfers -> [AccountIds -> Int]]
      /\ MoneyEntries' \in [Docs \cup Transfers -> [AccountIds -> Int]]
      /\ \A e \in (Docs \cup Transfers) \ {id}, a \in AccountIds :
           MoneyEntries'[e][a] = MoneyEntries[e][a]
      /\ \A a \in AccountIds : /\ MoneyEntries[id][a] = TransferEffect(transfers[id], a)
                                /\ MoneyEntries'[id][a] = TransferEffect(m, a)
  BY <1>1, <1>2, <1>3, MoneyRows, MoneyRowsNext
<1>6. MoneyEntries' = [MoneyEntries EXCEPT ![id] = MoneyEntries'[id]]
  <2>1. \A e \in (Docs \cup Transfers) \ {id} : MoneyEntries'[e] = MoneyEntries[e]
    BY <1>5
  <2>2. QED
    BY <1>5, <2>1
<1>7. /\ MoneyEntries'[id] \in [AccountIds -> Int]
      /\ \A a \in AccountIds :
           accountBalance'[a] = accountBalance[a] - MoneyEntries[id][a] + MoneyEntries'[id][a]
  BY <1>1, <1>2, <1>4, <1>5
<1> HIDE DEF MoneyEntries
<1>8. MoneyBook!Move(id)
  BY <1>2, <1>6, <1>7 DEF MoneyBook!Move
<1>9. QED
  BY <1>8 DEF MoneyBook!Next

LEMMA MoneyStep ==
  ASSUME AccountsOfTheirOwn, PicksOfTheirOwn, IInv, CoreInv', Shaped
  PROVE  [MoneyBook!Next]_(MoneyBook!vars)
<1>1. /\ CoreInv /\ accounts \subseteq AccountIds
      /\ \A e \in Docs : PaysInto(docs[e]) => docs[e].acct \in accounts
                                              /\ docs[e].acct.shop = docs[e].shop
  BY DEF IInv, BooksInv, CoreInv, TypeOK, AccountsOfRows
<1>2. ASSUME NEW d \in Docs, Enters(d) PROVE MoneyBook!Next
  <2>1. PICK in \in Request, source \in Docs \cup {None}, al \in [Docs -> Nat] :
               \E acct \in ResolveMoneyAccount(in.shop, in.method, in.pick) :
                 Entering(d, in, acct, source, al)
    BY <1>2 DEF Enters
  <2>2. PICK acct \in ResolveMoneyAccount(in.shop, in.method, in.pick) :
               Entering(d, in, acct, source, al)
    BY <2>1
  <2>3. Posts(d) /\ Pay(d, docs'[d], acct)
    BY <2>2 DEF Entering
  <2>4. PaysInto(docs'[d]) => docs'[d].acct = acct
    BY <2>2, EnteredAccount
  <2>5. QED
    BY <1>1, <2>3, <2>4, MoneyPosted
<1>3. ASSUME NEW d \in Docs, NEW in \in Inputs, Parks(d, in) PROVE MoneyBook!Next
  BY <1>1, <1>3, MoneyRests DEF Parks
<1>4. ASSUME NEW d \in Docs, Deletes(d) PROVE MoneyBook!Next
  BY <1>1, <1>4, MoneyReversed, MoneyRests DEF Deletes
<1>5. ASSUME NEW d \in Docs, Restores(d) PROVE MoneyBook!Next
  <2>1. CASE Rests(d) /\ UNCHANGED <<accounts, accountBalance, cheques>>
    BY <1>1, <2>1, MoneyRests
  <2>2. CASE Posts(d) /\ Pay(d, docs'[d], AccountOfRow(docs'[d]))
    <3>1. Flagged(d, FALSE) /\ Frame(d)
      BY <1>5, <2>2 DEF Restores, Posts
    <3>2. /\ docs'[d].acct = docs[d].acct /\ docs'[d].shop = docs[d].shop
          /\ PaysInto(docs'[d]) <=> PaysInto(docs[d])
      BY <3>1, FlagKeeps DEF IInv, PaysInto
    <3>3. PaysInto(docs'[d]) => docs'[d].acct = AccountOfRow(docs'[d])
      BY <1>1, <3>2, NoneAssumption DEF AccountOfRow
    <3>4. QED
      BY <1>1, <2>2, <3>3, MoneyPosted
  <2>3. QED
    BY <1>5, <2>1, <2>2 DEF Restores
<1>6. ASSUME NEW d \in Docs, ReopenCheque(d) \/ \E a \in AccountIds : SettleCheque(d, a)
      PROVE  MoneyBook!Next
  BY <1>1, <1>6, MoneyCheques
<1>7. ASSUME Idle PROVE UNCHANGED MoneyBook!vars
  BY <1>7 DEF Idle, MoneyBook!vars, MoneyEntries, DocMoney, InForce, Live, Exists, Posted,
              PaysInto, MoneyEffect
<1>8. ASSUME NEW id \in Transfers, NEW m \in Moves, MoveMoney(id, m) PROVE MoneyBook!Next
  BY <1>1, <1>8, MoneyMoved
<1>9. QED
  BY <1>2, <1>3, <1>4, <1>5, <1>6, <1>7, <1>8 DEF Shaped

(* Money accounts follow the documents in force, the transfers and the     *)
(* loans: every posting, reversal, restore and cheque moves an account by  *)
(* what one document has in it, a transfer or a loan by its amount, and a  *)
(* reversal takes it from the account the posting used (applyPayments,     *)
(* resolveMoneyAccount, createTransfer, createLoan).                       *)
THEOREM MoneyImplementsBooks ==
  ASSUME Slips = {}, AccountsOfTheirOwn, PicksOfTheirOwn
  PROVE  Spec => MoneyFollowsDocs
<1>1. Init => MoneyBook!Init
  BY NothingInForce
  DEF Init, MoneyBook!Init, MoneyEntries, DocMoney, NoTransfer, TransferEffect
<1>2. IInv /\ [Next]_vars => [MoneyBook!Next]_(MoneyBook!vars)
  BY NextShape, NextIInv, MoneyStep DEF IInv, BooksInv
<1>3. QED
  BY <1>1, <1>2, Safety, PTL DEF Spec, MoneyFollowsDocs, MoneyBook!Spec

(***************************************************************************)
(* What follows from Books: a total is its opening value and the entries.  *)
(***************************************************************************)

Entries(D, K) == [D -> [K -> Int]]

Balances(K) == [K -> Int]

(* The entries e of D give the totals t of K from the opening totals o. *)
ColumnOf(D, e, k) == [d \in D |-> e[d][k]]

Agree(D, K, o, t, e) ==
    \A k \in K : t[k] = o[k] + SumFunctionOnSet(ColumnOf(D, e, k), D)

(* One entry changes, and the totals of M with it. *)
Follows(D, M, t, e, u, g) ==
    \E d \in D : /\ \A x \in D \ {d} : g[x] = e[x]
                 /\ \A k \in M : u[k] = t[k] - e[d][k] + g[d][k]

LEMMA AgreeAtFirst ==
  ASSUME NEW D, IsFiniteSet(D), NEW K, NEW o \in Balances(K),
         NEW e, e = [d \in D |-> [k \in K |-> 0]]
  PROVE  Agree(D, K, o, o, e)
<1> SUFFICES ASSUME NEW k \in K
             PROVE  o[k] = o[k] + SumFunctionOnSet(ColumnOf(D, e, k), D)
  BY DEF Agree
<1> DEFINE f == ColumnOf(D, e, k)
<1>1. \A d \in D : f[d] = 0
  BY DEF ColumnOf
<1> HIDE DEF f
<1>2. SumFunctionOnSet(f, D) = 0
  BY <1>1, SumZero
<1>3. o[k] \in Int
  BY DEF Balances
<1>4. QED
  BY <1>2, <1>3 DEF f

(* The totals that are kept by a step of the book agree after it. *)
LEMMA AgreeAgain ==
  ASSUME NEW D, IsFiniteSet(D), NEW K, NEW L \in SUBSET K, NEW M \in SUBSET L,
         NEW o \in Balances(K), NEW t \in Balances(K), NEW u,
         NEW e \in Entries(D, K), NEW g \in Entries(D, K),
         Agree(D, L, o, t, e), Follows(D, M, t, e, u, g)
  PROVE  Agree(D, M, o, u, g)
<1> SUFFICES ASSUME NEW k \in M
             PROVE  u[k] = o[k] + SumFunctionOnSet(ColumnOf(D, g, k), D)
  BY DEF Agree
<1> PICK d \in D : /\ \A x \in D \ {d} : g[x] = e[x]
                   /\ \A x \in M : u[x] = t[x] - e[d][x] + g[d][x]
  BY DEF Follows
<1> DEFINE f == ColumnOf(D, e, k)
           h == ColumnOf(D, g, k)
<1>1. \A x \in D : f[x] \in Int /\ h[x] \in Int
  BY DEF Entries, ColumnOf
<1>2. \A x \in D \ {d} : f[x] = h[x]
  BY DEF Entries, ColumnOf
<1>3. f[d] = e[d][k] /\ h[d] = g[d][k] /\ o[k] \in Int /\ t[k] \in Int
  BY DEF Balances, ColumnOf
<1>4. t[k] = o[k] + SumFunctionOnSet(f, D)
  BY DEF Agree
<1> HIDE DEF f, h
<1>5. SumFunctionOnSet(h, D) = SumFunctionOnSet(f, D) - f[d] + h[d]
  BY <1>1, <1>2, SumUpdate
<1>6. SumFunctionOnSet(f, D) \in Int
  BY <1>1, SumInt
<1>7. u[k] = o[k] + SumFunctionOnSet(h, D)
  BY <1>1, <1>3, <1>4, <1>5, <1>6
<1>8. QED
  BY <1>7 DEF h

(* The totals of the four books, told from the documents in force; those   *)
(* of an item until a deletion miscounts it.                               *)
StockAddsUp == Agree(Docs, Items \ miscounted, Stock0, currentStock, StockEntries)
LevelsAddUp == Agree(Docs, Shops \X (Items \ miscounted), Level0, stockLevel, LevelEntries)
PartiesAddUp == Agree(Docs, Parties, [p \in Parties |-> 0], partyBalance, PartyEntries)
MoneyAddsUp == Agree(Docs \cup Transfers, AccountIds, Opening0, accountBalance, MoneyEntries)

LEMMA OpeningTypes ==
  /\ Stock0 \in Balances(Items)
  /\ Level0 \in Balances(Shops \X Items)
  /\ [p \in Parties |-> 0] \in Balances(Parties)
  /\ Opening0 \in Balances(AccountIds)
BY ItemsAssumption, AccountsAssumption DEF Balances, Level0

LEMMA FiniteBooks == IsFiniteSet(Docs) /\ IsFiniteSet(Docs \cup Transfers)
BY FiniteAssumption, FS_Union

LEMMA EntryTypes ==
  ASSUME CoreInv
  PROVE  /\ StockEntries \in Entries(Docs, Items) /\ currentStock \in Balances(Items)
         /\ LevelEntries \in Entries(Docs, Shops \X Items)
         /\ stockLevel \in Balances(Shops \X Items)
         /\ PartyEntries \in Entries(Docs, Parties) /\ partyBalance \in Balances(Parties)
         /\ MoneyEntries \in Entries(Docs \cup Transfers, AccountIds)
         /\ accountBalance \in Balances(AccountIds)
<1>1. /\ docs \in [Docs -> Doc] /\ currentStock \in [Items -> Int]
      /\ stockLevel \in [Shops \X Items -> Int] /\ partyBalance \in [Parties -> Int]
      /\ accountBalance \in [AccountIds -> Int]
  BY DEF CoreInv, TypeOK
<1>2. ASSUME NEW e \in Docs
      PROVE  /\ \A i \in Items : StockMove(docs[e], i) \in Int
             /\ \A k \in Shops \X Items : LevelEffect(docs[e], k) \in Int
             /\ \A p \in Parties : PartyEffect(docs[e], p) \in Int
  BY <1>1, EffectTypes
<1>3. StockEntries \in Entries(Docs, Items)
  BY <1>2 DEF StockEntries, Entries
<1>4. LevelEntries \in Entries(Docs, Shops \X Items)
  BY <1>2 DEF LevelEntries, Entries
<1>5. PartyEntries \in Entries(Docs, Parties)
  BY <1>2 DEF PartyEntries, Entries
<1>6. MoneyEntries \in Entries(Docs \cup Transfers, AccountIds)
  BY MoneyRows DEF Entries
<1>7. QED
  BY <1>1, <1>3, <1>4, <1>5, <1>6 DEF Balances

LEMMA StockStepAddsUp ==
  ASSUME CoreInv, StockAddsUp, [StockBook!Next]_(StockBook!vars)
  PROVE  StockAddsUp'
<1>1. /\ StockEntries \in Entries(Docs, Items)
      /\ currentStock \in Balances(Items) /\ Stock0 \in Balances(Items)
  BY EntryTypes, OpeningTypes
<1>2. ASSUME NEW d \in Docs, StockBook!Move(d)
      PROVE  StockAddsUp'
  <2>1. /\ StockEntries' = [StockEntries EXCEPT ![d] = StockEntries'[d]]
        /\ StockEntries'[d] \in [Items -> Int]
        /\ Items \ miscounted' \subseteq Items \ miscounted
        /\ \A k \in Items \ miscounted' :
             currentStock'[k] = currentStock[k] - StockEntries[d][k] + StockEntries'[d][k]
    BY <1>2 DEF StockBook!Move
  <2> HIDE DEF StockEntries
  <2>2. StockEntries' \in Entries(Docs, Items)
    BY <1>1, <2>1 DEF Entries
  <2>3. Items \ miscounted \in SUBSET (Items) /\ Items \ miscounted' \in SUBSET (Items \ miscounted)
    BY <2>1
  <2>4. Agree(Docs, Items \ miscounted, Stock0, currentStock, StockEntries)
    BY DEF StockAddsUp
  <2>5. Follows(Docs, Items \ miscounted', currentStock, StockEntries, currentStock', StockEntries')
    BY <1>1, <2>1 DEF Follows, Entries
  <2>6. Agree(Docs, Items \ miscounted', Stock0, currentStock', StockEntries')
    BY <1>1, <2>2, <2>3, <2>4, <2>5, FiniteBooks, AgreeAgain
  <2> QED
    BY <2>6 DEF StockAddsUp
<1>3. ASSUME UNCHANGED StockBook!vars PROVE StockAddsUp'
  <2>1. StockEntries' = StockEntries /\ currentStock' = currentStock
        /\ Items \ miscounted' = Items \ miscounted
    BY <1>3 DEF StockBook!vars
  <2>2. QED
    BY <2>1 DEF StockAddsUp
<1>4. QED
  BY <1>2, <1>3 DEF StockBook!Next

LEMMA LevelStepAddsUp ==
  ASSUME CoreInv, LevelsAddUp, [LevelBook!Next]_(LevelBook!vars)
  PROVE  LevelsAddUp'
<1>1. /\ LevelEntries \in Entries(Docs, Shops \X Items)
      /\ stockLevel \in Balances(Shops \X Items) /\ Level0 \in Balances(Shops \X Items)
  BY EntryTypes, OpeningTypes
<1>2. ASSUME NEW d \in Docs, LevelBook!Move(d)
      PROVE  LevelsAddUp'
  <2>1. /\ LevelEntries' = [LevelEntries EXCEPT ![d] = LevelEntries'[d]]
        /\ LevelEntries'[d] \in [Shops \X Items -> Int]
        /\ Shops \X (Items \ miscounted') \subseteq Shops \X (Items \ miscounted)
        /\ \A k \in Shops \X (Items \ miscounted') :
             stockLevel'[k] = stockLevel[k] - LevelEntries[d][k] + LevelEntries'[d][k]
    BY <1>2 DEF LevelBook!Move
  <2> HIDE DEF LevelEntries
  <2>2. LevelEntries' \in Entries(Docs, Shops \X Items)
    BY <1>1, <2>1 DEF Entries
  <2>3. Shops \X (Items \ miscounted) \in SUBSET (Shops \X Items) /\ Shops \X (Items \ miscounted') \in SUBSET (Shops \X (Items \ miscounted))
    BY <2>1
  <2>4. Agree(Docs, Shops \X (Items \ miscounted), Level0, stockLevel, LevelEntries)
    BY DEF LevelsAddUp
  <2>5. Follows(Docs, Shops \X (Items \ miscounted'), stockLevel, LevelEntries, stockLevel', LevelEntries')
    BY <1>1, <2>1 DEF Follows, Entries
  <2>6. Agree(Docs, Shops \X (Items \ miscounted'), Level0, stockLevel', LevelEntries')
    BY <1>1, <2>2, <2>3, <2>4, <2>5, FiniteBooks, AgreeAgain
  <2> QED
    BY <2>6 DEF LevelsAddUp
<1>3. ASSUME UNCHANGED LevelBook!vars PROVE LevelsAddUp'
  <2>1. LevelEntries' = LevelEntries /\ stockLevel' = stockLevel
        /\ Shops \X (Items \ miscounted') = Shops \X (Items \ miscounted)
    BY <1>3 DEF LevelBook!vars
  <2>2. QED
    BY <2>1 DEF LevelsAddUp
<1>4. QED
  BY <1>2, <1>3 DEF LevelBook!Next

LEMMA PartyStepAddsUp ==
  ASSUME CoreInv, PartiesAddUp, [PartyBook!Next]_(PartyBook!vars)
  PROVE  PartiesAddUp'
<1>1. /\ PartyEntries \in Entries(Docs, Parties)
      /\ partyBalance \in Balances(Parties) /\ [p \in Parties |-> 0] \in Balances(Parties)
  BY EntryTypes, OpeningTypes
<1>2. ASSUME NEW d \in Docs, PartyBook!Move(d)
      PROVE  PartiesAddUp'
  <2>1. /\ PartyEntries' = [PartyEntries EXCEPT ![d] = PartyEntries'[d]]
        /\ PartyEntries'[d] \in [Parties -> Int]
        /\ \A k \in Parties :
             partyBalance'[k] = partyBalance[k] - PartyEntries[d][k] + PartyEntries'[d][k]
    BY <1>2 DEF PartyBook!Move
  <2> HIDE DEF PartyEntries
  <2>2. PartyEntries' \in Entries(Docs, Parties)
    BY <1>1, <2>1 DEF Entries
  <2>3. Agree(Docs, Parties, [p \in Parties |-> 0], partyBalance, PartyEntries)
    BY DEF PartiesAddUp
  <2>4. Follows(Docs, Parties, partyBalance, PartyEntries, partyBalance', PartyEntries')
    BY <1>1, <2>1 DEF Follows, Entries
  <2>5. Agree(Docs, Parties, [p \in Parties |-> 0], partyBalance', PartyEntries')
    BY <1>1, <2>2, <2>3, <2>4, FiniteBooks, AgreeAgain
  <2> QED
    BY <2>5 DEF PartiesAddUp
<1>3. ASSUME UNCHANGED PartyBook!vars PROVE PartiesAddUp'
  <2>1. PartyEntries' = PartyEntries /\ partyBalance' = partyBalance
    BY <1>3 DEF PartyBook!vars
  <2>2. QED
    BY <2>1 DEF PartiesAddUp
<1>4. QED
  BY <1>2, <1>3 DEF PartyBook!Next

LEMMA MoneyStepAddsUp ==
  ASSUME CoreInv, MoneyAddsUp, [MoneyBook!Next]_(MoneyBook!vars)
  PROVE  MoneyAddsUp'
<1>1. /\ MoneyEntries \in Entries(Docs \cup Transfers, AccountIds)
      /\ accountBalance \in Balances(AccountIds) /\ Opening0 \in Balances(AccountIds)
  BY EntryTypes, OpeningTypes
<1>2. ASSUME NEW d \in Docs \cup Transfers, MoneyBook!Move(d)
      PROVE  MoneyAddsUp'
  <2>1. /\ MoneyEntries' = [MoneyEntries EXCEPT ![d] = MoneyEntries'[d]]
        /\ MoneyEntries'[d] \in [AccountIds -> Int]
        /\ \A k \in AccountIds :
             accountBalance'[k] = accountBalance[k] - MoneyEntries[d][k] + MoneyEntries'[d][k]
    BY <1>2 DEF MoneyBook!Move
  <2> HIDE DEF MoneyEntries
  <2>2. MoneyEntries' \in Entries(Docs \cup Transfers, AccountIds)
    BY <1>1, <2>1 DEF Entries
  <2>3. Agree(Docs \cup Transfers, AccountIds, Opening0, accountBalance, MoneyEntries)
    BY DEF MoneyAddsUp
  <2>4. Follows(Docs \cup Transfers, AccountIds, accountBalance, MoneyEntries, accountBalance', MoneyEntries')
    BY <1>1, <2>1 DEF Follows, Entries
  <2>5. Agree(Docs \cup Transfers, AccountIds, Opening0, accountBalance', MoneyEntries')
    BY <1>1, <2>2, <2>3, <2>4, FiniteBooks, AgreeAgain
  <2> QED
    BY <2>5 DEF MoneyAddsUp
<1>3. ASSUME UNCHANGED MoneyBook!vars PROVE MoneyAddsUp'
  <2>1. MoneyEntries' = MoneyEntries /\ accountBalance' = accountBalance
    BY <1>3 DEF MoneyBook!vars
  <2>2. QED
    BY <2>1 DEF MoneyAddsUp
<1>4. QED
  BY <1>2, <1>3 DEF MoneyBook!Next

LEMMA InitAddsUp ==
  ASSUME Init
  PROVE  StockAddsUp /\ LevelsAddUp /\ PartiesAddUp /\ MoneyAddsUp
<1>1. \A d \in Docs : ~InForce(d)
  BY NothingInForce
<1>2. /\ StockEntries = [d \in Docs |-> [k \in Items |-> 0]] /\ currentStock = Stock0
      /\ LevelEntries = [d \in Docs |-> [k \in Shops \X Items |-> 0]] /\ stockLevel = Level0
      /\ PartyEntries = [d \in Docs |-> [k \in Parties |-> 0]]
      /\ partyBalance = [p \in Parties |-> 0]
      /\ MoneyEntries = [d \in Docs \cup Transfers |-> [k \in AccountIds |-> 0]]
      /\ accountBalance = Opening0 /\ miscounted = {}
  BY <1>1 DEF Init, StockEntries, LevelEntries, PartyEntries, MoneyEntries, DocMoney, NoTransfer,
              TransferEffect
<1>3. Items \ miscounted = Items /\ Shops \X (Items \ miscounted) = Shops \X Items
  BY <1>2
<1>4. StockAddsUp
  BY <1>2, <1>3, OpeningTypes, FiniteBooks, AgreeAtFirst DEF StockAddsUp
<1>5. LevelsAddUp
  BY <1>2, <1>3, OpeningTypes, FiniteBooks, AgreeAtFirst DEF LevelsAddUp
<1>6. PartiesAddUp
  BY <1>2, OpeningTypes, FiniteBooks, AgreeAtFirst DEF PartiesAddUp
<1>7. MoneyAddsUp
  BY <1>2, OpeningTypes, FiniteBooks, AgreeAtFirst DEF MoneyAddsUp
<1>8. QED
  BY <1>4, <1>5, <1>6, <1>7

(* Stock, the stock levels of the shops and the balances of the parties    *)
(* can be told at any time from the documents in force and the opening     *)
(* totals: what was held, deleted, restored or resumed on the way leaves   *)
(* no trace ("Each transaction atomically updates stock, party balance"),  *)
(* but in the stock of an item of which a deletion reversed another        *)
(* quantity than was posted, after an edit of the item (applyStock).       *)
THEOREM TotalsAddUp ==
  ASSUME Slips = {}
  PROVE  Spec => [](StockAddsUp /\ LevelsAddUp /\ PartiesAddUp)
<1>1. Init => StockAddsUp /\ LevelsAddUp /\ PartiesAddUp
  BY InitAddsUp
<1>2. ASSUME CoreInv, StockAddsUp, LevelsAddUp, PartiesAddUp, [Next]_vars
      PROVE  StockAddsUp' /\ LevelsAddUp' /\ PartiesAddUp'
  <2>1. CoreInv' /\ BookStep
    BY <1>2, NextInv
  <2>2. /\ [StockBook!Next]_(StockBook!vars)
        /\ [LevelBook!Next]_(LevelBook!vars)
        /\ [PartyBook!Next]_(PartyBook!vars)
    BY <1>2, <2>1, StockStep, LevelStep, PartyStep
  <2>3. QED
    BY <1>2, <2>2, StockStepAddsUp, LevelStepAddsUp, PartyStepAddsUp
<1>3. CoreInv /\ (StockAddsUp /\ LevelsAddUp /\ PartiesAddUp) /\ [Next]_vars
        => (StockAddsUp /\ LevelsAddUp /\ PartiesAddUp)'
  BY <1>2
<1>4. QED
  BY <1>1, <1>3, CoreSafety, PTL DEF Spec

(* The same of the money accounts. *)
THEOREM BalancesAddUp ==
  ASSUME Slips = {}, AccountsOfTheirOwn, PicksOfTheirOwn
  PROVE  Spec => []MoneyAddsUp
<1>1. Init => MoneyAddsUp
  BY InitAddsUp
<1>2. IInv /\ MoneyAddsUp /\ [Next]_vars => MoneyAddsUp'
  <2> SUFFICES ASSUME IInv, MoneyAddsUp, [Next]_vars PROVE MoneyAddsUp'
    OBVIOUS
  <2>1. CoreInv /\ CoreInv' /\ Shaped
    BY NextShape, NextIInv DEF IInv, BooksInv
  <2>2. [MoneyBook!Next]_(MoneyBook!vars)
    BY <2>1, MoneyStep
  <2>3. QED
    BY <2>1, <2>2, MoneyStepAddsUp
<1>3. QED
  BY <1>1, <1>2, Safety, PTL DEF Spec
-----------------------------------------------------------------------------
(***************************************************************************)
(* The reports.                                                            *)
(***************************************************************************)

(***************************************************************************)
(* Columns.                                                                *)
(***************************************************************************)

Columns == [Docs -> Int]

Tot(f) == SumFunctionOnSet(f, Docs)

(* The values v of the documents of R. *)
Only(v, R) == [d \in Docs |-> IF d \in R THEN v[d] ELSE 0]

Plus(f, g) == [d \in Docs |-> f[d] + g[d]]

Minus(f, g) == [d \in Docs |-> f[d] - g[d]]

LEMMA OnlyColumn ==
  ASSUME NEW v, NEW R \in SUBSET Docs, \A d \in R : v[d] \in Int
  PROVE  Only(v, R) \in Columns
BY DEF Only, Columns

LEMMA SumOnly ==
  ASSUME NEW v, NEW R \in SUBSET Docs, \A d \in R : v[d] \in Int,
         NEW f, \A d \in R : f[d] = v[d]
  PROVE  SumFunctionOnSet(f, R) = Tot(Only(v, R))
<1> DEFINE g == Only(v, R)
<1>1. /\ \A d \in R : f[d] = g[d]
      /\ \A d \in Docs \ R : g[d] = 0
      /\ \A d \in Docs : g[d] \in Int
  BY DEF Only
<1>2. IsFiniteSet(Docs)
  BY FiniteAssumption
<1> HIDE DEF g
<1>3. SumFunctionOnSet(f, R) = SumFunctionOnSet(g, Docs)
  BY <1>1, <1>2, SumExtend
<1> QED
  BY <1>3 DEF g, Tot

LEMMA TotInt ==
  ASSUME NEW f \in Columns
  PROVE  Tot(f) \in Int
BY FiniteAssumption, SumInt DEF Tot, Columns

LEMMA TotPlus ==
  ASSUME NEW f \in Columns, NEW g \in Columns
  PROVE  /\ Plus(f, g) \in Columns
         /\ Tot(Plus(f, g)) = Tot(f) + Tot(g)
<1> DEFINE h == Plus(f, g)
<1>1. h \in Columns
  BY DEF Columns, Plus
<1>2. \A x \in Docs : f[x] \in Int /\ g[x] \in Int /\ h[x] = f[x] + g[x]
  BY DEF Columns, Plus
<1>3. IsFiniteSet(Docs)
  BY FiniteAssumption
<1> HIDE DEF h
<1>4. SumFunctionOnSet(h, Docs) = SumFunctionOnSet(f, Docs) + SumFunctionOnSet(g, Docs)
  BY <1>2, <1>3, SumPlus
<1> QED
  BY <1>1, <1>4 DEF h, Tot

LEMMA TotMinus ==
  ASSUME NEW f \in Columns, NEW g \in Columns
  PROVE  /\ Minus(f, g) \in Columns
         /\ Tot(Minus(f, g)) = Tot(f) - Tot(g)
<1> DEFINE h == Minus(f, g)
<1>1. h \in Columns
  BY DEF Columns, Minus
<1>2. \A x \in Docs : f[x] \in Int /\ g[x] \in Int /\ h[x] = f[x] - g[x]
  BY DEF Columns, Minus
<1>3. IsFiniteSet(Docs)
  BY FiniteAssumption
<1> HIDE DEF h
<1>4. SumFunctionOnSet(h, Docs) = SumFunctionOnSet(f, Docs) - SumFunctionOnSet(g, Docs)
  BY <1>2, <1>3, SumMinus
<1> QED
  BY <1>1, <1>4 DEF h, Tot

LEMMA SameColumn ==
  ASSUME NEW f \in Columns, NEW g \in Columns, \A d \in Docs : f[d] = g[d]
  PROVE  Tot(f) = Tot(g)
BY FiniteAssumption, SumCongruent DEF Tot

(* Documents are divided among owners. *)
LEMMA ByOwner ==
  ASSUME NEW v, NEW R \in SUBSET Docs, \A d \in R : v[d] \in Int,
         NEW S, IsFiniteSet(S), NEW owner, \A d \in R : owner[d] \in S,
         NEW part, \A s \in S : part[s] = Tot(Only(v, OfOwner(owner, R, s)))
  PROVE  SumFunctionOnSet(part, S) = Tot(Only(v, R))
<1>1. IsFiniteSet(R)
  BY FiniteAssumption, FS_Subset
<1>2. ASSUME NEW s \in S
      PROVE  part[s] = SumFunctionOnSet(v, OfOwner(owner, R, s))
  <2> DEFINE Q == OfOwner(owner, R, s)
  <2>1. Q \in SUBSET Docs /\ \A d \in Q : v[d] \in Int
    BY DEF OfOwner
  <2>2. part[s] = Tot(Only(v, Q))
    OBVIOUS
  <2> HIDE DEF Q
  <2>3. part[s] = SumFunctionOnSet(v, Q)
    BY <2>1, <2>2, SumOnly
  <2> QED
    BY <2>3 DEF Q
<1>3. SumFunctionOnSet(v, R) = SumFunctionOnSet(part, S)
  BY <1>1, <1>2, SumByOwner
<1>4. SumFunctionOnSet(v, R) = Tot(Only(v, R))
  BY SumOnly
<1> QED
  BY <1>3, <1>4

-----------------------------------------------------------------------------
(* The columns the reports are made of.                                    *)

Totals == [d \in Docs |-> Total(d)]
Paids == [d \in Docs |-> Paid(d)]
Dues == [d \in Docs |-> Due(d)]
Flows == [d \in Docs |-> Flow(d)]
Grosses == [d \in Docs |-> LineTotal(d)]
Taxes == [d \in Docs |-> LineTax(d)]
Costs == [d \in Docs |-> LineCost(d)]
Profit(d) == Sign(d) * (Total(d) - LineTax(d)) - Sign(d) * LineCost(d)
LineProfit(d) == Sign(d) * (LineTotal(d) - LineTax(d)) - Sign(d) * LineCost(d)
Off(d) == Sign(d) * (LineTotal(d) - Total(d))
TaxDue(d) == Sign(d) * LineTax(d)
Taxable(d) == Sign(d) * (Total(d) - LineTax(d))
LineTaxable(d) == Sign(d) * (LineTotal(d) - LineTax(d))

LEMMA RowTypes ==
  ASSUME TypeOK, NEW d \in Docs
  PROVE  /\ Total(d) \in Nat /\ Paid(d) \in Int /\ Due(d) \in Int /\ Flow(d) \in Int
         /\ Sign(d) \in {1, -1}
         /\ docs[d].qty \in Nat /\ docs[d].own \in Nat
<1>1. docs[d] \in Doc
  BY DEF TypeOK
<1> QED
  BY <1>1 DEF Doc, Total, Paid, Due, Flow, MoneyEffect, Sign

(* A line names an item. *)
LEMMA LineRowTypes ==
  ASSUME TypeOK, RowsWellFormed, NEW d \in Docs, Live(d), docs[d].type \in LineTypes
  PROVE  /\ docs[d].item \in Items
         /\ LineTotal(d) \in Nat /\ LineTax(d) \in Nat /\ LineCost(d) \in Nat
<1>1. docs[d] \in Doc
  BY DEF TypeOK
<1>2. docs[d].item \in Items /\ docs[d].qty \in Nat
  BY <1>1 DEF Doc, RowsWellFormed, Live
<1>3. /\ Price[docs[d].item] \in Nat /\ UnitTax[docs[d].item] \in Nat
      /\ UnitCost[docs[d].item] \in Nat
  BY <1>2, ItemsAssumption, UnitsAssumption
<1> QED
  BY <1>2, <1>3 DEF LineTotal, LineTax, LineCost

LEMMA SumRows ==
  ASSUME TypeOK, NEW R \in SUBSET Docs
  PROVE  /\ Sum(Total, R) = Tot(Only(Totals, R)) /\ Only(Totals, R) \in Columns
         /\ Sum(Paid, R) = Tot(Only(Paids, R)) /\ Only(Paids, R) \in Columns
         /\ Sum(Due, R) = Tot(Only(Dues, R)) /\ Only(Dues, R) \in Columns
         /\ Sum(Flow, R) = Tot(Only(Flows, R)) /\ Only(Flows, R) \in Columns
<1>1. \A d \in R : /\ Totals[d] \in Int /\ Paids[d] \in Int
                   /\ Dues[d] \in Int /\ Flows[d] \in Int
  BY RowTypes DEF Totals, Paids, Dues, Flows
<1>2. Sum(Total, R) = Tot(Only(Totals, R))
  <2> DEFINE f == [d \in R |-> Total(d)]
  <2>1. \A d \in R : f[d] = Totals[d]
    BY DEF Totals
  <2> HIDE DEF f
  <2>2. SumFunctionOnSet(f, R) = Tot(Only(Totals, R))
    BY <1>1, <2>1, SumOnly
  <2> QED
    BY <2>2 DEF f, Sum
<1>3. Sum(Paid, R) = Tot(Only(Paids, R))
  <2> DEFINE f == [d \in R |-> Paid(d)]
  <2>1. \A d \in R : f[d] = Paids[d]
    BY DEF Paids
  <2> HIDE DEF f
  <2>2. SumFunctionOnSet(f, R) = Tot(Only(Paids, R))
    BY <1>1, <2>1, SumOnly
  <2> QED
    BY <2>2 DEF f, Sum
<1>4. Sum(Due, R) = Tot(Only(Dues, R))
  <2> DEFINE f == [d \in R |-> Due(d)]
  <2>1. \A d \in R : f[d] = Dues[d]
    BY DEF Dues
  <2> HIDE DEF f
  <2>2. SumFunctionOnSet(f, R) = Tot(Only(Dues, R))
    BY <1>1, <2>1, SumOnly
  <2> QED
    BY <2>2 DEF f, Sum
<1>5. Sum(Flow, R) = Tot(Only(Flows, R))
  <2> DEFINE f == [d \in R |-> Flow(d)]
  <2>1. \A d \in R : f[d] = Flows[d]
    BY DEF Flows
  <2> HIDE DEF f
  <2>2. SumFunctionOnSet(f, R) = Tot(Only(Flows, R))
    BY <1>1, <2>1, SumOnly
  <2> QED
    BY <2>2 DEF f, Sum
<1> QED
  BY <1>1, <1>2, <1>3, <1>4, <1>5, OnlyColumn

Profited == [d \in Docs |-> Profit(d)]
LineProfited == [d \in Docs |-> LineProfit(d)]
Offs == [d \in Docs |-> Off(d)]
TaxesDue == [d \in Docs |-> TaxDue(d)]
Taxables == [d \in Docs |-> Taxable(d)]
LineTaxables == [d \in Docs |-> LineTaxable(d)]


LEMMA SumLines ==
  ASSUME TypeOK, RowsWellFormed, NEW R \in SUBSET Docs,
         \A d \in R : Live(d) /\ docs[d].type \in LineTypes
  PROVE  /\ Sum(LineTotal, R) = Tot(Only(Grosses, R)) /\ Only(Grosses, R) \in Columns
         /\ Sum(LineTax, R) = Tot(Only(Taxes, R)) /\ Only(Taxes, R) \in Columns
         /\ Sum(LineCost, R) = Tot(Only(Costs, R)) /\ Only(Costs, R) \in Columns
         /\ Sum(Profit, R) = Tot(Only(Profited, R)) /\ Only(Profited, R) \in Columns
         /\ Sum(LineProfit, R) = Tot(Only(LineProfited, R)) /\ Only(LineProfited, R) \in Columns
         /\ Sum(Off, R) = Tot(Only(Offs, R)) /\ Only(Offs, R) \in Columns
         /\ Sum(TaxDue, R) = Tot(Only(TaxesDue, R)) /\ Only(TaxesDue, R) \in Columns
         /\ Sum(Taxable, R) = Tot(Only(Taxables, R)) /\ Only(Taxables, R) \in Columns
         /\ Sum(LineTaxable, R) = Tot(Only(LineTaxables, R)) /\ Only(LineTaxables, R) \in Columns
<1>1. ASSUME NEW d \in R
      PROVE  /\ Grosses[d] \in Int
             /\ Taxes[d] \in Int
             /\ Costs[d] \in Int
             /\ Profited[d] \in Int
             /\ LineProfited[d] \in Int
             /\ Offs[d] \in Int
             /\ TaxesDue[d] \in Int
             /\ Taxables[d] \in Int
             /\ LineTaxables[d] \in Int
  <2>1. /\ Total(d) \in Int /\ Sign(d) \in {1, -1}
        /\ LineTotal(d) \in Int /\ LineTax(d) \in Int /\ LineCost(d) \in Int
    BY RowTypes, LineRowTypes
  <2>2. \A x \in Int : Sign(d) * x \in Int
    BY <2>1
  <2> QED
    BY <2>1, <2>2 DEF Grosses, Taxes, Costs, Profited, LineProfited, Offs, TaxesDue, Taxables,
                      LineTaxables, Profit, LineProfit, Off, TaxDue, Taxable, LineTaxable
<1>2. Sum(LineTotal, R) = Tot(Only(Grosses, R))
  <2> DEFINE f == [d \in R |-> LineTotal(d)]
  <2>1. \A d \in R : f[d] = Grosses[d]
    BY DEF Grosses
  <2> HIDE DEF f
  <2>2. SumFunctionOnSet(f, R) = Tot(Only(Grosses, R))
    BY <1>1, <2>1, SumOnly
  <2> QED
    BY <2>2 DEF f, Sum
<1>3. Sum(LineTax, R) = Tot(Only(Taxes, R))
  <2> DEFINE f == [d \in R |-> LineTax(d)]
  <2>1. \A d \in R : f[d] = Taxes[d]
    BY DEF Taxes
  <2> HIDE DEF f
  <2>2. SumFunctionOnSet(f, R) = Tot(Only(Taxes, R))
    BY <1>1, <2>1, SumOnly
  <2> QED
    BY <2>2 DEF f, Sum
<1>4. Sum(LineCost, R) = Tot(Only(Costs, R))
  <2> DEFINE f == [d \in R |-> LineCost(d)]
  <2>1. \A d \in R : f[d] = Costs[d]
    BY DEF Costs
  <2> HIDE DEF f
  <2>2. SumFunctionOnSet(f, R) = Tot(Only(Costs, R))
    BY <1>1, <2>1, SumOnly
  <2> QED
    BY <2>2 DEF f, Sum
<1>5. Sum(Profit, R) = Tot(Only(Profited, R))
  <2> DEFINE f == [d \in R |-> Profit(d)]
  <2>1. \A d \in R : f[d] = Profited[d]
    BY DEF Profited
  <2> HIDE DEF f
  <2>2. SumFunctionOnSet(f, R) = Tot(Only(Profited, R))
    BY <1>1, <2>1, SumOnly
  <2> QED
    BY <2>2 DEF f, Sum
<1>6. Sum(LineProfit, R) = Tot(Only(LineProfited, R))
  <2> DEFINE f == [d \in R |-> LineProfit(d)]
  <2>1. \A d \in R : f[d] = LineProfited[d]
    BY DEF LineProfited
  <2> HIDE DEF f
  <2>2. SumFunctionOnSet(f, R) = Tot(Only(LineProfited, R))
    BY <1>1, <2>1, SumOnly
  <2> QED
    BY <2>2 DEF f, Sum
<1>7. Sum(Off, R) = Tot(Only(Offs, R))
  <2> DEFINE f == [d \in R |-> Off(d)]
  <2>1. \A d \in R : f[d] = Offs[d]
    BY DEF Offs
  <2> HIDE DEF f
  <2>2. SumFunctionOnSet(f, R) = Tot(Only(Offs, R))
    BY <1>1, <2>1, SumOnly
  <2> QED
    BY <2>2 DEF f, Sum
<1>8. Sum(TaxDue, R) = Tot(Only(TaxesDue, R))
  <2> DEFINE f == [d \in R |-> TaxDue(d)]
  <2>1. \A d \in R : f[d] = TaxesDue[d]
    BY DEF TaxesDue
  <2> HIDE DEF f
  <2>2. SumFunctionOnSet(f, R) = Tot(Only(TaxesDue, R))
    BY <1>1, <2>1, SumOnly
  <2> QED
    BY <2>2 DEF f, Sum
<1>9. Sum(Taxable, R) = Tot(Only(Taxables, R))
  <2> DEFINE f == [d \in R |-> Taxable(d)]
  <2>1. \A d \in R : f[d] = Taxables[d]
    BY DEF Taxables
  <2> HIDE DEF f
  <2>2. SumFunctionOnSet(f, R) = Tot(Only(Taxables, R))
    BY <1>1, <2>1, SumOnly
  <2> QED
    BY <2>2 DEF f, Sum
<1>10. Sum(LineTaxable, R) = Tot(Only(LineTaxables, R))
  <2> DEFINE f == [d \in R |-> LineTaxable(d)]
  <2>1. \A d \in R : f[d] = LineTaxables[d]
    BY DEF LineTaxables
  <2> HIDE DEF f
  <2>2. SumFunctionOnSet(f, R) = Tot(Only(LineTaxables, R))
    BY <1>1, <2>1, SumOnly
  <2> QED
    BY <2>2 DEF f, Sum
<1> QED
  BY <1>1, <1>2, <1>3, <1>4, <1>5, <1>6, <1>7, <1>8, <1>9, <1>10, OnlyColumn

-----------------------------------------------------------------------------
(* Documents by party and by item.                                         *)

PartyOf == [d \in Docs |-> docs[d].party]

ItemOf == [d \in Docs |-> docs[d].item]

LEMMA Owners ==
  ASSUME NEW R \in SUBSET Docs, NEW x
  PROVE  /\ {d \in R : docs[d].party = x} = OfOwner(PartyOf, R, x)
         /\ {d \in R : docs[d].item = x} = OfOwner(ItemOf, R, x)
         /\ OfOwner(PartyOf, R, x) \in SUBSET R
         /\ OfOwner(ItemOf, R, x) \in SUBSET R
BY DEF PartyOf, ItemOf, OfOwner

LEMMA ByParty ==
  ASSUME TypeOK, NEW v, NEW R \in SUBSET Docs, \A d \in R : v[d] \in Int, NEW part,
         \A p \in Parties \cup {None} : part[p] = Tot(Only(v, OfOwner(PartyOf, R, p)))
  PROVE  SumFunctionOnSet(part, Parties \cup {None}) = Tot(Only(v, R))
<1> DEFINE S == Parties \cup {None}
<1>1. IsFiniteSet(S)
  BY FiniteAssumption, FS_AddElement
<1>2. \A d \in R : PartyOf[d] \in S
  BY DEF TypeOK, Doc, PartyOf
<1>3. \A p \in S : part[p] = Tot(Only(v, OfOwner(PartyOf, R, p)))
  OBVIOUS
<1> HIDE DEF S
<1>4. SumFunctionOnSet(part, S) = Tot(Only(v, R))
  BY <1>1, <1>2, <1>3, ByOwner
<1> QED
  BY <1>4 DEF S

LEMMA ByItem ==
  ASSUME NEW v, NEW R \in SUBSET Docs, \A d \in R : v[d] \in Int /\ docs[d].item \in Items,
         NEW part, \A i \in Items : part[i] = Tot(Only(v, OfOwner(ItemOf, R, i)))
  PROVE  SumFunctionOnSet(part, Items) = Tot(Only(v, R))
<1>1. IsFiniteSet(Items)
  BY FiniteAssumption
<1>2. \A d \in R : ItemOf[d] \in Items
  BY DEF ItemOf
<1> QED
  BY <1>1, <1>2, ByOwner

(* The documents of a report. *)
LEMMA CountedTxns ==
  ASSUME TypeOK, RowsWellFormed, NEW types \in SUBSET LineTypes, NEW shop
  PROVE  /\ TxnWhere(types, shop) \in SUBSET Docs
         /\ \A d \in TxnWhere(types, shop) : /\ Live(d) /\ docs[d].type \in types
                                             /\ docs[d].type \in LineTypes
                                             /\ docs[d].item \in Items
BY LineRowTypes DEF TxnWhere

LEMMA SalesAreLines ==
  /\ Sales \in SUBSET LineTypes /\ Purchases \in SUBSET LineTypes
  /\ {"SALE_INVOICE"} \in SUBSET LineTypes /\ {"CREDIT_NOTE"} \in SUBSET LineTypes
  /\ {"PURCHASE_BILL"} \in SUBSET LineTypes /\ {"DEBIT_NOTE"} \in SUBSET LineTypes
BY DEF Sales, Purchases, LineTypes

(* The four lists of the sales of a shop are one. *)
LEMMA OneSale ==
  ASSUME NEW shop
  PROVE  /\ SaleReport(shop).totalSale = ListTxns({"SALE_INVOICE"}, shop).totalAmount
         /\ SaleReport(shop).totalSale = DashboardSales(shop).monthSale
         /\ SaleReport(shop).totalSale = DailyLocal(shop).salesRevenue
         /\ SaleReport(shop).totalSale = ProfitAndLoss(shop).grossSales
         /\ shop = Wide =>
              SaleReport(shop).totalSale = Sum(Total, ExportTxns({"SALE_INVOICE"}))
         /\ SaleReport(shop).totalSale = Sum(Total, TxnWhere({"SALE_INVOICE"}, shop))
<1> DEFINE S == TxnWhere({"SALE_INVOICE"}, shop)
<1>1. SaleReport(shop).totalSale = Sum(Total, S)
  BY DEF SaleReport
<1>2. ListTxns({"SALE_INVOICE"}, shop).totalAmount = Sum(Total, S)
  <2> DEFINE data == {d \in Docs : Live(d) /\ docs[d].type \in {"SALE_INVOICE"} /\ Seen(d, shop)}
             counted == {d \in data : docs[d].status # "HELD"}
  <2>1. counted = S
    BY DEF TxnWhere
  <2>2. ListTxns({"SALE_INVOICE"}, shop).totalAmount = Sum(Total, counted)
    BY DEF ListTxns
  <2> HIDE DEF counted, S
  <2> QED
    BY <2>1, <2>2
<1>3. DashboardSales(shop).monthSale = Sum(Total, S)
  BY DEF DashboardSales
<1>4. DailyLocal(shop).salesRevenue = Sum(Total, S)
  BY DEF DailyLocal
<1>5. ProfitAndLoss(shop).grossSales = Sum(Total, S)
  BY DEF ProfitAndLoss, Profits
<1>6. shop = Wide => Sum(Total, ExportTxns({"SALE_INVOICE"})) = Sum(Total, S)
  <2> SUFFICES ASSUME shop = Wide
               PROVE  Sum(Total, ExportTxns({"SALE_INVOICE"})) = Sum(Total, S)
    OBVIOUS
  <2>1. ExportTxns({"SALE_INVOICE"}) = S
    BY DEF ExportTxns, TxnWhere, Seen
  <2> HIDE DEF S
  <2> QED
    BY <2>1
<1> HIDE DEF S
<1>7. QED
  BY <1>1, <1>2, <1>3, <1>4, <1>5, <1>6 DEF S

(* The sales of the parties, and those without a party, are the sales. *)
LEMMA SalesByParty ==
  ASSUME TypeOK, RowsWellFormed, NEW shop
  PROVE  /\ Sum(LAMBDA p : SalePurchaseByParty(shop, p).sale, Parties \cup {None})
              = Sum(Total, TxnWhere({"SALE_INVOICE"}, shop))
         /\ Sum(LAMBDA p : PartyWiseProfit(shop, p), Parties \cup {None})
              = Sum(Profit, TxnWhere(Sales, shop))
<1>1. Sum(LAMBDA p : SalePurchaseByParty(shop, p).sale, Parties \cup {None})
        = Sum(Total, TxnWhere({"SALE_INVOICE"}, shop))
  <2> DEFINE R == TxnWhere({"SALE_INVOICE"}, shop)
             part == [p \in Parties \cup {None} |-> SalePurchaseByParty(shop, p).sale]
  <2>1. R \in SUBSET Docs
    BY CountedTxns, SalesAreLines
  <2>2. ASSUME NEW p \in Parties \cup {None}
        PROVE  part[p] = Tot(Only(Totals, OfOwner(PartyOf, R, p)))
    <3>1. part[p] = Sum(Total, {d \in R : docs[d].party = p})
      BY DEF SalePurchaseByParty
    <3> HIDE DEF R, part
    <3>2. {d \in R : docs[d].party = p} = OfOwner(PartyOf, R, p)
          /\ OfOwner(PartyOf, R, p) \in SUBSET Docs
      BY <2>1, Owners
    <3> QED
      BY <3>1, <3>2, SumRows
  <2>3. \A d \in R : Totals[d] \in Int
    BY <2>1, RowTypes DEF Totals
  <2> HIDE DEF R, part
  <2>4. SumFunctionOnSet(part, Parties \cup {None}) = Tot(Only(Totals, R))
    BY <2>1, <2>2, <2>3, ByParty
  <2>5. Sum(Total, R) = Tot(Only(Totals, R))
    BY <2>1, SumRows
  <2> QED
    BY <2>4, <2>5 DEF part, R, Sum
<1>2. Sum(LAMBDA p : PartyWiseProfit(shop, p), Parties \cup {None})
        = Sum(Profit, TxnWhere(Sales, shop))
  <2> DEFINE R == TxnWhere(Sales, shop)
             part == [p \in Parties \cup {None} |-> PartyWiseProfit(shop, p)]
  <2>1. R \in SUBSET Docs /\ \A d \in R : Live(d) /\ docs[d].type \in LineTypes
    BY CountedTxns, SalesAreLines
  <2>2. ASSUME NEW p \in Parties \cup {None}
        PROVE  part[p] = Tot(Only(Profited, OfOwner(PartyOf, R, p)))
    <3>1. part[p] = Sum(Profit, {d \in R : docs[d].party = p})
      BY DEF PartyWiseProfit, Profit, Sum
    <3> HIDE DEF R, part
    <3>2. /\ {d \in R : docs[d].party = p} = OfOwner(PartyOf, R, p)
          /\ OfOwner(PartyOf, R, p) \in SUBSET R
      BY <2>1, Owners
    <3>3. Sum(Profit, OfOwner(PartyOf, R, p)) = Tot(Only(Profited, OfOwner(PartyOf, R, p)))
      BY <2>1, <3>2, SumLines
    <3> QED
      BY <3>1, <3>2, <3>3
  <2> HIDE DEF R, part
  <2>3. Sum(Profit, R) = Tot(Only(Profited, R)) /\ Only(Profited, R) \in Columns
    BY <2>1, SumLines
  <2>4. \A d \in R : Profited[d] \in Int
    BY <2>1, <2>3 DEF Only, Columns
  <2>5. SumFunctionOnSet(part, Parties \cup {None}) = Tot(Only(Profited, R))
    BY <2>1, <2>2, <2>4, ByParty
  <2> QED
    BY <2>3, <2>5 DEF part, R, Sum
<1> QED
  BY <1>1, <1>2

(* The profit of the items is the profit of their lines. *)
LEMMA ProfitByItem ==
  ASSUME TypeOK, RowsWellFormed, NEW shop
  PROVE  Sum(LAMBDA i : ItemWiseProfit(shop, i), Items) = Sum(LineProfit, TxnWhere(Sales, shop))
<1> DEFINE R == TxnWhere(Sales, shop)
           part == [i \in Items |-> ItemWiseProfit(shop, i)]
<1>1. R \in SUBSET Docs /\ \A d \in R : /\ Live(d) /\ docs[d].type \in LineTypes
                                        /\ docs[d].item \in Items
  BY CountedTxns, SalesAreLines
<1>2. ASSUME NEW i \in Items
      PROVE  part[i] = Tot(Only(LineProfited, OfOwner(ItemOf, R, i)))
  <2>1. part[i] = Sum(LineProfit, {d \in R : docs[d].item = i})
    BY DEF ItemWiseProfit, LineProfit, Sum
  <2> HIDE DEF R, part
  <2>2. /\ {d \in R : docs[d].item = i} = OfOwner(ItemOf, R, i)
        /\ OfOwner(ItemOf, R, i) \in SUBSET R
    BY <1>1, Owners
  <2>3. Sum(LineProfit, OfOwner(ItemOf, R, i)) = Tot(Only(LineProfited, OfOwner(ItemOf, R, i)))
    BY <1>1, <2>2, SumLines
  <2> QED
    BY <2>1, <2>2, <2>3
<1> HIDE DEF R, part
<1>3. Sum(LineProfit, R) = Tot(Only(LineProfited, R)) /\ Only(LineProfited, R) \in Columns
  BY <1>1, SumLines
<1>4. \A d \in R : LineProfited[d] \in Int
  BY <1>1, <1>3 DEF Only, Columns
<1>5. SumFunctionOnSet(part, Items) = Tot(Only(LineProfited, R))
  BY <1>1, <1>2, <1>4, ByItem
<1> QED
  BY <1>3, <1>5 DEF part, R, Sum

(* What a discount on the bill takes from the lines of a report. *)
LEMMA DiscountsOff ==
  ASSUME TypeOK, RowsWellFormed, NEW types \in SUBSET LineTypes, NEW shop
  PROVE  LET R == TxnWhere(types, shop)
         IN  /\ Sum(Profit, R) = Sum(LineProfit, R) - BillDiscounts(types, shop)
             /\ Sum(Taxable, R) = Sum(LineTaxable, R) - BillDiscounts(types, shop)
             /\ types = {"SALE_INVOICE"} =>
                  Sum(Total, R) = Sum(LineTotal, R) - BillDiscounts(types, shop)
<1> DEFINE R == TxnWhere(types, shop)
<1>1. R \in SUBSET Docs /\ \A d \in R : /\ Live(d) /\ docs[d].type \in LineTypes
                                        /\ docs[d].type \in types
  BY CountedTxns
<1>2. BillDiscounts(types, shop) = Sum(Off, R)
  BY DEF BillDiscounts, Off, Sum
<1> HIDE DEF R
<1>3. /\ Sum(Profit, R) = Tot(Only(Profited, R)) /\ Only(Profited, R) \in Columns
      /\ Sum(LineProfit, R) = Tot(Only(LineProfited, R)) /\ Only(LineProfited, R) \in Columns
      /\ Sum(Taxable, R) = Tot(Only(Taxables, R)) /\ Only(Taxables, R) \in Columns
      /\ Sum(LineTaxable, R) = Tot(Only(LineTaxables, R)) /\ Only(LineTaxables, R) \in Columns
      /\ Sum(LineTotal, R) = Tot(Only(Grosses, R)) /\ Only(Grosses, R) \in Columns
      /\ Sum(Off, R) = Tot(Only(Offs, R)) /\ Only(Offs, R) \in Columns
  BY <1>1, SumLines
<1>4. Sum(Total, R) = Tot(Only(Totals, R)) /\ Only(Totals, R) \in Columns
  BY <1>1, SumRows
<1>5. ASSUME NEW d \in R
      PROVE  /\ Profit(d) = LineProfit(d) - Off(d)
             /\ Taxable(d) = LineTaxable(d) - Off(d)
             /\ docs[d].type = "SALE_INVOICE" => Total(d) = LineTotal(d) - Off(d)
  <2>1. /\ Total(d) \in Int /\ Sign(d) \in {1, -1}
        /\ LineTotal(d) \in Int /\ LineTax(d) \in Int /\ LineCost(d) \in Int
    BY <1>1, RowTypes, LineRowTypes
  <2>2. docs[d].type = "SALE_INVOICE" => Sign(d) = 1
    BY DEF Sign, BackTypes
  <2> QED
    BY <2>1, <2>2 DEF Profit, LineProfit, Taxable, LineTaxable, Off
<1>6. Sum(Profit, R) = Sum(LineProfit, R) - Sum(Off, R)
  <2>1. \A d \in Docs : Only(Profited, R)[d] = Minus(Only(LineProfited, R), Only(Offs, R))[d]
    BY <1>5 DEF Only, Minus, Profited, LineProfited, Offs
  <2> QED
    BY <1>3, <2>1, TotMinus, SameColumn
<1>7. Sum(Taxable, R) = Sum(LineTaxable, R) - Sum(Off, R)
  <2>1. \A d \in Docs : Only(Taxables, R)[d] = Minus(Only(LineTaxables, R), Only(Offs, R))[d]
    BY <1>5 DEF Only, Minus, Taxables, LineTaxables, Offs
  <2> QED
    BY <1>3, <2>1, TotMinus, SameColumn
<1>8. ASSUME types = {"SALE_INVOICE"}
      PROVE  Sum(Total, R) = Sum(LineTotal, R) - Sum(Off, R)
  <2>1. \A d \in R : docs[d].type = "SALE_INVOICE"
    BY <1>1, <1>8
  <2>2. \A d \in Docs : Only(Totals, R)[d] = Minus(Only(Grosses, R), Only(Offs, R))[d]
    BY <1>5, <2>1 DEF Only, Minus, Totals, Grosses, Offs
  <2> QED
    BY <1>3, <1>4, <2>2, TotMinus, SameColumn
<1> QED
  BY <1>2, <1>6, <1>7, <1>8 DEF R

(* Profit bill by bill and profit in the account differ by the tax of the  *)
(* returns, which the account leaves in.                                   *)
LEMMA GrossProfitGap ==
  ASSUME TypeOK, RowsWellFormed, NEW shop
  PROVE  Sum(Profit, TxnWhere(Sales, shop))
           = ProfitAndLoss(shop).grossProfit + Sum(LineTax, TxnWhere({"CREDIT_NOTE"}, shop))
<1> DEFINE R == TxnWhere(Sales, shop)
           S == TxnWhere({"SALE_INVOICE"}, shop)
           C == TxnWhere({"CREDIT_NOTE"}, shop)
           Line(Q) == Q \in SUBSET Docs /\ \A d \in Q : Live(d) /\ docs[d].type \in LineTypes
<1>1. Line(R) /\ Line(S) /\ Line(C)
  BY CountedTxns, SalesAreLines
<1>2. /\ \A d \in Docs : d \in R <=> d \in S \/ d \in C
      /\ \A d \in S : docs[d].type = "SALE_INVOICE" /\ d \notin C
      /\ \A d \in C : docs[d].type = "CREDIT_NOTE"
  BY DEF TxnWhere, Sales
<1>3. ProfitAndLoss(shop).grossProfit
        = Sum(Total, S) - Sum(Total, C) - Sum(LineTax, S) - (Sum(LineCost, S) - Sum(LineCost, C))
  BY DEF ProfitAndLoss, Profits
<1> HIDE DEF R, S, C
<1>4. /\ Sum(Profit, R) = Tot(Only(Profited, R)) /\ Only(Profited, R) \in Columns
      /\ Sum(LineTax, S) = Tot(Only(Taxes, S)) /\ Only(Taxes, S) \in Columns
      /\ Sum(LineTax, C) = Tot(Only(Taxes, C)) /\ Only(Taxes, C) \in Columns
      /\ Sum(LineCost, S) = Tot(Only(Costs, S)) /\ Only(Costs, S) \in Columns
      /\ Sum(LineCost, C) = Tot(Only(Costs, C)) /\ Only(Costs, C) \in Columns
      /\ Sum(Total, S) = Tot(Only(Totals, S)) /\ Only(Totals, S) \in Columns
      /\ Sum(Total, C) = Tot(Only(Totals, C)) /\ Only(Totals, C) \in Columns
  BY <1>1, SumLines, SumRows
<1> DEFINE a == Minus(Only(Totals, S), Only(Totals, C))
           b == Minus(Only(Costs, S), Only(Costs, C))
           c == Minus(Minus(a, Only(Taxes, S)), b)
           e == Plus(c, Only(Taxes, C))
<1>5. a \in Columns /\ Tot(a) = Sum(Total, S) - Sum(Total, C)
  BY <1>4, TotMinus
<1>6. b \in Columns /\ Tot(b) = Sum(LineCost, S) - Sum(LineCost, C)
  BY <1>4, TotMinus
<1>7. c \in Columns /\ Tot(c) = Tot(a) - Sum(LineTax, S) - Tot(b)
  <2> HIDE DEF a, b
  <2> QED
    BY <1>4, <1>5, <1>6, TotMinus
<1>8. e \in Columns /\ Tot(e) = Tot(c) + Sum(LineTax, C)
  <2> HIDE DEF c
  <2> QED
    BY <1>4, <1>7, TotPlus
<1>9. ASSUME NEW d \in R
      PROVE  /\ d \in S => Profit(d) = Total(d) - LineTax(d) - LineCost(d)
             /\ d \in C => Profit(d) = LineTax(d) + LineCost(d) - Total(d)
             /\ Total(d) \in Int /\ LineTax(d) \in Int /\ LineCost(d) \in Int
  <2>1. Total(d) \in Int /\ LineTax(d) \in Int /\ LineCost(d) \in Int
    BY <1>1, RowTypes, LineRowTypes
  <2>2. (d \in S => Sign(d) = 1) /\ (d \in C => Sign(d) = -1)
    BY <1>2 DEF Sign, BackTypes
  <2> QED
    BY <2>1, <2>2 DEF Profit
<1>10. \A d \in Docs : Only(Profited, R)[d] = e[d]
  BY <1>2, <1>9 DEF Only, Minus, Plus, Profited, Totals, Taxes, Costs
<1> HIDE DEF e
<1>11. Sum(Profit, R) = Tot(e)
  BY <1>4, <1>8, <1>10, SameColumn
<1>12. Sum(Profit, R) = ProfitAndLoss(shop).grossProfit + Sum(LineTax, C)
  BY <1>3, <1>5, <1>6, <1>7, <1>8, <1>11
<1> QED
  BY <1>12 DEF R, C

(* What a list of lines counts does not depend on the filter by item. *)
LEMMA EveryLineHasItem ==
  ASSUME TypeOK, RowsWellFormed, NEW shop
  PROVE  ByItemCategory("SALE_INVOICE", shop, Items)
           = Sum(LineTotal, TxnWhere({"SALE_INVOICE"}, shop))
<1> DEFINE S == TxnWhere({"SALE_INVOICE"}, shop)
           Q == {d \in S : docs[d].item \in Items}
<1>1. Q = S
  BY CountedTxns, SalesAreLines
<1>2. ByItemCategory("SALE_INVOICE", shop, Items) = Sum(LineTotal, Q)
  BY DEF ByItemCategory
<1> HIDE DEF Q
<1> QED
  BY <1>1, <1>2

LEMMA ReportsAgree == CoreInv => SurfacesAgree
<1> SUFFICES ASSUME TypeOK, RowsWellFormed PROVE SurfacesAgree
  BY DEF CoreInv
<1> SUFFICES ASSUME NEW shop \in Views
    PROVE /\ SaleReport(shop).totalSale = ListTxns({"SALE_INVOICE"}, shop).totalAmount
          /\ SaleReport(shop).totalSale = DashboardSales(shop).monthSale
          /\ SaleReport(shop).totalSale = DailyLocal(shop).salesRevenue
          /\ SaleReport(shop).totalSale = ProfitAndLoss(shop).grossSales
          /\ SaleReport(shop).totalSale
               = Sum(LAMBDA p : SalePurchaseByParty(shop, p).sale, Parties \cup {None})
          /\ SaleReport(shop).totalSale
               = ByItemCategory("SALE_INVOICE", shop, Items)
                 - BillDiscounts({"SALE_INVOICE"}, shop)
          /\ shop = Wide =>
               SaleReport(shop).totalSale = Sum(Total, ExportTxns({"SALE_INVOICE"}))
          /\ BillWiseProfit(shop)
               = Sum(LAMBDA p : PartyWiseProfit(shop, p), Parties \cup {None})
          /\ BillWiseProfit(shop)
               = Sum(LAMBDA i : ItemWiseProfit(shop, i), Items) - BillDiscounts(Sales, shop)
          /\ BillWiseProfit(shop) = ProfitAndLoss(shop).grossProfit
                                    + Sum(LineTax, TxnWhere({"CREDIT_NOTE"}, shop))
          /\ Gst(Sales, shop).totalTax = HsnSummary(Sales, shop).totalTax
          /\ Gst(Sales, shop).taxable
               = HsnSummary(Sales, shop).taxable - BillDiscounts(Sales, shop)
  BY DEF SurfacesAgree
<1>1. BillWiseProfit(shop) = Sum(Profit, TxnWhere(Sales, shop))
  BY DEF BillWiseProfit, Profit, Sum
<1>2. Gst(Sales, shop).totalTax = HsnSummary(Sales, shop).totalTax
  BY DEF Gst, HsnSummary
<1>3. /\ Gst(Sales, shop).taxable = Sum(Taxable, TxnWhere(Sales, shop))
      /\ HsnSummary(Sales, shop).taxable = Sum(LineTaxable, TxnWhere(Sales, shop))
  BY DEF Gst, HsnSummary, Taxable, LineTaxable, Sum
<1>4. SaleReport(shop).totalSale = Sum(Total, TxnWhere({"SALE_INVOICE"}, shop))
  BY OneSale
<1>5. /\ Sum(Profit, TxnWhere(Sales, shop))
           = Sum(LineProfit, TxnWhere(Sales, shop)) - BillDiscounts(Sales, shop)
      /\ Sum(Taxable, TxnWhere(Sales, shop))
           = Sum(LineTaxable, TxnWhere(Sales, shop)) - BillDiscounts(Sales, shop)
  BY DiscountsOff, SalesAreLines
<1>6. Sum(Total, TxnWhere({"SALE_INVOICE"}, shop))
        = Sum(LineTotal, TxnWhere({"SALE_INVOICE"}, shop)) - BillDiscounts({"SALE_INVOICE"}, shop)
  BY DiscountsOff, SalesAreLines
<1> QED
  BY <1>1, <1>2, <1>3, <1>4, <1>5, <1>6, OneSale, SalesByParty, ProfitByItem, GrossProfitGap,
     EveryLineHasItem

(* Every screen that shows the sales of a shop shows the same sales, and   *)
(* the profit and tax reports differ by the discounts on bills and the tax *)
(* of returns and by nothing else ("otherwise the POS Today's Sales header *)
(* ... disagrees with the dashboard/reports", listTxns).                   *)
THEOREM Surfaces == ASSUME Slips = {} PROVE Spec => []SurfacesAgree
BY CoreSafety, ReportsAgree, PTL

-----------------------------------------------------------------------------
(* Money.                                                                  *)

(* Where the payment of a document is: in the account its row names, or in *)
(* the account its cheque was deposited in.                                *)
Rowed(d, a) == InForce(d) /\ PaysInto(docs[d]) /\ docs[d].acct = a

Deposited(d, a) == cheques[d].status = "CLOSED" /\ cheques[d].account = a

LEMMA EntryOf ==
  ASSUME CoreInv, NEW d \in Docs, NEW a \in AccountIds
  PROVE  /\ DocMoney(d, a) = IF Rowed(d, a) \/ Deposited(d, a) THEN Flow(d) ELSE 0
         /\ DocMoney(d, a) \in Int
         /\ Rowed(d, a) => ~Deposited(d, a)
         /\ Deposited(d, a) => InForce(d) /\ PaysByCheque(docs[d])
<1>1. DocMoney(d, a) =
        IF InForce(d) /\ ((PaysInto(docs[d]) /\ docs[d].acct = a) \/ Deposited(d, a))
        THEN Flow(d) ELSE 0
  BY DEF DocMoney, Flow, Deposited
<1>2. Deposited(d, a) => InForce(d) /\ PaysByCheque(docs[d])
  BY DEF Deposited, CoreInv, ChequesFollowDocs
<1>3. PaysByCheque(docs[d]) => ~PaysInto(docs[d])
  BY KindsAssumption DEF PaysByCheque, PaysInto
<1>4. Flow(d) \in Int
  BY RowTypes DEF CoreInv
<1> QED
  BY <1>1, <1>2, <1>3, <1>4 DEF Rowed

(* What the documents have put into an account. *)
DocColumn(a) == [d \in Docs |-> DocMoney(d, a)]

(* What the transfers and loans of some kinds have put there. *)
MovedOf(kinds, a) ==
    [m \in Transfers |-> IF transfers[m].kind \in kinds THEN TransferEffect(transfers[m], a) ELSE 0]

LEMMA MovedIs ==
  ASSUME TypeOK, NEW kinds, NEW a
  PROVE  /\ MovedBy(kinds, a) = SumFunctionOnSet(MovedOf(kinds, a), Transfers)
         /\ MovedBy(kinds, a) \in Int
         /\ \A m \in Transfers : MovedOf(kinds, a)[m] \in Int
<1> DEFINE R == RowsOf(kinds)
           f == [m \in R |-> TransferEffect(transfers[m], a)]
           g == MovedOf(kinds, a)
<1>1. \A m \in Transfers : TransferEffect(transfers[m], a) \in Int
  BY TransferEffectType DEF TypeOK
<1>2. \A m \in Transfers : g[m] \in Int
  BY <1>1 DEF MovedOf
<1>3. R \in SUBSET Transfers /\ (\A m \in R : f[m] = g[m]) /\ \A m \in Transfers \ R : g[m] = 0
  BY DEF RowsOf, MovedOf
<1>4. MovedBy(kinds, a) = SumFunctionOnSet(f, R)
  BY DEF MovedBy, Sum
<1> HIDE DEF R, f, g
<1>5. SumFunctionOnSet(f, R) = SumFunctionOnSet(g, Transfers)
  BY <1>2, <1>3, FiniteAssumption, SumExtend
<1>6. SumFunctionOnSet(g, Transfers) \in Int
  BY <1>2, FiniteAssumption, SumInt
<1> QED
  BY <1>2, <1>4, <1>5, <1>6 DEF g

(* A row is of a transfer or of a loan, or is not there. *)
LEMMA OtherMoneyIs ==
  ASSUME TypeOK, NEW a \in AccountIds
  PROVE  /\ OtherMoney(a) = Opening0[a] + MovedBy({"TRANSFER"}, a) + MovedBy(Loans, a)
         /\ OtherMoney(a) = Opening0[a] + SumFunctionOnSet(
                              [m \in Transfers |-> TransferEffect(transfers[m], a)], Transfers)
         /\ OtherMoney(a) \in Int /\ Opening0[a] \in Int
         /\ MovedBy({"TRANSFER"}, a) \in Int /\ MovedBy(Loans, a) \in Int
<1> DEFINE K == {"TRANSFER"} \cup Loans
           e == [m \in Transfers |-> TransferEffect(transfers[m], a)]
           f == MovedOf({"TRANSFER"}, a)
           g == MovedOf(Loans, a)
           h == MovedOf(K, a)
<1>1. \A m \in Transfers : transfers[m].kind \in K \/ transfers[m] = NoTransfer
  BY TransfersAssumption DEF TypeOK, Loans
<1>2. \A m \in Transfers : transfers[m] = NoTransfer => e[m] = 0
  BY NoneAssumption DEF NoTransfer, TransferEffect
<1>3. \A m \in Transfers : h[m] = e[m]
  BY <1>1, <1>2 DEF MovedOf
<1>4. /\ MovedBy({"TRANSFER"}, a) = SumFunctionOnSet(f, Transfers)
      /\ MovedBy(Loans, a) = SumFunctionOnSet(g, Transfers)
      /\ MovedBy(K, a) = SumFunctionOnSet(h, Transfers)
      /\ MovedBy({"TRANSFER"}, a) \in Int /\ MovedBy(Loans, a) \in Int /\ MovedBy(K, a) \in Int
      /\ \A m \in Transfers : f[m] \in Int /\ g[m] \in Int
  BY MovedIs
<1>5. \A m \in Transfers : h[m] = f[m] + g[m]
  <2>1. TAKE m \in Transfers
  <2>2. ~(transfers[m].kind \in {"TRANSFER"} /\ transfers[m].kind \in Loans)
    BY DEF Loans
  <2>3. e[m] \in Int
    BY TransferEffectType DEF TypeOK
  <2> QED
    BY <2>2, <2>3 DEF MovedOf
<1>6. Opening0[a] \in Int
  BY AccountsAssumption
<1>7. OtherMoney(a) = Opening0[a] + MovedBy(K, a)
  BY DEF OtherMoney
<1> HIDE DEF e, f, g, h, K
<1>8. SumFunctionOnSet(h, Transfers) = SumFunctionOnSet(f, Transfers) + SumFunctionOnSet(g, Transfers)
  BY <1>4, <1>5, FiniteAssumption, SumPlus
<1>9. SumFunctionOnSet(h, Transfers) = SumFunctionOnSet(e, Transfers)
  BY <1>3, FiniteAssumption, SumCongruent
<1> QED
  BY <1>4, <1>6, <1>7, <1>8, <1>9 DEF e

LEMMA BalanceIs ==
  ASSUME CoreInv, MoneyAddsUp, NEW a \in AccountIds
  PROVE  /\ DocColumn(a) \in Columns /\ Tot(DocColumn(a)) \in Int
         /\ accountBalance[a] = OtherMoney(a) + Tot(DocColumn(a))
<1> DEFINE B == Docs \cup Transfers
           c == DocColumn(a)
           e == [m \in Transfers |-> TransferEffect(transfers[m], a)]
           f == ColumnOf(B, MoneyEntries, a)
           g == [x \in B |-> IF x \in Docs THEN DocMoney(x, a) ELSE 0]
           h == [x \in B |-> IF x \in Docs THEN 0 ELSE TransferEffect(transfers[x], a)]
<1>1. \A d \in Docs : DocMoney(d, a) \in Int
  BY EntryOf
<1>2. c \in Columns /\ Tot(c) \in Int
  BY <1>1, TotInt DEF Columns, DocColumn
<1>3. \A m \in Transfers : TransferEffect(transfers[m], a) \in Int
  BY TransferEffectType DEF CoreInv, TypeOK
<1>4. \A x \in B : f[x] \in Int /\ g[x] \in Int /\ h[x] \in Int /\ f[x] = g[x] + h[x]
  BY <1>1, <1>3 DEF ColumnOf, MoneyEntries
<1>5. /\ \A d \in Docs : c[d] = g[d]
      /\ \A x \in B \ Docs : g[x] = 0
  BY DEF DocColumn
<1>6. /\ \A m \in Transfers : e[m] = h[m]
      /\ \A x \in B \ Transfers : h[x] = 0
  BY TransfersAssumption
<1>7. accountBalance[a] = Opening0[a] + SumFunctionOnSet(f, B)
  BY DEF MoneyAddsUp, Agree
<1>8. OtherMoney(a) = Opening0[a] + SumFunctionOnSet(e, Transfers) /\ Opening0[a] \in Int
  BY OtherMoneyIs DEF CoreInv
<1>9. Docs \in SUBSET B /\ Transfers \in SUBSET B /\ IsFiniteSet(B)
  BY FiniteBooks
<1> HIDE DEF B, c, e, f, g, h
<1>10. SumFunctionOnSet(f, B) = SumFunctionOnSet(g, B) + SumFunctionOnSet(h, B)
  BY <1>4, <1>9, SumPlus
<1>11. SumFunctionOnSet(g, B) = Tot(c)
  <2>1. \A x \in B : g[x] \in Int
    BY <1>4
  <2>2. SumFunctionOnSet(c, Docs) = SumFunctionOnSet(g, B)
    BY <1>5, <1>9, <2>1, SumExtend
  <2> QED
    BY <2>2 DEF Tot
<1>12. SumFunctionOnSet(h, B) = SumFunctionOnSet(e, Transfers)
  <2>1. \A x \in B : h[x] \in Int
    BY <1>4
  <2>2. SumFunctionOnSet(e, Transfers) = SumFunctionOnSet(h, B)
    BY <1>6, <1>9, <2>1, SumExtend
  <2> QED
    BY <2>2
<1>13. SumFunctionOnSet(h, B) \in Int
  BY <1>4, <1>9, SumInt
<1> QED
  BY <1>2, <1>7, <1>8, <1>10, <1>11, <1>12, <1>13 DEF c

LEMMA StatementIsBalance == IInv /\ MoneyAddsUp => StatementsAddUp
<1> SUFFICES ASSUME IInv, MoneyAddsUp, NEW a \in AccountIds
             PROVE  AccountStatement(a) + Opening0[a] + MovedBy(Loans, a) = accountBalance[a]
  BY DEF StatementsAddUp
<1> DEFINE P == {d \in PaymentRows(Wide) : docs[d].acct = a}
           C == {d \in Docs : cheques[d].status = "CLOSED" /\ cheques[d].account = a}
           e == DocColumn(a)
<1>1. CoreInv /\ TypeOK /\ RowsFollowRequests
  BY DEF IInv, BooksInv, CoreInv
<1>2. P \in SUBSET Docs /\ C \in SUBSET Docs
  BY DEF PaymentRows
<1>3. ASSUME NEW d \in Docs
      PROVE  (d \in P <=> Rowed(d, a)) /\ (d \in C <=> Deposited(d, a))
  <2>1. d \in P <=> InForce(d) /\ docs[d].own > 0 /\ docs[d].acct = a
    BY DEF PaymentRows, Seen, InForce, Posted
  <2>2. Exists(d) /\ docs[d].acct = a => PaysInto(docs[d])
    BY <1>1, NoneAssumption DEF RowsFollowRequests, FollowsRequest
  <2> QED
    BY <2>1, <2>2 DEF Rowed, Deposited, InForce, Live, PaysInto
<1>4. AccountStatement(a) = Sum(Flow, P) + MovedBy({"TRANSFER"}, a) + Sum(Flow, C)
  BY DEF AccountStatement
<1>5. e \in Columns /\ accountBalance[a] = OtherMoney(a) + Tot(e)
  BY <1>1, BalanceIs
<1> HIDE DEF P, C
<1>6. /\ Sum(Flow, P) = Tot(Only(Flows, P)) /\ Only(Flows, P) \in Columns
      /\ Sum(Flow, C) = Tot(Only(Flows, C)) /\ Only(Flows, C) \in Columns
  BY <1>1, <1>2, SumRows
<1>7. \A d \in Docs : e[d] = Plus(Only(Flows, P), Only(Flows, C))[d]
  <2>1. TAKE d \in Docs
  <2>2. e[d] = IF Rowed(d, a) \/ Deposited(d, a) THEN Flow(d) ELSE 0
    BY <1>1, EntryOf DEF DocColumn
  <2>3. (Rowed(d, a) => ~Deposited(d, a)) /\ Flow(d) \in Int
    BY <1>1, EntryOf, RowTypes
  <2> HIDE DEF e
  <2> QED
    BY <1>3, <2>2, <2>3 DEF Plus, Only, Flows
<1> HIDE DEF e
<1>8. Tot(e) = Sum(Flow, P) + Sum(Flow, C) /\ Sum(Flow, P) \in Int /\ Sum(Flow, C) \in Int
  BY <1>5, <1>6, <1>7, TotPlus, TotInt, SameColumn
<1>9. /\ OtherMoney(a) = Opening0[a] + MovedBy({"TRANSFER"}, a) + MovedBy(Loans, a)
      /\ Opening0[a] \in Int /\ MovedBy({"TRANSFER"}, a) \in Int /\ MovedBy(Loans, a) \in Int
  BY <1>1, OtherMoneyIs
<1> QED
  BY <1>4, <1>5, <1>8, <1>9

(* The statement of an account adds up to its balance but for the opening  *)
(* and the loans, wherever payments were resolved to, however often        *)
(* cheques were deposited and reopened and whatever was transferred.       *)
THEOREM Statements ==
  ASSUME Slips = {}, AccountsOfTheirOwn, PicksOfTheirOwn
  PROVE  Spec => []StatementsAddUp
BY Safety, BalancesAddUp, StatementIsBalance, PTL

-----------------------------------------------------------------------------
(* What payments settle.                                                   *)

LiveDocs == {p \in Docs : Live(p)}

(* What the live payments settle of a document. *)
SettledPart(e) == SettledOf(alloc, LiveDocs, e)

SettledParts(types) == [e \in Docs |-> IF docs[e].type \in types THEN SettledPart(e) ELSE 0]

(* What a payment settles among documents of some types. *)
Settling(p, types) == Sum(LAMBDA e : IF docs[e].type \in types THEN alloc[p][e] ELSE 0, Docs)

LEMMA SettledPartIs ==
  ASSUME BooksInv, NEW e \in Docs
  PROVE  /\ SettledPart(e) \in Nat
         /\ ~(InForce(e) /\ docs[e].type \in {"SALE_INVOICE", "PURCHASE_BILL"}) => SettledPart(e) = 0
         /\ Exists(e) => docs[e].paid = SettledPart(e) + docs[e].own
<1>1. alloc \in [Docs -> [Docs -> Nat]] /\ LiveDocs \in SUBSET Docs
  BY DEF BooksInv, CoreInv, TypeOK, LiveDocs
<1>2. SettledPart(e) \in Nat
  BY <1>1, SettledSum DEF SettledPart
<1>3. ASSUME ~(InForce(e) /\ docs[e].type \in {"SALE_INVOICE", "PURCHASE_BILL"})
      PROVE  SettledPart(e) = 0
  <2>1. ASSUME NEW p \in LiveDocs
        PROVE  alloc[p][e] = 0
    <3>1. p \in Docs /\ alloc[p][e] \in Nat
      BY <1>1
    <3>2. alloc[p][e] > 0 => /\ InForce(e)
                             /\ docs[e].type \in {"SALE_INVOICE", "PURCHASE_BILL"}
      BY <3>1 DEF BooksInv, CoreInv, SettledInvoicesStay, AllocationsMatch, SettledBy, InForce
    <3> QED
      BY <1>3, <3>1, <3>2
  <2> QED
    BY <1>1, <2>1, SettledNothing DEF SettledPart
<1>4. Exists(e) => docs[e].paid = SettledPart(e) + docs[e].own
  BY DEF BooksInv, PaidIsPayments, SettledPart, SettledOf, LiveDocs
<1> QED
  BY <1>2, <1>3, <1>4

(* Payment by payment or bill by bill, as much is settled. *)
LEMMA SettledBothWays ==
  ASSUME BooksInv, NEW types, NEW row, \A p \in LiveDocs : row[p] = Settling(p, types)
  PROVE  /\ SumFunctionOnSet(row, LiveDocs) = Tot(SettledParts(types))
         /\ SettledParts(types) \in Columns
<1> DEFINE m == [p \in LiveDocs |->
                   [e \in Docs |-> IF docs[e].type \in types THEN alloc[p][e] ELSE 0]]
           n == [e \in Docs |->
                   [p \in LiveDocs |-> IF docs[e].type \in types THEN alloc[p][e] ELSE 0]]
           col == SettledParts(types)
<1>1. alloc \in [Docs -> [Docs -> Nat]] /\ LiveDocs \in SUBSET Docs
  BY DEF BooksInv, CoreInv, TypeOK, LiveDocs
<1>2. IsFiniteSet(Docs) /\ IsFiniteSet(LiveDocs)
  BY <1>1, FiniteAssumption, FS_Subset
<1>3. Transposed(m, n, LiveDocs, Docs)
  BY <1>1 DEF Transposed
<1>4. AddsUp(row, m, LiveDocs, Docs)
  BY DEF AddsUp, Settling, Sum
<1>5. AddsUp(col, n, Docs, LiveDocs)
  <2> SUFFICES ASSUME NEW e \in Docs PROVE col[e] = SumFunctionOnSet(n[e], LiveDocs)
    BY DEF AddsUp
  <2>1. CASE docs[e].type \in types
    <3>1. n[e] = [p \in LiveDocs |-> alloc[p][e]]
      BY <2>1
    <3> QED
      BY <2>1, <3>1 DEF SettledParts, SettledPart, SettledOf, Sum
  <2>2. CASE docs[e].type \notin types
    <3> DEFINE f == n[e]
    <3>1. \A p \in LiveDocs : f[p] = 0
      BY <2>2
    <3> HIDE DEF f
    <3>2. SumFunctionOnSet(f, LiveDocs) = 0
      BY <1>2, <3>1, SumZero
    <3> QED
      BY <2>2, <3>2 DEF SettledParts, f
  <2> QED
    BY <2>1, <2>2
<1>6. col \in Columns
  BY SettledPartIs DEF SettledParts, Columns
<1> HIDE DEF m, n, col
<1>7. SumFunctionOnSet(row, LiveDocs) = SumFunctionOnSet(col, Docs)
  BY <1>2, <1>3, <1>4, <1>5, SumTable
<1> QED
  BY <1>6, <1>7 DEF Tot, col

Owns == [d \in Docs |-> docs[d].own]

LEMMA SumOwns ==
  ASSUME TypeOK, NEW R \in SUBSET Docs
  PROVE  /\ Sum(LAMBDA d : docs[d].own, R) = Tot(Only(Owns, R))
         /\ Only(Owns, R) \in Columns
<1> DEFINE f == [d \in R |-> docs[d].own]
<1>1. \A d \in R : f[d] = Owns[d] /\ Owns[d] \in Int
  BY RowTypes DEF Owns
<1> HIDE DEF f
<1>2. SumFunctionOnSet(f, R) = Tot(Only(Owns, R)) /\ Only(Owns, R) \in Columns
  BY <1>1, SumOnly, OnlyColumn
<1> QED
  BY <1>2 DEF f, Sum

MoneyInTypes == {"SALE_INVOICE", "PAYMENT_IN", "DEBIT_NOTE"}
MoneyOutTypes == {"CREDIT_NOTE", "PURCHASE_BILL", "PAYMENT_OUT", "EXPENSE"}

(* The payment rows of the day, in or out, that are not cheques; and those *)
(* that are.                                                               *)
NoCheques == {d \in PaymentRows(Wide) : docs[d].method # "CHEQUE"}
CashIn == {d \in NoCheques : Inbound(docs[d].type)}
CashOut == {d \in NoCheques : ~Inbound(docs[d].type)}
ChequesIn ==
    {d \in PaymentRows(Wide) : docs[d].method = "CHEQUE" /\ Inbound(docs[d].type) = TRUE}
ChequesOut ==
    {d \in PaymentRows(Wide) : docs[d].method = "CHEQUE" /\ Inbound(docs[d].type) = FALSE}

LEMMA DayBookRow ==
  ASSUME BooksInv, NEW d \in Docs
  PROVE  /\ IF InForce(d) /\ docs[d].type \in MoneyInTypes
            THEN /\ docs[d].paid = docs[d].own + SettledParts({"SALE_INVOICE"})[d]
                 /\ Flow(d) = docs[d].own
                 /\ docs[d].own = 0 <=> d \notin CashIn \cup ChequesIn
                 /\ d \in CashIn => d \notin ChequesIn
            ELSE /\ SettledParts({"SALE_INVOICE"})[d] = 0
                 /\ d \notin CashIn /\ d \notin ChequesIn
         /\ IF InForce(d) /\ docs[d].type \in MoneyOutTypes
            THEN /\ docs[d].paid = docs[d].own + SettledParts({"PURCHASE_BILL"})[d]
                 /\ Flow(d) = -docs[d].own
                 /\ docs[d].own = 0 <=> d \notin CashOut \cup ChequesOut
                 /\ d \in CashOut => d \notin ChequesOut
            ELSE /\ SettledParts({"PURCHASE_BILL"})[d] = 0
                 /\ d \notin CashOut /\ d \notin ChequesOut
<1>1. docs[d] \in Doc /\ RowsFollowRequests
  BY DEF BooksInv, CoreInv, TypeOK
<1>2. docs[d].own \in Nat /\ docs[d].paid \in Int /\ docs[d].type \in TxnTypes
  BY <1>1 DEF Doc
<1>3. /\ SettledPart(d) \in Nat
      /\ ~(InForce(d) /\ docs[d].type \in {"SALE_INVOICE", "PURCHASE_BILL"}) => SettledPart(d) = 0
      /\ Exists(d) => docs[d].paid = SettledPart(d) + docs[d].own
  BY SettledPartIs
<1>4. Exists(d) /\ docs[d].type \in OrderTypes \cup {"P2P_TRANSFER"} => docs[d].own = 0
  BY <1>1 DEF RowsFollowRequests, FollowsRequest
<1>5. \A e \in Docs : e \in PaymentRows(Wide) <=> InForce(e) /\ docs[e].own > 0
  BY DEF PaymentRows, Seen, InForce, Posted
<1>6. InForce(d) => Exists(d)
  BY DEF InForce, Live
<1>7. /\ d \in CashIn <=> /\ InForce(d) /\ docs[d].own > 0
                                   /\ docs[d].method # "CHEQUE" /\ Inbound(docs[d].type)
      /\ d \in CashOut <=> /\ InForce(d) /\ docs[d].own > 0
                                    /\ docs[d].method # "CHEQUE" /\ ~Inbound(docs[d].type)
      /\ d \in ChequesIn <=> /\ InForce(d) /\ docs[d].own > 0
                                       /\ docs[d].method = "CHEQUE" /\ Inbound(docs[d].type)
      /\ d \in ChequesOut <=> /\ InForce(d) /\ docs[d].own > 0
                                        /\ docs[d].method = "CHEQUE" /\ ~Inbound(docs[d].type)
  <2>1. d \in PaymentRows(Wide) <=> InForce(d) /\ docs[d].own > 0
    BY <1>5
  <2> HIDE DEF PaymentRows
  <2> QED
    BY <2>1 DEF CashIn, CashOut, NoCheques, ChequesIn, ChequesOut, Inbound
<1>8. /\ docs[d].type \in MoneyInTypes => Inbound(docs[d].type)
      /\ docs[d].type \in MoneyOutTypes => ~Inbound(docs[d].type)
      /\ docs[d].type \in MoneyInTypes \cup MoneyOutTypes \cup OrderTypes \cup {"P2P_TRANSFER"}
      /\ docs[d].type \in MoneyInTypes => docs[d].type # "PURCHASE_BILL"
      /\ docs[d].type \in MoneyOutTypes => docs[d].type # "SALE_INVOICE"
      /\ {"SALE_INVOICE"} \subseteq MoneyInTypes /\ {"PURCHASE_BILL"} \subseteq MoneyOutTypes
  BY <1>2 DEF MoneyInTypes, MoneyOutTypes, Inbound, TxnTypes, LineTypes, OrderTypes, PaymentTypes
<1>9. Flow(d) = IF Inbound(docs[d].type) THEN docs[d].own ELSE -docs[d].own
  BY DEF Flow, MoneyEffect
<1>10. /\ SettledParts({"SALE_INVOICE"})[d]
            = IF docs[d].type = "SALE_INVOICE" THEN SettledPart(d) ELSE 0
       /\ SettledParts({"PURCHASE_BILL"})[d]
            = IF docs[d].type = "PURCHASE_BILL" THEN SettledPart(d) ELSE 0
  BY DEF SettledParts
<1> HIDE DEF SettledParts, SettledPart, CashIn, CashOut, ChequesIn, ChequesOut, MoneyInTypes, MoneyOutTypes, Inbound, Flow
<1>12. CASE InForce(d) /\ docs[d].type \in MoneyInTypes
  <2>1. Inbound(docs[d].type) /\ docs[d].type # "PURCHASE_BILL" /\ docs[d].type \notin MoneyOutTypes
    BY <1>8, <1>12
  <2> QED
    BY <1>2, <1>3, <1>6, <1>7, <1>9, <1>10, <1>12, <2>1
<1>13. CASE InForce(d) /\ docs[d].type \in MoneyOutTypes
  <2>1. ~Inbound(docs[d].type) /\ docs[d].type # "SALE_INVOICE" /\ docs[d].type \notin MoneyInTypes
    BY <1>8, <1>13
  <2> QED
    BY <1>2, <1>3, <1>6, <1>7, <1>9, <1>10, <1>13, <2>1
<1>14. CASE ~InForce(d)
  BY <1>3, <1>7, <1>10, <1>14
<1>15. CASE InForce(d) /\ docs[d].type \in OrderTypes \cup {"P2P_TRANSFER"}
  <2>1. docs[d].own = 0 /\ docs[d].type \notin MoneyInTypes \cup MoneyOutTypes
    BY <1>4, <1>6, <1>15 DEF MoneyInTypes, MoneyOutTypes, OrderTypes
  <2>2. docs[d].type \notin {"SALE_INVOICE", "PURCHASE_BILL"}
    BY <1>8, <2>1
  <2> QED
    BY <1>7, <1>10, <2>1, <2>2
<1> QED
  BY <1>8, <1>12, <1>13, <1>14, <1>15

LEMMA DayBookIn ==
  ASSUME BooksInv
  PROVE  Sum(Paid, TxnWhere(MoneyInTypes, Wide))
           = Sum(Flow, CashIn) + Sum(LAMBDA d : docs[d].own, ChequesIn)
             + Sum(LAMBDA p : Settling(p, {"SALE_INVOICE"}), LiveDocs)
<1> DEFINE R == TxnWhere(MoneyInTypes, Wide)
           s == SettledParts({"SALE_INVOICE"})
           row == [p \in LiveDocs |-> Settling(p, {"SALE_INVOICE"})]
<1>1. TypeOK
  BY DEF BooksInv, CoreInv
<1>2. \A d \in Docs : d \in R <=> InForce(d) /\ docs[d].type \in MoneyInTypes
  BY DEF TxnWhere, Seen, InForce, Posted
<1>3. R \in SUBSET Docs /\ CashIn \in SUBSET Docs /\ ChequesIn \in SUBSET Docs
  BY DEF TxnWhere, CashIn, NoCheques, ChequesIn, PaymentRows
<1>4. ASSUME NEW d \in Docs
      PROVE  IF d \in R
             THEN /\ Paid(d) = docs[d].own + s[d] /\ Flow(d) = docs[d].own
                  /\ docs[d].own = 0 <=> d \notin CashIn \cup ChequesIn
                  /\ d \in CashIn => d \notin ChequesIn
             ELSE s[d] = 0 /\ d \notin CashIn /\ d \notin ChequesIn
  <2> HIDE DEF R
  <2> QED
    BY <1>2, DayBookRow DEF Paid
<1>5. Sum(LAMBDA p : Settling(p, {"SALE_INVOICE"}), LiveDocs) = SumFunctionOnSet(row, LiveDocs)
  BY DEF Sum
<1>6. \A p \in LiveDocs : row[p] = Settling(p, {"SALE_INVOICE"})
  OBVIOUS
<1> HIDE DEF R, s, row
<1>7. SumFunctionOnSet(row, LiveDocs) = Tot(s) /\ s \in Columns
  BY <1>6, SettledBothWays DEF s
<1>8. /\ Sum(Paid, R) = Tot(Only(Paids, R)) /\ Only(Paids, R) \in Columns
      /\ Sum(Flow, CashIn) = Tot(Only(Flows, CashIn)) /\ Only(Flows, CashIn) \in Columns
      /\ Sum(LAMBDA d : docs[d].own, ChequesIn) = Tot(Only(Owns, ChequesIn))
      /\ Only(Owns, ChequesIn) \in Columns
  BY <1>1, <1>3, SumRows, SumOwns
<1> DEFINE e == Plus(Only(Flows, CashIn), Only(Owns, ChequesIn))
<1>9. e \in Columns /\ Tot(e) = Sum(Flow, CashIn) + Sum(LAMBDA d : docs[d].own, ChequesIn)
  BY <1>8, TotPlus
<1>10. \A d \in Docs : Only(Paids, R)[d] = Plus(e, s)[d]
  <2>1. TAKE d \in Docs
  <2>2. docs[d].own \in Nat /\ s[d] \in Int
    BY <1>1, <1>7, RowTypes DEF Columns
  <2> QED
    BY <1>4, <2>2 DEF Plus, Only, Paids, Flows, Owns
<1> HIDE DEF e
<1>11. Sum(Paid, R) = Tot(e) + Tot(s)
  BY <1>7, <1>8, <1>9, <1>10, TotPlus, SameColumn
<1> QED
  BY <1>5, <1>7, <1>9, <1>11 DEF R

LEMMA DayBookOut ==
  ASSUME BooksInv
  PROVE  Sum(Paid, TxnWhere(MoneyOutTypes, Wide))
           = -Sum(Flow, CashOut) + Sum(LAMBDA d : docs[d].own, ChequesOut)
             + Sum(LAMBDA p : Settling(p, {"PURCHASE_BILL"}), LiveDocs)
<1> DEFINE R == TxnWhere(MoneyOutTypes, Wide)
           s == SettledParts({"PURCHASE_BILL"})
           row == [p \in LiveDocs |-> Settling(p, {"PURCHASE_BILL"})]
<1>1. TypeOK
  BY DEF BooksInv, CoreInv
<1>2. \A d \in Docs : d \in R <=> InForce(d) /\ docs[d].type \in MoneyOutTypes
  BY DEF TxnWhere, Seen, InForce, Posted
<1>3. R \in SUBSET Docs /\ CashOut \in SUBSET Docs /\ ChequesOut \in SUBSET Docs
  BY DEF TxnWhere, CashOut, NoCheques, ChequesOut, PaymentRows
<1>4. ASSUME NEW d \in Docs
      PROVE  IF d \in R
             THEN /\ Paid(d) = docs[d].own + s[d] /\ Flow(d) = -docs[d].own
                  /\ docs[d].own = 0 <=> d \notin CashOut \cup ChequesOut
                  /\ d \in CashOut => d \notin ChequesOut
             ELSE s[d] = 0 /\ d \notin CashOut /\ d \notin ChequesOut
  <2> HIDE DEF R
  <2> QED
    BY <1>2, DayBookRow DEF Paid
<1>5. Sum(LAMBDA p : Settling(p, {"PURCHASE_BILL"}), LiveDocs) = SumFunctionOnSet(row, LiveDocs)
  BY DEF Sum
<1>6. \A p \in LiveDocs : row[p] = Settling(p, {"PURCHASE_BILL"})
  OBVIOUS
<1> HIDE DEF R, s, row
<1>7. SumFunctionOnSet(row, LiveDocs) = Tot(s) /\ s \in Columns
  BY <1>6, SettledBothWays DEF s
<1>8. /\ Sum(Paid, R) = Tot(Only(Paids, R)) /\ Only(Paids, R) \in Columns
      /\ Sum(Flow, CashOut) = Tot(Only(Flows, CashOut)) /\ Only(Flows, CashOut) \in Columns
      /\ Sum(LAMBDA d : docs[d].own, ChequesOut) = Tot(Only(Owns, ChequesOut))
      /\ Only(Owns, ChequesOut) \in Columns
  BY <1>1, <1>3, SumRows, SumOwns
<1> DEFINE e == Minus(Only(Owns, ChequesOut), Only(Flows, CashOut))
<1>9. e \in Columns /\ Tot(e) = Sum(LAMBDA d : docs[d].own, ChequesOut) - Sum(Flow, CashOut)
  BY <1>8, TotMinus
<1>10. \A d \in Docs : Only(Paids, R)[d] = Plus(e, s)[d]
  <2>1. TAKE d \in Docs
  <2>2. docs[d].own \in Nat /\ s[d] \in Int
    BY <1>1, <1>7, RowTypes DEF Columns
  <2> QED
    BY <1>4, <2>2 DEF Plus, Minus, Only, Paids, Flows, Owns
<1> HIDE DEF e
<1>11. Sum(Paid, R) = Tot(e) + Tot(s)
  BY <1>7, <1>8, <1>9, <1>10, TotPlus, SameColumn
<1>12. /\ Sum(Flow, CashOut) \in Int /\ Tot(s) \in Int
       /\ Sum(LAMBDA d : docs[d].own, ChequesOut) \in Int
  BY <1>7, <1>8, TotInt
<1> QED
  BY <1>5, <1>7, <1>9, <1>11, <1>12 DEF R

LEMMA DayBookIs == BooksInv => DayBookCountsSettlements
<1> SUFFICES ASSUME BooksInv PROVE DayBookCountsSettlements
  OBVIOUS
<1>1. /\ DayBook.moneyIn = Sum(Paid, TxnWhere(MoneyInTypes, Wide))
      /\ DayBook.moneyOut = Sum(Paid, TxnWhere(MoneyOutTypes, Wide))
  BY DEF DayBook, MoneyInTypes, MoneyOutTypes
<1>2. /\ CashFlow(Wide).totalIn = Sum(Flow, CashIn)
      /\ CashFlow(Wide).totalOut = -Sum(Flow, CashOut)
  BY DEF CashFlow, CashIn, CashOut, NoCheques
<1>3. DayBookCountsSettlements <=>
        /\ DayBook.moneyIn = CashFlow(Wide).totalIn + Sum(LAMBDA d : docs[d].own, ChequesIn)
                             + Sum(LAMBDA p : Settling(p, {"SALE_INVOICE"}), LiveDocs)
        /\ DayBook.moneyOut = CashFlow(Wide).totalOut + Sum(LAMBDA d : docs[d].own, ChequesOut)
                              + Sum(LAMBDA p : Settling(p, {"PURCHASE_BILL"}), LiveDocs)
  BY DEF DayBookCountsSettlements, Settling, LiveDocs, ChequesIn, ChequesOut, Sum
<1> QED
  BY <1>1, <1>2, <1>3, DayBookIn, DayBookOut

(* Beyond the cash flow and the cheques the day book shows the payments of *)
(* live documents to bills, and nothing else.                              *)
THEOREM DayBooks == ASSUME Slips = {} PROVE Spec => []DayBookCountsSettlements
BY BooksSafety, DayBookIs, PTL

-----------------------------------------------------------------------------
(* Shops.                                                                  *)

LEMMA FiniteAccounts == IsFiniteSet(AccountIds)
<1> DEFINE S == (Shops \cup {Wide}) \X Kinds
           f == [x \in S |-> [shop |-> x[1], kind |-> x[2]]]
<1>1. IsFiniteSet(Shops \cup {Wide}) /\ IsFiniteSet(Kinds)
  BY FiniteAssumption, FS_AddElement
<1>2. IsFiniteSet(S)
  BY <1>1, FS_Product
<1>3. f \in Surjection(S, AccountIds)
  <2>1. f \in [S -> AccountIds]
    BY DEF AccountIds
  <2>2. \A a \in AccountIds : \E x \in S : f[x] = a
    <3>1. TAKE a \in AccountIds
    <3>2. <<a.shop, a.kind>> \in S /\ f[<<a.shop, a.kind>>] = a
      BY DEF AccountIds
    <3> QED
      BY <3>2
  <2> QED
    BY <2>1, <2>2 DEF Surjection
<1> HIDE DEF S, f
<1> QED
  BY <1>2, <1>3, FS_Surjection

(* The account a document's money is in: that of its payment row or of its *)
(* cheque.                                                                 *)
Landed(d) == IF PaysInto(docs[d]) THEN docs[d].acct ELSE cheques[d].account

MoneyRowsOf(s) == {d \in Docs : InForce(d) /\ PaysInto(docs[d]) /\ docs[d].shop = s}

DepositsOf(s) == {d \in Docs : cheques[d].status = "CLOSED" /\ cheques[d].account.shop = s}

LEMMA LandedAt ==
  ASSUME IInv, NEW s \in Shops, NEW d \in Docs,
         NEW A, A = {a \in accounts : a.shop = s}
  PROVE  /\ \A a \in A \ {Landed(d)} : DocMoney(d, a) = 0
         /\ Landed(d) \in A =>
              /\ DocMoney(d, Landed(d)) \in Int
              /\ DocMoney(d, Landed(d))
                   = IF d \in MoneyRowsOf(s) \/ d \in DepositsOf(s) THEN Flow(d) ELSE 0
         /\ d \in MoneyRowsOf(s) \/ d \in DepositsOf(s) => Landed(d) \in A
         /\ d \in MoneyRowsOf(s) => d \notin DepositsOf(s)
<1>1. CoreInv /\ TypeOK /\ AccountsOfRows /\ ChequesFollowDocs
  BY DEF IInv, BooksInv, CoreInv
<1>2. A \subseteq AccountIds
  BY <1>1 DEF TypeOK
<1>3. Flow(d) \in Int
  BY <1>1, RowTypes
<1>4. PaysByCheque(docs[d]) => ~PaysInto(docs[d])
  BY KindsAssumption DEF PaysByCheque, PaysInto
<1>5. cheques[d].status = "CLOSED" =>
        /\ ~PaysInto(docs[d]) /\ cheques[d].account \in accounts
  BY <1>1, <1>4 DEF ChequesFollowDocs, AccountsOfRows
<1>6. PaysInto(docs[d]) => docs[d].acct \in accounts /\ docs[d].acct.shop = docs[d].shop
  BY <1>1 DEF AccountsOfRows
<1>7. ASSUME NEW a \in A
      PROVE  DocMoney(d, a) = IF Rowed(d, a) \/ Deposited(d, a) THEN Flow(d) ELSE 0
  BY <1>1, <1>2, EntryOf
<1>8. \A a \in A : Rowed(d, a) \/ Deposited(d, a) => a = Landed(d)
  BY <1>5 DEF Rowed, Deposited, Landed
<1>9. Landed(d) \in A =>
        (Rowed(d, Landed(d)) \/ Deposited(d, Landed(d))
           <=> d \in MoneyRowsOf(s) \/ d \in DepositsOf(s))
  <2> SUFFICES ASSUME Landed(d) \in A
               PROVE  Rowed(d, Landed(d)) \/ Deposited(d, Landed(d))
                        <=> d \in MoneyRowsOf(s) \/ d \in DepositsOf(s)
    OBVIOUS
  <2>1. Landed(d).shop = s
    OBVIOUS
  <2>2. CASE PaysInto(docs[d])
    BY <1>5, <1>6, <2>1, <2>2 DEF Rowed, Deposited, Landed, MoneyRowsOf, DepositsOf
  <2>3. CASE ~PaysInto(docs[d])
    BY <2>1, <2>3 DEF Rowed, Deposited, Landed, MoneyRowsOf, DepositsOf
  <2> QED
    BY <2>2, <2>3
<1>10. \A a \in A \ {Landed(d)} : DocMoney(d, a) = 0
  BY <1>7, <1>8
<1>11. Landed(d) \in A => DocMoney(d, Landed(d))
                            = IF d \in MoneyRowsOf(s) \/ d \in DepositsOf(s) THEN Flow(d) ELSE 0
  BY <1>7, <1>9
<1>12. d \in MoneyRowsOf(s) \/ d \in DepositsOf(s) => Landed(d) \in A
  BY <1>5, <1>6 DEF MoneyRowsOf, DepositsOf, Landed
<1>13. d \in MoneyRowsOf(s) => d \notin DepositsOf(s)
  BY <1>5 DEF MoneyRowsOf, DepositsOf
<1> QED
  BY <1>3, <1>10, <1>11, <1>12, <1>13

(* What a document has put into the accounts of a shop. *)
ShopMoney(s) ==
    [d \in Docs |-> IF d \in MoneyRowsOf(s) \/ d \in DepositsOf(s) THEN Flow(d) ELSE 0]

LEMMA ShopBalance ==
  ASSUME IInv, MoneyAddsUp, NEW s \in Shops
  PROVE  /\ CashBankSummary(s).totalBalance
              = Sum(OtherMoney, {a \in accounts : a.shop = s}) + Tot(ShopMoney(s))
         /\ Sum(OtherMoney, {a \in accounts : a.shop = s}) \in Int
<1> DEFINE A == {a \in accounts : a.shop = s}
           all == [a \in A |-> accountBalance[a]]
           other == [a \in A |-> OtherMoney(a)]
           col == [a \in A |-> Tot(DocColumn(a))]
           row == ShopMoney(s)
           m == [d \in Docs |-> [a \in A |-> DocMoney(d, a)]]
           n == [a \in A |-> DocColumn(a)]
<1>1. CoreInv /\ TypeOK /\ s # Wide
  BY NoneAssumption DEF IInv, BooksInv, CoreInv
<1>2. A \in SUBSET AccountIds
  BY <1>1 DEF TypeOK
<1>3. IsFiniteSet(A) /\ IsFiniteSet(Docs)
  <2> HIDE DEF A
  <2> QED
    BY <1>2, FiniteAccounts, FiniteAssumption, FS_Subset
<1>4. CashBankSummary(s).totalBalance = SumFunctionOnSet(all, A)
  <2>1. {a \in accounts : s = Wide \/ a.shop = s} = A
    BY <1>1
  <2>2. CashBankSummary(s).totalBalance
          = SumFunctionOnSet([a \in {b \in accounts : s = Wide \/ b.shop = s} |-> accountBalance[a]],
                             {a \in accounts : s = Wide \/ a.shop = s})
    BY DEF CashBankSummary, Sum
  <2> HIDE DEF A
  <2> QED
    BY <2>1, <2>2
<1>5. Transposed(m, n, Docs, A)
  <2>1. \A d \in Docs, a \in AccountIds : DocMoney(d, a) \in Int
    BY <1>1, EntryOf
  <2> HIDE DEF A
  <2> QED
    BY <1>2, <2>1 DEF Transposed, DocColumn
<1>6. AddsUp(col, n, A, Docs)
  <2> SUFFICES ASSUME NEW a \in A
               PROVE  Tot(DocColumn(a)) = SumFunctionOnSet(DocColumn(a), Docs)
    BY DEF AddsUp
  <2> QED
    BY DEF Tot
<1>7. AddsUp(row, m, Docs, A)
  <2> SUFFICES ASSUME NEW d \in Docs PROVE row[d] = SumFunctionOnSet(m[d], A)
    BY DEF AddsUp
  <2> DEFINE g == m[d]
             y == Landed(d)
  <2>1. /\ \A a \in A \ {y} : g[a] = 0
        /\ y \in A => g[y] \in Int
        /\ row[d] = IF y \in A THEN g[y] ELSE 0
    <3>1. /\ \A a \in A \ {y} : DocMoney(d, a) = 0
          /\ y \in A =>
               /\ DocMoney(d, y) \in Int
               /\ DocMoney(d, y)
                    = IF d \in MoneyRowsOf(s) \/ d \in DepositsOf(s) THEN Flow(d) ELSE 0
          /\ d \in MoneyRowsOf(s) \/ d \in DepositsOf(s) => y \in A
      BY LandedAt
    <3> HIDE DEF A, y
    <3> QED
      BY <3>1 DEF ShopMoney
  <2> HIDE DEF g, y, row, A
  <2>2. SumFunctionOnSet(g, A) = IF y \in A THEN g[y] ELSE 0
    BY <1>3, <2>1, SumPoint
  <2> QED
    BY <2>1, <2>2 DEF g
<1>8. \A a \in A : other[a] \in Int /\ col[a] \in Int /\ all[a] = other[a] + col[a]
  <2>1. \A a \in AccountIds : /\ OtherMoney(a) \in Int /\ Tot(DocColumn(a)) \in Int
                               /\ accountBalance[a] = OtherMoney(a) + Tot(DocColumn(a))
    BY <1>1, OtherMoneyIs, BalanceIs
  <2> HIDE DEF A
  <2> QED
    BY <1>2, <2>1
<1>9. Sum(OtherMoney, A) = SumFunctionOnSet(other, A)
  BY DEF Sum
<1> HIDE DEF m, n, row, col, all, other
<1>10. SumFunctionOnSet(row, Docs) = SumFunctionOnSet(col, A)
  <2> HIDE DEF A
  <2> QED
    BY <1>3, <1>5, <1>6, <1>7, SumTable
<1>11. /\ SumFunctionOnSet(all, A) = SumFunctionOnSet(other, A) + SumFunctionOnSet(col, A)
       /\ SumFunctionOnSet(other, A) \in Int
  <2> HIDE DEF A
  <2> QED
    BY <1>3, <1>8, SumPlus, SumInt
<1> QED
  BY <1>4, <1>9, <1>10, <1>11 DEF Tot, row

LEMMA ShopCash ==
  ASSUME IInv, NEW s \in Shops
  PROVE  CashFlow(s).totalIn - CashFlow(s).totalOut + Sum(Flow, DepositsOf(s))
           = Tot(ShopMoney(s))
<1> DEFINE rows == {d \in PaymentRows(s) : docs[d].method # "CHEQUE"}
           I == {d \in rows : Inbound(docs[d].type)}
           O == {d \in rows : ~Inbound(docs[d].type)}
           D == DepositsOf(s)
           c == ShopMoney(s)
<1>1. TypeOK /\ s # Wide
  BY NoneAssumption DEF IInv, BooksInv, CoreInv
<1>2. CashFlow(s).totalIn = Sum(Flow, I) /\ CashFlow(s).totalOut = -Sum(Flow, O)
  BY DEF CashFlow
<1>3. I \in SUBSET Docs /\ O \in SUBSET Docs /\ D \in SUBSET Docs
  BY DEF PaymentRows, DepositsOf
<1>4. ASSUME NEW d \in Docs
      PROVE  /\ d \in MoneyRowsOf(s) <=> d \in I \/ d \in O
             /\ d \in I => d \notin O
             /\ d \in MoneyRowsOf(s) => d \notin D
  <2>1. docs[d].method \in Kinds \cup {"CHEQUE"}
    BY <1>1 DEF TypeOK, Doc, Methods
  <2>2. d \in rows <=> InForce(d) /\ docs[d].own > 0 /\ docs[d].method # "CHEQUE" /\ docs[d].shop = s
    BY <1>1 DEF PaymentRows, Seen, InForce, Posted
  <2>3. d \in rows <=> d \in MoneyRowsOf(s)
    BY <2>1, <2>2, KindsAssumption DEF MoneyRowsOf, PaysInto
  <2>4. d \in MoneyRowsOf(s) => d \notin D
    BY LandedAt
  <2> HIDE DEF rows
  <2> QED
    BY <2>3, <2>4
<1> HIDE DEF I, O, D
<1>5. /\ Sum(Flow, I) = Tot(Only(Flows, I)) /\ Only(Flows, I) \in Columns
      /\ Sum(Flow, O) = Tot(Only(Flows, O)) /\ Only(Flows, O) \in Columns
      /\ Sum(Flow, D) = Tot(Only(Flows, D)) /\ Only(Flows, D) \in Columns
  BY <1>1, <1>3, SumRows
<1> DEFINE e == Plus(Only(Flows, I), Only(Flows, O))
           f == Plus(e, Only(Flows, D))
<1>6. e \in Columns /\ Tot(e) = Sum(Flow, I) + Sum(Flow, O)
  BY <1>5, TotPlus
<1>7. f \in Columns /\ Tot(f) = Tot(e) + Sum(Flow, D)
  <2> HIDE DEF e
  <2> QED
    BY <1>5, <1>6, TotPlus
<1>8. \A d \in Docs : Flow(d) \in Int
  BY <1>1, RowTypes
<1>9. c \in Columns
  BY <1>8 DEF ShopMoney, Columns
<1>10. \A d \in Docs : c[d] = f[d]
  BY <1>4, <1>8 DEF ShopMoney, Plus, Only, Flows, D
<1> HIDE DEF c, e, f
<1>11. Tot(c) = Tot(f)
  BY <1>7, <1>9, <1>10, SameColumn
<1>12. Sum(Flow, I) \in Int /\ Sum(Flow, O) \in Int /\ Sum(Flow, D) \in Int
  BY <1>5, TotInt
<1> QED
  BY <1>2, <1>6, <1>7, <1>11, <1>12 DEF c, D

(* An item is in the stock level of its shop and in no other. *)
LevelsMatch ==
    \A k \in Shops \X Items :
        stockLevel[k] = IF k[1] = Home[k[2]] THEN currentStock[k[2]] ELSE 0

(* A document moves items of its own shop. *)
LEMMA MovesAtHome ==
  ASSUME NEW u, u.item # None => Home[u.item] = u.shop, NEW t,
         t.item = u.item, t.shop = u.shop, t.type = u.type, t.moved \in Nat,
         NEW k \in Shops \X Items
  PROVE  /\ LevelEffect(t, k) = IF k[1] = Home[k[2]] THEN StockMove(t, k[2]) ELSE 0
         /\ StockMove(t, k[2]) \in Int
<1>1. k[2] \in Items /\ k[2] # None
  BY NoneAssumption
<1>2. t.item # k[2] => StockMove(t, k[2]) = 0
  BY DEF StockMove, StockEffect
<1>3. StockMove(t, k[2]) \in Int
  BY DEF StockMove, StockEffect
<1> QED
  BY <1>1, <1>2, <1>3 DEF LevelEffect

LEMMA LevelsMatchStep ==
  ASSUME BooksInv, BooksInv', LevelsMatch, BookStep
  PROVE  LevelsMatch'
<1>1. /\ RowsFollowRequests /\ RowsFollowRequests'
      /\ docs \in [Docs -> Doc] /\ docs' \in [Docs -> Doc]
      /\ counts \in [Items -> Nat] /\ currentStock \in [Items -> Int]
  BY DEF BooksInv, CoreInv, TypeOK
<1>2. CASE UNCHANGED <<docs, currentStock, stockLevel, partyBalance, miscounted>>
  BY <1>2 DEF LevelsMatch
<1>3. ASSUME NEW t, NEW invert \in BOOLEAN, PostStockAndParty(t, invert),
             \A k \in Shops \X Items :
               /\ LevelEffect(t, k) = IF k[1] = Home[k[2]] THEN StockMove(t, k[2]) ELSE 0
               /\ StockMove(t, k[2]) \in Int
      PROVE  LevelsMatch'
  <2> SUFFICES ASSUME NEW k \in Shops \X Items
               PROVE  stockLevel'[k] = IF k[1] = Home[k[2]] THEN currentStock'[k[2]] ELSE 0
    BY DEF LevelsMatch
  <2>1. k[2] \in Items /\ currentStock[k[2]] \in Int
    BY <1>1
  <2>2. stockLevel[k] = IF k[1] = Home[k[2]] THEN currentStock[k[2]] ELSE 0
    BY DEF LevelsMatch
  <2>3. stockLevel'[k] = stockLevel[k] + Signed(LevelEffect(t, k), invert)
    BY <1>3 DEF PostStockAndParty
  <2>4. currentStock'[k[2]] = currentStock[k[2]] + Signed(StockMove(t, k[2]), invert)
    BY <1>3, <2>1 DEF PostStockAndParty
  <2> QED
    BY <1>3, <2>1, <2>2, <2>3, <2>4 DEF Signed
<1>4. ASSUME NEW d \in Docs, Posts(d) PROVE LevelsMatch'
  <2>1. PostStockAndParty(docs'[d], FALSE) /\ docs'[d].status # "NONE"
    BY <1>4 DEF Posts
  <2>2. docs'[d].item # None => Home[docs'[d].item] = docs'[d].shop
    BY <1>1, <2>1 DEF RowsFollowRequests, FollowsRequest, Exists
  <2>3. docs'[d].moved \in Nat
    BY <1>1 DEF Doc
  <2> QED
    BY <1>3, <2>1, <2>2, <2>3, MovesAtHome
<1>5. ASSUME NEW d \in Docs, Reverses(d) PROVE LevelsMatch'
  <2> DEFINE t == Recounted(docs[d])
  <2>1. PostStockAndParty(t, TRUE) /\ Exists(d)
    BY <1>5 DEF Reverses, InForce, Live
  <2>2. docs[d].item # None => Home[docs[d].item] = docs[d].shop
    BY <1>1, <2>1 DEF RowsFollowRequests, FollowsRequest
  <2>3. /\ t.item = docs[d].item /\ t.shop = docs[d].shop /\ t.type = docs[d].type
        /\ t.moved \in Nat
    BY <1>1 DEF Recounted, Counted, Doc
  <2> HIDE DEF t
  <2> QED
    BY <1>3, <2>1, <2>2, <2>3, MovesAtHome
<1>6. ASSUME NEW d \in Docs, Rests(d) PROVE LevelsMatch'
  BY <1>6 DEF Rests, LevelsMatch
<1> QED
  BY <1>2, <1>4, <1>5, <1>6 DEF BookStep

THEOREM LevelsOfShops == ASSUME Slips = {} PROVE Spec => []LevelsMatch
<1>1. Init => LevelsMatch
  BY DEF Init, LevelsMatch, Level0
<1>2. BooksInv /\ LevelsMatch /\ [Next]_vars => LevelsMatch'
  <2> SUFFICES ASSUME BooksInv, LevelsMatch, [Next]_vars PROVE LevelsMatch'
    OBVIOUS
  <2>1. BooksInv' /\ BookStep
    BY NextBooksInv, NextInv DEF BooksInv
  <2> QED
    BY <2>1, LevelsMatchStep
<1>3. QED
  BY <1>1, <1>2, BooksSafety, PTL DEF Spec

HomeOf == [x \in Items \cup Parties |-> Home[x]]

LEMMA StockOfShops ==
  ASSUME BooksInv, LevelsMatch
  PROVE  StockSummary(Wide) = Sum(StockSummary, Shops)
<1> DEFINE f == [i \in Items |-> currentStock[i]]
           part == [s \in Shops |-> StockSummary(s)]
<1>1. StockSummary(Wide) = SumFunctionOnSet(f, Items)
  BY DEF StockSummary, Sum
<1>2. Sum(StockSummary, Shops) = SumFunctionOnSet(part, Shops)
  BY DEF Sum
<1>3. IsFiniteSet(Items) /\ IsFiniteSet(Shops)
  BY FiniteAssumption
<1>4. \A i \in Items : f[i] \in Int /\ HomeOf[i] \in Shops
  BY HomeAssumption DEF BooksInv, CoreInv, TypeOK, HomeOf
<1>5. ASSUME NEW s \in Shops
      PROVE  part[s] = SumFunctionOnSet(f, OfOwner(HomeOf, Items, s))
  <2> DEFINE R == OwnedBy(s, Items)
             g == [i \in R |-> stockLevel[<<s, i>>]]
  <2>1. s # Wide
    BY NoneAssumption
  <2>2. part[s] = SumFunctionOnSet(g, R)
    BY <2>1 DEF StockSummary, Sum
  <2>3. R = OfOwner(HomeOf, Items, s) /\ R \in SUBSET Items
    BY <2>1 DEF OwnedBy, OfOwner, HomeOf
  <2>4. \A i \in R : g[i] = f[i]
    <3>1. TAKE i \in R
    <3>2. i \in Items /\ Home[i] = s /\ <<Home[i], i>> \in Shops \X Items
      BY <2>1 DEF OwnedBy
    <3>3. stockLevel[<<Home[i], i>>] = currentStock[i]
      BY <3>2 DEF LevelsMatch
    <3> QED
      BY <3>2, <3>3
  <2>5. IsFiniteSet(R)
    <3> HIDE DEF R
    <3> QED
      BY <1>3, <2>3, FS_Subset
  <2> HIDE DEF R, f, g, part
  <2>6. SumFunctionOnSet(g, R) = SumFunctionOnSet(f, R)
    BY <2>4, <2>5, SumCongruent
  <2> QED
    BY <2>2, <2>3, <2>6
<1> HIDE DEF f, part
<1>6. SumFunctionOnSet(f, Items) = SumFunctionOnSet(part, Shops)
  BY <1>3, <1>4, <1>5, SumByOwner
<1> QED
  BY <1>1, <1>2, <1>6

LEMMA DuesOfShops ==
  ASSUME TypeOK
  PROVE  CashBankSummary(Wide).totalReceivable
           = Sum(LAMBDA s : CashBankSummary(s).totalReceivable, Shops)
<1> DEFINE f == [p \in Parties |-> IF partyBalance[p] > 0 THEN partyBalance[p] ELSE 0]
           part == [s \in Shops |-> CashBankSummary(s).totalReceivable]
           Of(s) == SumFunctionOnSet(
                      [p \in OwnedBy(s, Parties) |-> IF partyBalance[p] > 0
                                                     THEN partyBalance[p] ELSE 0],
                      OwnedBy(s, Parties))
<1>1. \A s : CashBankSummary(s).totalReceivable = Of(s)
  BY DEF CashBankSummary, Sum
<1>2. CashBankSummary(Wide).totalReceivable = SumFunctionOnSet(f, Parties)
  <2>1. OwnedBy(Wide, Parties) = Parties
    BY DEF OwnedBy
  <2> QED
    BY <1>1, <2>1
<1>3. Sum(LAMBDA s : CashBankSummary(s).totalReceivable, Shops) = SumFunctionOnSet(part, Shops)
  BY DEF Sum
<1>4. IsFiniteSet(Parties) /\ IsFiniteSet(Shops)
  BY FiniteAssumption
<1>5. \A p \in Parties : f[p] \in Int /\ HomeOf[p] \in Shops
  BY HomeAssumption DEF TypeOK, HomeOf
<1>6. ASSUME NEW s \in Shops
      PROVE  part[s] = SumFunctionOnSet(f, OfOwner(HomeOf, Parties, s))
  <2> DEFINE R == OwnedBy(s, Parties)
             g == [p \in R |-> IF partyBalance[p] > 0 THEN partyBalance[p] ELSE 0]
  <2>1. s # Wide
    BY NoneAssumption
  <2>2. part[s] = SumFunctionOnSet(g, R)
    BY <1>1
  <2>3. R = OfOwner(HomeOf, Parties, s) /\ R \in SUBSET Parties
    BY <2>1 DEF OwnedBy, OfOwner, HomeOf
  <2>4. \A p \in R : g[p] = f[p]
    BY <2>3
  <2>5. IsFiniteSet(R)
    <3> HIDE DEF R
    <3> QED
      BY <1>4, <2>3, FS_Subset
  <2> HIDE DEF R, f, g, part
  <2>6. SumFunctionOnSet(g, R) = SumFunctionOnSet(f, R)
    BY <2>4, <2>5, SumCongruent
  <2> QED
    BY <2>2, <2>3, <2>6
<1> HIDE DEF f, part
<1>7. SumFunctionOnSet(f, Parties) = SumFunctionOnSet(part, Shops)
  BY <1>4, <1>5, <1>6, SumByOwner
<1> QED
  BY <1>2, <1>3, <1>7

LEMMA ShopsAre == IInv /\ LevelsMatch /\ MoneyAddsUp => ShopsAddUp
<1> SUFFICES ASSUME IInv, LevelsMatch, MoneyAddsUp PROVE ShopsAddUp
  OBVIOUS
<1>1. BooksInv /\ TypeOK
  BY DEF IInv, BooksInv, CoreInv
<1>2. ASSUME NEW s \in Shops
      PROVE  CashFlow(s).totalIn - CashFlow(s).totalOut + Sum(Flow, DepositsOf(s))
             + Sum(OtherMoney, {a \in accounts : a.shop = s})
               = CashBankSummary(s).totalBalance
  <2>1. Tot(ShopMoney(s)) \in Int
    BY <1>1, RowTypes, TotInt DEF ShopMoney, Columns
  <2> QED
    BY <2>1, ShopBalance, ShopCash
<1> QED
  BY <1>1, <1>2, StockOfShops, DuesOfShops DEF ShopsAddUp, DepositsOf

(* What the shops see is the business, divided: money by the account it is *)
(* in, openings, transfers and loans with it, and stock and dues by the    *)
(* shop an item or a party belongs to.                                     *)
THEOREM ShopTotals ==
  ASSUME Slips = {}, AccountsOfTheirOwn, PicksOfTheirOwn
  PROVE  Spec => []ShopsAddUp
BY Safety, LevelsOfShops, BalancesAddUp, ShopsAre, PTL

-----------------------------------------------------------------------------
(* Dues.                                                                   *)

(* What a document has put on its party, if one is down for it. *)
Owed ==
    [d \in Docs |->
       IF InForce(d) /\ docs[d].type # "P2P_TRANSFER" /\ docs[d].party # None
       THEN PartyDelta(docs[d].type, docs[d].total, docs[d].total - docs[d].own) ELSE 0]

(* A document moves one party, or two by the same amount. *)
LEMMA OwedIs ==
  ASSUME CoreInv, NEW d \in Docs,
         NEW g, \A p \in Parties : g[p] = PartyEntries[d][p]
  PROVE  SumFunctionOnSet(g, Parties) = Owed[d]
<1> DEFINE t == docs[d]
           n == PartyDelta(t.type, t.total, t.total - t.own)
<1>1. t \in Doc
  BY DEF CoreInv, TypeOK
<1>2. /\ t.party \in Parties \cup {None} /\ t.to \in Parties \cup {None}
      /\ t.total \in Nat /\ t.own \in Nat
  BY <1>1 DEF Doc
<1>3. IsFiniteSet(Parties)
  BY FiniteAssumption
<1>4. \A p \in Parties : g[p] = IF InForce(d) THEN PartyEffect(t, p) ELSE 0
  BY DEF PartyEntries
<1>5. CASE ~InForce(d)
  <2>1. \A p \in Parties : g[p] = 0
    BY <1>4, <1>5
  <2>2. SumFunctionOnSet(g, Parties) = 0
    BY <1>3, <2>1, SumZero
  <2> QED
    BY <1>5, <2>2 DEF Owed
<1>6. CASE InForce(d) /\ t.type # "P2P_TRANSFER"
  <2>1. n \in Int
    BY <1>2 DEF PartyDelta
  <2> HIDE DEF n
  <2>2. \A p \in Parties : g[p] = IF t.party = p THEN n ELSE 0
    BY <1>4, <1>6 DEF PartyEffect, n
  <2>3. /\ \A p \in Parties \ {t.party} : g[p] = 0
        /\ t.party \in Parties => g[t.party] \in Int /\ g[t.party] = n
    BY <2>1, <2>2
  <2>4. SumFunctionOnSet(g, Parties) = IF t.party \in Parties THEN g[t.party] ELSE 0
    BY <1>3, <2>3, SumPoint
  <2>5. Owed[d] = IF t.party # None THEN n ELSE 0
    BY <1>6 DEF Owed, n
  <2> QED
    BY <1>2, <2>3, <2>4, <2>5, NoneAssumption
<1>7. CASE InForce(d) /\ t.type = "P2P_TRANSFER"
  <2> DEFINE h == [p \in Parties |-> IF t.party # None /\ t.to = p THEN t.total ELSE 0]
             k == [p \in Parties |-> IF t.party = p /\ t.to # None THEN t.total ELSE 0]
  <2>1. /\ \A p \in Parties \ {t.to} : h[p] = 0
        /\ t.to \in Parties => h[t.to] \in Int
        /\ \A p \in Parties \ {t.party} : k[p] = 0
        /\ t.party \in Parties => k[t.party] \in Int
        /\ t.to \in Parties => h[t.to] = IF t.party # None THEN t.total ELSE 0
        /\ t.party \in Parties => k[t.party] = IF t.to # None THEN t.total ELSE 0
    BY <1>2
  <2>2. \A p \in Parties : h[p] \in Int /\ k[p] \in Int /\ g[p] = h[p] - k[p]
    BY <1>2, <1>4, <1>7 DEF PartyEffect
  <2> HIDE DEF h, k
  <2>3. SumFunctionOnSet(h, Parties) = IF t.to \in Parties THEN h[t.to] ELSE 0
    BY <1>3, <2>1, SumPoint
  <2>4. SumFunctionOnSet(k, Parties) = IF t.party \in Parties THEN k[t.party] ELSE 0
    BY <1>3, <2>1, SumPoint
  <2>5. SumFunctionOnSet(g, Parties) = SumFunctionOnSet(h, Parties) - SumFunctionOnSet(k, Parties)
    BY <1>3, <2>2, SumMinus
  <2>6. SumFunctionOnSet(h, Parties) = SumFunctionOnSet(k, Parties)
    BY <1>2, <2>1, <2>3, <2>4, NoneAssumption
  <2>7. SumFunctionOnSet(k, Parties) \in Int
    BY <1>3, <2>2, SumInt
  <2> QED
    BY <1>7, <2>5, <2>6, <2>7 DEF Owed
<1> QED
  BY <1>5, <1>6, <1>7

LEMMA OwedType ==
  ASSUME TypeOK
  PROVE  Owed \in Columns
BY DEF TypeOK, Doc, Owed, PartyDelta, Columns

(* Receivables less payables are the balances of the parties, and those    *)
(* are what the documents have put on them.                                *)
LEMMA NetIs ==
  ASSUME CoreInv, PartiesAddUp
  PROVE  CashBankSummary(Wide).totalReceivable - CashBankSummary(Wide).totalPayable = Tot(Owed)
<1> DEFINE pos == [p \in Parties |-> IF partyBalance[p] > 0 THEN partyBalance[p] ELSE 0]
           neg == [p \in Parties |-> IF partyBalance[p] < 0 THEN -partyBalance[p] ELSE 0]
           col == [p \in Parties |-> partyBalance[p]]
           m == [d \in Docs |-> [p \in Parties |-> PartyEntries[d][p]]]
           n == [p \in Parties |-> ColumnOf(Docs, PartyEntries, p)]
<1>1. TypeOK /\ PartyEntries \in Entries(Docs, Parties)
  BY EntryTypes DEF CoreInv
<1>2. IsFiniteSet(Docs) /\ IsFiniteSet(Parties)
  BY FiniteAssumption
<1>3. /\ CashBankSummary(Wide).totalReceivable = SumFunctionOnSet(pos, Parties)
      /\ CashBankSummary(Wide).totalPayable = SumFunctionOnSet(neg, Parties)
  <2>1. OwnedBy(Wide, Parties) = Parties
    BY DEF OwnedBy
  <2>2. /\ CashBankSummary(Wide).totalReceivable
             = SumFunctionOnSet(
                 [p \in OwnedBy(Wide, Parties) |-> IF partyBalance[p] > 0 THEN partyBalance[p] ELSE 0],
                 OwnedBy(Wide, Parties))
        /\ CashBankSummary(Wide).totalPayable
             = SumFunctionOnSet(
                 [p \in OwnedBy(Wide, Parties) |-> IF partyBalance[p] < 0 THEN -partyBalance[p] ELSE 0],
                 OwnedBy(Wide, Parties))
    BY DEF CashBankSummary, Sum
  <2> QED
    BY <2>1, <2>2
<1>4. \A p \in Parties : pos[p] \in Int /\ neg[p] \in Int /\ col[p] = pos[p] - neg[p]
  BY <1>1 DEF TypeOK
<1>5. Transposed(m, n, Docs, Parties)
  BY <1>1 DEF Transposed, Entries, ColumnOf
<1>6. AddsUp(Owed, m, Docs, Parties)
  <2> SUFFICES ASSUME NEW d \in Docs PROVE Owed[d] = SumFunctionOnSet(m[d], Parties)
    BY DEF AddsUp
  <2> DEFINE g == m[d]
  <2>1. \A p \in Parties : g[p] = PartyEntries[d][p]
    OBVIOUS
  <2> HIDE DEF g
  <2>2. SumFunctionOnSet(g, Parties) = Owed[d]
    BY <2>1, OwedIs
  <2> QED
    BY <2>2 DEF g
<1>7. AddsUp(col, n, Parties, Docs)
  <2> SUFFICES ASSUME NEW p \in Parties
               PROVE  partyBalance[p] = SumFunctionOnSet(ColumnOf(Docs, PartyEntries, p), Docs)
    BY DEF AddsUp
  <2> DEFINE f == ColumnOf(Docs, PartyEntries, p)
  <2>1. f \in Columns
    BY <1>1 DEF Entries, ColumnOf, Columns
  <2>2. partyBalance[p] = 0 + Tot(f)
    BY DEF PartiesAddUp, Agree, Tot
  <2> HIDE DEF f
  <2>3. Tot(f) \in Int
    BY <2>1, TotInt
  <2> QED
    BY <2>2, <2>3 DEF Tot, f
<1> HIDE DEF pos, neg, col, m, n
<1>8. SumFunctionOnSet(col, Parties) = SumFunctionOnSet(pos, Parties) - SumFunctionOnSet(neg, Parties)
  BY <1>2, <1>4, SumMinus
<1>9. SumFunctionOnSet(Owed, Docs) = SumFunctionOnSet(col, Parties)
  BY <1>2, <1>5, <1>6, <1>7, SumTable
<1> QED
  BY <1>3, <1>8, <1>9 DEF Tot

AllocatedBy(p) == Sum(LAMBDA e : alloc[p][e], Docs)

(* What payments of a type have not settled. *)
Loose(type) == Sum(LAMBDA p : Total(p) - AllocatedBy(p), TxnWhere({type}, Wide))

LEMMA SettlingIs ==
  ASSUME BooksInv, NEW type \in PaymentTypes, NEW p \in LiveDocs
  PROVE  /\ p \in TxnWhere({type}, Wide) => AllocatedBy(p) = Settling(p, {SettledBy(type)})
         /\ p \notin TxnWhere({type}, Wide) => Settling(p, {SettledBy(type)}) = 0
         /\ Settling(p, {SettledBy(type)}) \in Int
<1> DEFINE R == TxnWhere({type}, Wide)
           f == [e \in Docs |-> alloc[p][e]]
           g == [e \in Docs |-> IF docs[e].type \in {SettledBy(type)} THEN alloc[p][e] ELSE 0]
<1>1. /\ TypeOK /\ RowsWellFormed /\ AllocationsMatch
      /\ p \in Docs /\ Live(p) /\ \A e \in Docs : alloc[p][e] \in Nat
  BY DEF BooksInv, CoreInv, TypeOK, LiveDocs
<1>2. IsFiniteSet(Docs)
  BY FiniteAssumption
<1>3. AllocatedBy(p) = SumFunctionOnSet(f, Docs)
      /\ Settling(p, {SettledBy(type)}) = SumFunctionOnSet(g, Docs)
  BY DEF AllocatedBy, Settling, Sum
<1>4. \A e \in Docs : g[e] \in Int
  BY <1>1
<1>5. ASSUME p \in R PROVE AllocatedBy(p) = Settling(p, {SettledBy(type)})
  <2>1. docs[p].type = type
    BY <1>5 DEF TxnWhere
  <2>2. \A e \in Docs : f[e] = g[e]
    BY <1>1, <2>1 DEF AllocationsMatch
  <2> HIDE DEF f, g
  <2> QED
    BY <1>2, <1>3, <2>2, SumCongruent
<1>6. ASSUME p \notin R PROVE Settling(p, {SettledBy(type)}) = 0
  <2>1. docs[p].type = type => docs[p].status = "HELD"
    BY <1>1, <1>6 DEF TxnWhere, Seen
  <2>2. docs[p].type # type
    BY <1>1, <2>1 DEF RowsWellFormed, PaymentTypes
  <2>3. docs[p].type \in PaymentTypes => SettledBy(docs[p].type) # SettledBy(type)
    BY <2>2 DEF PaymentTypes, SettledBy
  <2>4. \A e \in Docs : g[e] = 0
    BY <1>1, <2>3 DEF AllocationsMatch
  <2> HIDE DEF g
  <2> QED
    BY <1>2, <1>3, <2>4, SumZero
<1> HIDE DEF f, g, R
<1>7. Settling(p, {SettledBy(type)}) \in Int
  BY <1>2, <1>3, <1>4, SumInt
<1> QED
  BY <1>5, <1>6, <1>7 DEF R

LEMMA LooseIs ==
  ASSUME BooksInv, NEW type \in PaymentTypes
  PROVE  Loose(type) = Tot(Only(Totals, TxnWhere({type}, Wide)))
                       - Tot(SettledParts({SettledBy(type)}))
<1> DEFINE R == TxnWhere({type}, Wide)
           b == {SettledBy(type)}
           t == [p \in R |-> Total(p)]
           h == [p \in R |-> AllocatedBy(p)]
           f == [p \in R |-> Total(p) - AllocatedBy(p)]
           row == [p \in LiveDocs |-> Settling(p, b)]
<1>1. TypeOK /\ R \in SUBSET LiveDocs /\ R \in SUBSET Docs /\ LiveDocs \in SUBSET Docs
  BY DEF BooksInv, CoreInv, TxnWhere, LiveDocs
<1>2. IsFiniteSet(Docs) /\ IsFiniteSet(R) /\ IsFiniteSet(LiveDocs)
  <2> HIDE DEF R
  <2> QED
    BY <1>1, FiniteAssumption, FS_Subset
<1>3. /\ Loose(type) = SumFunctionOnSet(f, R)
      /\ Sum(Total, R) = SumFunctionOnSet(t, R)
  BY DEF Loose, Sum
<1>4. /\ \A p \in R : h[p] = row[p]
      /\ \A p \in LiveDocs \ R : row[p] = 0
      /\ \A p \in LiveDocs : row[p] \in Int
  <2>1. \A p \in LiveDocs : /\ p \in R => AllocatedBy(p) = Settling(p, b)
                            /\ p \notin R => Settling(p, b) = 0
                            /\ Settling(p, b) \in Int
    BY SettlingIs
  <2> HIDE DEF R, b
  <2> QED
    BY <1>1, <2>1
<1>5. \A p \in R : t[p] \in Int /\ h[p] \in Int /\ f[p] = t[p] - h[p]
  <2>1. \A p \in R : Total(p) \in Int
    BY <1>1, RowTypes
  <2>2. \A p \in R : h[p] \in Int
    BY <1>1, <1>4
  <2> HIDE DEF R
  <2> QED
    BY <2>1, <2>2
<1>6. \A p \in LiveDocs : row[p] = Settling(p, b)
  OBVIOUS
<1> HIDE DEF R, b, t, h, f, row
<1>7. SumFunctionOnSet(f, R) = SumFunctionOnSet(t, R) - SumFunctionOnSet(h, R)
  BY <1>2, <1>5, SumMinus
<1>8. SumFunctionOnSet(h, R) = SumFunctionOnSet(row, LiveDocs)
  BY <1>1, <1>2, <1>4, SumExtend
<1>9. SumFunctionOnSet(row, LiveDocs) = Tot(SettledParts(b))
  BY <1>6, SettledBothWays
<1>10. Sum(Total, R) = Tot(Only(Totals, R))
  BY <1>1, SumRows
<1> QED
  BY <1>3, <1>7, <1>8, <1>9, <1>10 DEF R, b

(* A bill nobody is down for is settled by no payment. *)
LEMMA UnnamedUnsettled ==
  ASSUME BooksInv, NEW e \in Docs, docs[e].party = None
  PROVE  SettledPart(e) = 0
<1>1. alloc \in [Docs -> [Docs -> Nat]] /\ LiveDocs \in SUBSET Docs
  BY DEF BooksInv, CoreInv, TypeOK, LiveDocs
<1>2. ASSUME NEW p \in LiveDocs PROVE alloc[p][e] = 0
  <2>1. p \in Docs /\ Exists(p) /\ alloc[p][e] \in Nat
    BY <1>1 DEF LiveDocs, Live
  <2>2. docs[p].type \in PaymentTypes => docs[p].party # None
    BY <2>1 DEF BooksInv, RowsFollowRequests, FollowsRequest
  <2> QED
    BY <2>1, <2>2 DEF BooksInv, AllocationsMatch
<1> QED
  BY <1>1, <1>2, SettledNothing DEF SettledPart

(* What nobody is down for. *)
Claim(d) == IF docs[d].type \in {"SALE_INVOICE", "DEBIT_NOTE"} THEN Due(d) ELSE -Due(d)

Claims == [d \in Docs |-> Claim(d)]

Unnamed == {d \in TxnWhere(Sales \cup Purchases, Wide) : docs[d].party = None}

Bills(type) == TxnWhere({type}, Wide)

LEMMA BillIs ==
  ASSUME NEW d \in Docs
  PROVE  \A type : d \in Bills(type) <=> InForce(d) /\ docs[d].type = type
BY DEF Bills, TxnWhere, Seen, InForce, Posted

LEMMA UnnamedIs ==
  ASSUME TypeOK
  PROVE  /\ UnnamedDues = Tot(Only(Claims, Unnamed)) /\ Only(Claims, Unnamed) \in Columns
         /\ \A d \in Docs : d \in Unnamed <=> /\ InForce(d) /\ docs[d].party = None
                                              /\ docs[d].type \in Sales \cup Purchases
<1> DEFINE f == [d \in Unnamed |-> Claim(d)]
<1>1. UnnamedDues = SumFunctionOnSet(f, Unnamed)
  BY DEF UnnamedDues, Claim, Unnamed, Sum
<1>2. Unnamed \in SUBSET Docs
  BY DEF Unnamed, TxnWhere
<1>3. \A d \in Unnamed : Claims[d] \in Int /\ f[d] = Claims[d]
  BY <1>2, RowTypes DEF Claims, Claim
<1>4. \A d \in Docs : d \in Unnamed <=> /\ InForce(d) /\ docs[d].party = None
                                        /\ docs[d].type \in Sales \cup Purchases
  BY DEF Unnamed, TxnWhere, Seen, InForce, Posted
<1> HIDE DEF f
<1> QED
  BY <1>1, <1>2, <1>3, <1>4, SumOnly, OnlyColumn

(* Document by document: what a party owes is what is due on the bill,     *)
(* turned round for a note or a purchase, or what was paid.                *)
LEMMA OwedRow ==
  ASSUME BooksInv, NEW d \in Docs
  PROVE  LET D(type) == Only(Dues, Bills(type))[d]
             P(type) == Only(Totals, Bills(type))[d]
             S(type) == SettledParts({type})[d]
         IN  Owed[d] = D("SALE_INVOICE") + D("DEBIT_NOTE") - D("PURCHASE_BILL") - D("CREDIT_NOTE")
                       - (P("PAYMENT_IN") - S("SALE_INVOICE"))
                       + (P("PAYMENT_OUT") - S("PURCHASE_BILL"))
                       - Only(Claims, Unnamed)[d]
<1> DEFINE t == docs[d]
           D(type) == Only(Dues, Bills(type))[d]
           P(type) == Only(Totals, Bills(type))[d]
           S(type) == SettledParts({type})[d]
           C == Only(Claims, Unnamed)[d]
           Types == {"SALE_INVOICE", "DEBIT_NOTE", "PURCHASE_BILL", "CREDIT_NOTE",
                     "PAYMENT_IN", "PAYMENT_OUT"}
           s == SettledPart(d)
<1>1. TypeOK /\ t \in Doc /\ RowsFollowRequests
  BY DEF BooksInv, CoreInv, TypeOK
<1>2. t.total \in Nat /\ t.own \in Nat /\ t.paid \in Int /\ t.type \in TxnTypes
  BY <1>1 DEF Doc
<1>3. /\ s \in Nat
      /\ ~(InForce(d) /\ t.type \in {"SALE_INVOICE", "PURCHASE_BILL"}) => s = 0
      /\ InForce(d) => t.paid = s + t.own
      /\ t.party = None => s = 0
  BY SettledPartIs, UnnamedUnsettled DEF InForce, Live
<1>4. \A type : /\ D(type) = IF InForce(d) /\ t.type = type THEN t.total - t.paid ELSE 0
                /\ P(type) = IF InForce(d) /\ t.type = type THEN t.total ELSE 0
                /\ S(type) = IF t.type = type THEN s ELSE 0
  BY BillIs DEF Only, Dues, Totals, Due, Total, SettledParts
<1>5. C = IF InForce(d) /\ t.party = None /\ t.type \in Sales \cup Purchases THEN Claim(d) ELSE 0
  BY <1>1, UnnamedIs DEF Only, Claims
<1>6. InForce(d) /\ t.type \in PaymentTypes => t.party # None
  BY <1>1 DEF RowsFollowRequests, FollowsRequest, InForce, Live
<1>7. Claim(d) = IF t.type \in {"SALE_INVOICE", "DEBIT_NOTE"} THEN t.total - t.paid
                 ELSE -(t.total - t.paid)
  BY DEF Claim, Due
<1>8. Sales \cup Purchases = {"SALE_INVOICE", "DEBIT_NOTE", "PURCHASE_BILL", "CREDIT_NOTE"}
  BY DEF Sales, Purchases
<1>9. Owed[d] = IF InForce(d) /\ t.type # "P2P_TRANSFER" /\ t.party # None
                THEN PartyDelta(t.type, t.total, t.total - t.own) ELSE 0
  BY DEF Owed
<1> HIDE DEF D, P, S, C, s
<1> SUFFICES Owed[d] = D("SALE_INVOICE") + D("DEBIT_NOTE") - D("PURCHASE_BILL") - D("CREDIT_NOTE")
                       - (P("PAYMENT_IN") - S("SALE_INVOICE"))
                       + (P("PAYMENT_OUT") - S("PURCHASE_BILL")) - C
  BY DEF D, P, S, C
<1>10. CASE ~InForce(d)
  BY <1>3, <1>4, <1>5, <1>9, <1>10
<1>11. CASE InForce(d) /\ t.type = "SALE_INVOICE"
  BY <1>2, <1>3, <1>4, <1>5, <1>7, <1>8, <1>9, <1>11 DEF PartyDelta
<1>12. CASE InForce(d) /\ t.type = "DEBIT_NOTE"
  BY <1>2, <1>3, <1>4, <1>5, <1>7, <1>8, <1>9, <1>12 DEF PartyDelta
<1>13. CASE InForce(d) /\ t.type = "PURCHASE_BILL"
  <2>1. /\ D("SALE_INVOICE") = 0 /\ D("DEBIT_NOTE") = 0 /\ D("CREDIT_NOTE") = 0
        /\ P("PAYMENT_IN") = 0 /\ P("PAYMENT_OUT") = 0 /\ S("SALE_INVOICE") = 0
        /\ D("PURCHASE_BILL") = t.total - t.paid /\ S("PURCHASE_BILL") = s
    BY <1>3, <1>4, <1>13
  <2>2. t.paid = s + t.own
    BY <1>3, <1>13
  <2>3. Owed[d] = IF t.party # None THEN t.own - t.total ELSE 0
    BY <1>2, <1>9, <1>13 DEF PartyDelta
  <2>4. C = IF t.party = None THEN t.paid - t.total ELSE 0
    BY <1>2, <1>5, <1>7, <1>8, <1>13
  <2>5. CASE t.party = None
    <3>1. s = 0 /\ Owed[d] = 0 /\ C = t.paid - t.total
      BY <1>3, <2>3, <2>4, <2>5
    <3> QED
      BY <1>2, <2>1, <2>2, <3>1
  <2>6. CASE t.party # None
    <3>1. C = 0 /\ Owed[d] = t.own - t.total /\ s \in Int
      BY <1>3, <2>3, <2>4, <2>6
    <3> QED
      BY <1>2, <2>1, <2>2, <3>1
  <2> QED
    BY <2>5, <2>6
<1>14. CASE InForce(d) /\ t.type = "CREDIT_NOTE"
  <2>1. /\ D("SALE_INVOICE") = 0 /\ D("DEBIT_NOTE") = 0 /\ D("PURCHASE_BILL") = 0
        /\ P("PAYMENT_IN") = 0 /\ P("PAYMENT_OUT") = 0 /\ S("SALE_INVOICE") = 0
        /\ D("CREDIT_NOTE") = t.total - t.paid /\ S("PURCHASE_BILL") = s
    BY <1>3, <1>4, <1>14
  <2>2. t.paid = s + t.own
    BY <1>3, <1>14
  <2>3. Owed[d] = IF t.party # None THEN t.own - t.total ELSE 0
    BY <1>2, <1>9, <1>14 DEF PartyDelta
  <2>4. C = IF t.party = None THEN t.paid - t.total ELSE 0
    BY <1>2, <1>5, <1>7, <1>8, <1>14
  <2>5. CASE t.party = None
    <3>1. s = 0 /\ Owed[d] = 0 /\ C = t.paid - t.total
      BY <1>3, <2>3, <2>4, <2>5
    <3> QED
      BY <1>2, <2>1, <2>2, <3>1
  <2>6. CASE t.party # None
    <3>1. C = 0 /\ Owed[d] = t.own - t.total /\ s \in Int
      BY <1>3, <2>3, <2>4, <2>6
    <3> QED
      BY <1>2, <2>1, <2>2, <3>1
  <2> QED
    BY <2>5, <2>6
<1>15. CASE InForce(d) /\ t.type = "PAYMENT_IN"
  BY <1>2, <1>3, <1>4, <1>5, <1>6, <1>8, <1>9, <1>15 DEF PartyDelta, PaymentTypes
<1>16. CASE InForce(d) /\ t.type = "PAYMENT_OUT"
  BY <1>2, <1>3, <1>4, <1>5, <1>6, <1>8, <1>9, <1>16 DEF PartyDelta, PaymentTypes
<1>17. CASE InForce(d) /\ t.type \notin Types
  BY <1>3, <1>4, <1>5, <1>8, <1>9, <1>17 DEF PartyDelta
<1> QED
  BY <1>10, <1>11, <1>12, <1>13, <1>14, <1>15, <1>16, <1>17

LEMMA DuesAre == BooksInv /\ PartiesAddUp => DuesAreExplained
<1> SUFFICES ASSUME BooksInv, PartiesAddUp PROVE DuesAreExplained
  OBVIOUS
<1> DEFINE c1 == Only(Dues, Bills("SALE_INVOICE"))
           c2 == Only(Dues, Bills("DEBIT_NOTE"))
           c3 == Only(Dues, Bills("PURCHASE_BILL"))
           c4 == Only(Dues, Bills("CREDIT_NOTE"))
           i == Only(Totals, Bills("PAYMENT_IN"))
           o == Only(Totals, Bills("PAYMENT_OUT"))
           s1 == SettledParts({"SALE_INVOICE"})
           s2 == SettledParts({"PURCHASE_BILL"})
           cl == Only(Claims, Unnamed)
<1>1. CoreInv /\ TypeOK
  BY DEF BooksInv, CoreInv
<1>2. \A type : Bills(type) \in SUBSET Docs
  BY DEF Bills, TxnWhere
<1>3. /\ Sum(Due, Bills("SALE_INVOICE")) = Tot(c1) /\ c1 \in Columns
      /\ Sum(Due, Bills("DEBIT_NOTE")) = Tot(c2) /\ c2 \in Columns
      /\ Sum(Due, Bills("PURCHASE_BILL")) = Tot(c3) /\ c3 \in Columns
      /\ Sum(Due, Bills("CREDIT_NOTE")) = Tot(c4) /\ c4 \in Columns
      /\ i \in Columns /\ o \in Columns
  BY <1>1, <1>2, SumRows
<1>4. s1 \in Columns /\ s2 \in Columns
  BY SettledPartIs DEF SettledParts, Columns
<1>5. UnnamedDues = Tot(cl) /\ cl \in Columns
  BY <1>1, UnnamedIs
<1>6. Loose("PAYMENT_IN") = Tot(i) - Tot(s1) /\ Loose("PAYMENT_OUT") = Tot(o) - Tot(s2)
  <2>1. /\ "PAYMENT_IN" \in PaymentTypes /\ "PAYMENT_OUT" \in PaymentTypes
        /\ SettledBy("PAYMENT_IN") = "SALE_INVOICE" /\ SettledBy("PAYMENT_OUT") = "PURCHASE_BILL"
    BY DEF PaymentTypes, SettledBy
  <2> QED
    BY <2>1, LooseIs DEF Bills
<1>7. CashBankSummary(Wide).totalReceivable - CashBankSummary(Wide).totalPayable = Tot(Owed)
  BY <1>1, NetIs
<1>8. \A d \in Docs :
        Owed[d] = c1[d] + c2[d] - c3[d] - c4[d] - (i[d] - s1[d]) + (o[d] - s2[d]) - cl[d]
  BY OwedRow
<1>9. Owed \in Columns
  BY <1>1, OwedType
<1> HIDE DEF c1, c2, c3, c4, i, o, s1, s2, cl
<1> DEFINE e1 == Plus(c1, c2)
           e2 == Minus(e1, c3)
           e3 == Minus(e2, c4)
           e4 == Minus(i, s1)
           e5 == Minus(e3, e4)
           e6 == Minus(o, s2)
           e7 == Plus(e5, e6)
           e8 == Minus(e7, cl)
<1>10. \A d \in Docs : Owed[d] = e8[d]
  <2>1. TAKE d \in Docs
  <2>2. /\ c1[d] \in Int /\ c2[d] \in Int /\ c3[d] \in Int /\ c4[d] \in Int
        /\ i[d] \in Int /\ o[d] \in Int /\ s1[d] \in Int /\ s2[d] \in Int /\ cl[d] \in Int
    BY <1>3, <1>4, <1>5 DEF Columns
  <2>3. /\ e1[d] = c1[d] + c2[d] /\ e2[d] = e1[d] - c3[d] /\ e3[d] = e2[d] - c4[d]
        /\ e4[d] = i[d] - s1[d] /\ e5[d] = e3[d] - e4[d] /\ e6[d] = o[d] - s2[d]
        /\ e7[d] = e5[d] + e6[d] /\ e8[d] = e7[d] - cl[d]
    BY DEF Plus, Minus
  <2> HIDE DEF e1, e2, e3, e4, e5, e6, e7, e8
  <2> QED
    BY <1>8, <2>2, <2>3
<1>11. e1 \in Columns /\ Tot(e1) = Tot(c1) + Tot(c2)
  BY <1>3, TotPlus
<1>12. e4 \in Columns /\ Tot(e4) = Tot(i) - Tot(s1)
  BY <1>3, <1>4, TotMinus
<1>13. e6 \in Columns /\ Tot(e6) = Tot(o) - Tot(s2)
  BY <1>3, <1>4, TotMinus
<1> HIDE DEF e1, e4, e6
<1>14. e2 \in Columns /\ Tot(e2) = Tot(e1) - Tot(c3)
  BY <1>3, <1>11, TotMinus
<1> HIDE DEF e2
<1>15. e3 \in Columns /\ Tot(e3) = Tot(e2) - Tot(c4)
  BY <1>3, <1>14, TotMinus
<1> HIDE DEF e3
<1>16. e5 \in Columns /\ Tot(e5) = Tot(e3) - Tot(e4)
  BY <1>12, <1>15, TotMinus
<1> HIDE DEF e5
<1>17. e7 \in Columns /\ Tot(e7) = Tot(e5) + Tot(e6)
  BY <1>13, <1>16, TotPlus
<1> HIDE DEF e7
<1>18. e8 \in Columns /\ Tot(e8) = Tot(e7) - Tot(cl)
  BY <1>5, <1>17, TotMinus
<1> HIDE DEF e8
<1>19. Tot(Owed) = Tot(e8)
  BY <1>9, <1>10, <1>18, SameColumn
<1>20. DuesAreExplained <=>
         CashBankSummary(Wide).totalReceivable - CashBankSummary(Wide).totalPayable
           = Sum(Due, Bills("SALE_INVOICE")) + Sum(Due, Bills("DEBIT_NOTE"))
             - Sum(Due, Bills("PURCHASE_BILL")) - Sum(Due, Bills("CREDIT_NOTE"))
             - Loose("PAYMENT_IN") + Loose("PAYMENT_OUT") - UnnamedDues
  BY DEF DuesAreExplained, SaleReport, PurchaseReport, Bills, Loose, AllocatedBy
<1>21. /\ Tot(c1) \in Int /\ Tot(c2) \in Int /\ Tot(c3) \in Int /\ Tot(c4) \in Int
       /\ Tot(i) \in Int /\ Tot(o) \in Int /\ Tot(s1) \in Int /\ Tot(s2) \in Int
       /\ Tot(cl) \in Int
  BY <1>3, <1>4, <1>5, TotInt
<1>22. Tot(e8) = Tot(c1) + Tot(c2) - Tot(c3) - Tot(c4) - (Tot(i) - Tot(s1))
                 + (Tot(o) - Tot(s2)) - Tot(cl)
  BY <1>11, <1>12, <1>13, <1>14, <1>15, <1>16, <1>17, <1>18, <1>21
<1> QED
  BY <1>3, <1>5, <1>6, <1>7, <1>19, <1>20, <1>21, <1>22

(* What the parties owe, less what they are owed, is what bills, notes and *)
(* payments leave open: the party list and the bill reports are two views  *)
(* of one set of books, through partial settlements, deletes and restores. *)
THEOREM DuesStory == ASSUME Slips = {} PROVE Spec => []DuesAreExplained
BY BooksSafety, TotalsAddUp, DuesAre, PTL

-----------------------------------------------------------------------------
(* Profit and capital.                                                     *)

(* What a document has put into the accounts of the business. *)
Moneys ==
    [d \in Docs |-> IF (InForce(d) /\ PaysInto(docs[d])) \/ cheques[d].status = "CLOSED"
                    THEN Flow(d) ELSE 0]

LEMMA MoneysIs ==
  ASSUME IInv, MoneyAddsUp
  PROVE  /\ CashBankSummary(Wide).totalBalance = Sum(OtherMoney, accounts) + Tot(Moneys)
         /\ Moneys \in Columns /\ Sum(OtherMoney, accounts) \in Int
<1> DEFINE A == accounts
           all == [a \in A |-> accountBalance[a]]
           other == [a \in A |-> OtherMoney(a)]
           col == [a \in A |-> Tot(DocColumn(a))]
           m == [d \in Docs |-> [a \in A |-> DocMoney(d, a)]]
           n == [a \in A |-> DocColumn(a)]
<1>1. CoreInv /\ TypeOK /\ ChequesFollowDocs /\ AccountsOfRows
  BY DEF IInv, BooksInv, CoreInv
<1>2. A \in SUBSET AccountIds
  BY <1>1 DEF TypeOK
<1>3. IsFiniteSet(A) /\ IsFiniteSet(Docs)
  BY <1>2, FiniteAccounts, FiniteAssumption, FS_Subset
<1>4. CashBankSummary(Wide).totalBalance = SumFunctionOnSet(all, A)
  <2>1. {a \in accounts : Wide = Wide \/ a.shop = Wide} = A
    OBVIOUS
  <2>2. CashBankSummary(Wide).totalBalance
          = SumFunctionOnSet([a \in {b \in accounts : Wide = Wide \/ b.shop = Wide} |-> accountBalance[a]],
                             {a \in accounts : Wide = Wide \/ a.shop = Wide})
    BY DEF CashBankSummary, Sum
  <2> QED
    BY <2>1, <2>2
<1>5. Transposed(m, n, Docs, A)
  <2>1. \A d \in Docs, a \in AccountIds : DocMoney(d, a) \in Int
    BY <1>1, EntryOf
  <2> QED
    BY <1>2, <2>1 DEF Transposed, DocColumn
<1>6. AddsUp(col, n, A, Docs)
  <2> SUFFICES ASSUME NEW a \in A
               PROVE  Tot(DocColumn(a)) = SumFunctionOnSet(DocColumn(a), Docs)
    BY DEF AddsUp
  <2> QED
    BY DEF Tot
<1>7. AddsUp(Moneys, m, Docs, A)
  <2> SUFFICES ASSUME NEW d \in Docs PROVE Moneys[d] = SumFunctionOnSet(m[d], A)
    BY DEF AddsUp
  <2> DEFINE g == m[d]
             y == Landed(d)
  <2>1. \A a \in A : DocMoney(d, a) = IF Rowed(d, a) \/ Deposited(d, a) THEN Flow(d) ELSE 0
    BY <1>1, <1>2, EntryOf
  <2>2. cheques[d].status = "CLOSED" => ~PaysInto(docs[d]) /\ cheques[d].account \in A
    BY <1>1, NoneAssumption, KindsAssumption
    DEF ChequesFollowDocs, AccountsOfRows, PaysByCheque, PaysInto
  <2>3. PaysInto(docs[d]) => docs[d].acct \in A
    BY <1>1 DEF AccountsOfRows
  <2>4. \A a \in A : Rowed(d, a) \/ Deposited(d, a) => a = y
    BY <2>2 DEF Rowed, Deposited, Landed
  <2>5. Moneys[d] = IF (InForce(d) /\ PaysInto(docs[d])) \/ cheques[d].status = "CLOSED"
                    THEN Flow(d) ELSE 0
    BY DEF Moneys
  <2>6. (InForce(d) /\ PaysInto(docs[d])) \/ cheques[d].status = "CLOSED"
          <=> y \in A /\ (Rowed(d, y) \/ Deposited(d, y))
    BY <2>2, <2>3 DEF Rowed, Deposited, Landed
  <2>7. Flow(d) \in Int
    BY <1>1, RowTypes
  <2> HIDE DEF y
  <2>8. /\ \A a \in A \ {y} : g[a] = 0
        /\ y \in A => g[y] \in Int
        /\ Moneys[d] = IF y \in A THEN g[y] ELSE 0
    BY <2>1, <2>4, <2>5, <2>6, <2>7
  <2> HIDE DEF g, A
  <2>9. SumFunctionOnSet(g, A) = IF y \in A THEN g[y] ELSE 0
    BY <1>3, <2>8, SumPoint
  <2> QED
    BY <2>8, <2>9 DEF g
<1>8. Moneys \in Columns
  <2>1. \A d \in Docs : Flow(d) \in Int
    BY <1>1, RowTypes
  <2> QED
    BY <2>1 DEF Moneys, Columns
<1>9. \A a \in A : other[a] \in Int /\ col[a] \in Int /\ all[a] = other[a] + col[a]
  BY <1>1, <1>2, OtherMoneyIs, BalanceIs
<1>10. Sum(OtherMoney, accounts) = SumFunctionOnSet(other, A)
  BY DEF Sum
<1> HIDE DEF m, n, col, all, other, A
<1>11. SumFunctionOnSet(Moneys, Docs) = SumFunctionOnSet(col, A)
  BY <1>3, <1>5, <1>6, <1>7, SumTable
<1>12. /\ SumFunctionOnSet(all, A) = SumFunctionOnSet(other, A) + SumFunctionOnSet(col, A)
       /\ SumFunctionOnSet(other, A) \in Int
  BY <1>3, <1>9, SumPlus, SumInt
<1> QED
  BY <1>4, <1>8, <1>10, <1>11, <1>12 DEF Tot

OpenCheques == {d \in Docs : cheques[d].status = "OPEN"}

LEMMA OpenChequesIs ==
  ASSUME TypeOK
  PROVE  /\ CashBankSummary(Wide).openChequesReceived - CashBankSummary(Wide).openChequesPaid
              = Tot(Only(Flows, OpenCheques))
         /\ Only(Flows, OpenCheques) \in Columns
<1> DEFINE R == OpenCheques
           in == [d \in R |-> IF Flow(d) > 0 THEN Flow(d) ELSE 0]
           out == [d \in R |-> IF Flow(d) < 0 THEN -Flow(d) ELSE 0]
           f == [d \in R |-> Flow(d)]
<1>1. R \in SUBSET Docs
  BY DEF OpenCheques
<1>2. /\ CashBankSummary(Wide).openChequesReceived = SumFunctionOnSet(in, R)
      /\ CashBankSummary(Wide).openChequesPaid = SumFunctionOnSet(out, R)
  <2> DEFINE Q == {d \in Docs : cheques[d].status = "OPEN" /\ Seen(d, Wide)}
  <2>1. Q = R
    BY DEF OpenCheques, Seen
  <2>2. /\ CashBankSummary(Wide).openChequesReceived
             = SumFunctionOnSet([d \in Q |-> IF Flow(d) > 0 THEN Flow(d) ELSE 0], Q)
        /\ CashBankSummary(Wide).openChequesPaid
             = SumFunctionOnSet([d \in Q |-> IF Flow(d) < 0 THEN -Flow(d) ELSE 0], Q)
    BY DEF CashBankSummary, Sum
  <2> HIDE DEF Q
  <2> QED
    BY <2>1, <2>2
<1>3. IsFiniteSet(R)
  BY <1>1, FiniteAssumption, FS_Subset
<1>4. \A d \in R : in[d] \in Int /\ out[d] \in Int /\ f[d] = in[d] - out[d]
  <2>1. \A d \in R : Flow(d) \in Int
    BY <1>1, RowTypes
  <2> QED
    BY <2>1
<1>5. SumFunctionOnSet(f, R) = Sum(Flow, R)
  BY DEF Sum
<1> HIDE DEF in, out, f, R
<1>6. SumFunctionOnSet(f, R) = SumFunctionOnSet(in, R) - SumFunctionOnSet(out, R)
  BY <1>3, <1>4, SumMinus
<1>7. Sum(Flow, R) = Tot(Only(Flows, R)) /\ Only(Flows, R) \in Columns
  BY <1>1, SumRows
<1> QED
  BY <1>2, <1>5, <1>6, <1>7 DEF R

(* What a document has put on the shelves, at what it costs now. *)
Shelved ==
    [d \in Docs |->
       IF ~InForce(d) THEN 0
       ELSE CASE docs[d].type \in {"SALE_INVOICE", "DEBIT_NOTE"} -> -LineCost(d)
              [] docs[d].type \in {"CREDIT_NOTE", "PURCHASE_BILL"} -> LineCost(d)
              [] OTHER -> 0]

OpeningValue == Sum(LAMBDA i : Stock0[i] * UnitCost[i], Items)

(* What the line of a document was counted for beside its quantity. *)
Strays ==
    [d \in Docs |-> UnitCost[docs[d].item]
                    * (StockMove(docs[d], docs[d].item) - StockEffect(docs[d], docs[d].item))]

Traded == TxnWhere(Sales \cup Purchases, Wide)

LEMMA ShelvedIs ==
  ASSUME CoreInv, NEW d \in Docs,
         NEW g, \A i \in Items : g[i] = StockEntries[d][i] * UnitCost[i]
  PROVE  /\ SumFunctionOnSet(g, Items) = Shelved[d] + Only(Strays, Traded)[d]
         /\ Shelved[d] \in Int /\ Only(Strays, Traded)[d] \in Int
<1> DEFINE t == docs[d]
           y == t.item
           Toward(n) == CASE t.type \in {"SALE_INVOICE", "DEBIT_NOTE"} -> -n
                          [] t.type \in {"CREDIT_NOTE", "PURCHASE_BILL"} -> n
                          [] OTHER -> 0
           k == Toward(t.moved)
           q == Toward(t.qty)
           x == Only(Strays, Traded)[d]
<1>1. t \in Doc /\ RowsWellFormed
  BY DEF CoreInv, TypeOK
<1>2. t.qty \in Nat /\ t.moved \in Nat /\ y \in Items \cup {None}
  BY <1>1 DEF Doc
<1>3. IsFiniteSet(Items) /\ \A i \in Items : UnitCost[i] \in Nat
  BY FiniteAssumption, UnitsAssumption
<1>4. k \in Int /\ q \in Int
  BY <1>2
<1>5. \A i \in Items : StockEntries[d][i] = IF InForce(d) /\ y = i THEN k ELSE 0
  BY DEF StockEntries, StockMove, StockEffect
<1>6. /\ d \in Traded <=> InForce(d) /\ t.type \in Sales \cup Purchases
      /\ StockMove(t, y) = k /\ StockEffect(t, y) = q
  BY DEF Traded, TxnWhere, Seen, InForce, Posted, StockMove, StockEffect
<1>7. t.type \notin Sales \cup Purchases => k = 0 /\ q = 0
  BY DEF Sales, Purchases
<1>8. x = IF d \in Traded THEN UnitCost[y] * (k - q) ELSE 0
  BY <1>6 DEF Only, Strays
<1>9. /\ InForce(d) /\ y = None => t.type \notin Sales \cup Purchases
      /\ None \notin Items
  BY <1>1, NoneAssumption DEF RowsWellFormed, InForce, Live, LineTypes, Sales, Purchases
<1>10. /\ ~InForce(d) => Shelved[d] = 0
       /\ InForce(d) => Shelved[d] = IF t.type \in {"SALE_INVOICE", "DEBIT_NOTE"} THEN -LineCost(d)
                                     ELSE IF t.type \in {"CREDIT_NOTE", "PURCHASE_BILL"}
                                     THEN LineCost(d) ELSE 0
  BY DEF Shelved
<1>11. LineCost(d) = t.qty * UnitCost[y]
  BY DEF LineCost
<1>12. CASE InForce(d) /\ y \in Items
  <2> DEFINE c == UnitCost[y]
  <2>1. c \in Nat
    BY <1>3, <1>12
  <2>2. Shelved[d] = q * c
    <3>1. /\ (-t.qty) * c = -(t.qty * c) /\ 0 * c = 0
      BY <1>2, <2>1
    <3> QED
      BY <1>10, <1>11, <1>12, <3>1
  <2>3. x = c * (k - q)
    <3>1. c * (0 - 0) = 0
      BY <2>1
    <3> QED
      BY <1>6, <1>7, <1>8, <1>12, <3>1
  <2>4. \A i \in Items : g[i] = IF i = y THEN k * c ELSE 0
    <3>1. TAKE i \in Items
    <3>2. 0 * UnitCost[i] = 0
      BY <1>3
    <3> HIDE DEF k
    <3> QED
      BY <1>5, <1>12, <3>2
  <2> HIDE DEF k, q, c, x
  <2>5. k * c \in Int /\ q * c \in Int /\ c * (k - q) \in Int /\ k * c = q * c + c * (k - q)
    BY <1>4, <2>1
  <2>6. /\ \A i \in Items \ {y} : g[i] = 0
        /\ y \in Items => g[y] \in Int
    BY <2>4, <2>5
  <2>7. SumFunctionOnSet(g, Items) = g[y]
    BY <1>3, <1>12, <2>6, SumPoint
  <2> QED
    BY <1>12, <2>2, <2>3, <2>4, <2>5, <2>7 DEF x
<1>13. CASE ~(InForce(d) /\ y \in Items)
  <2>1. \A i \in Items : g[i] = 0
    <3>1. TAKE i \in Items
    <3>2. 0 * UnitCost[i] = 0
      BY <1>3
    <3> HIDE DEF k
    <3> QED
      BY <1>5, <1>13, <3>2
  <2>2. SumFunctionOnSet(g, Items) = 0
    BY <1>3, <2>1, SumZero
  <2>3. x = 0 /\ Shelved[d] = 0
    BY <1>2, <1>6, <1>8, <1>9, <1>10, <1>13 DEF Sales, Purchases
  <2> QED
    BY <2>2, <2>3
<1> QED
  BY <1>12, <1>13

LEMMA MiscountsAre ==
  ASSUME CoreInv
  PROVE  Miscounts = Tot(Only(Strays, Traded)) /\ Only(Strays, Traded) \in Columns
<1> DEFINE f == [d \in Traded |-> Strays[d]]
<1>1. Traded \in SUBSET Docs
  BY DEF Traded, TxnWhere
<1>2. Only(Strays, Traded) \in Columns
  <2> SUFFICES ASSUME NEW d \in Docs PROVE Only(Strays, Traded)[d] \in Int
    BY DEF Only, Columns
  <2> DEFINE g == [i \in Items |-> StockEntries[d][i] * UnitCost[i]]
  <2>1. \A i \in Items : g[i] = StockEntries[d][i] * UnitCost[i]
    OBVIOUS
  <2> HIDE DEF g
  <2> QED
    BY <2>1, ShelvedIs
<1>3. \A d \in Traded : Strays[d] \in Int /\ f[d] = Strays[d]
  BY <1>1, <1>2 DEF Only, Columns
<1>4. Miscounts = SumFunctionOnSet(f, Traded)
  BY <1>1 DEF Miscounts, Sum, Traded, Strays
<1> HIDE DEF f
<1> QED
  BY <1>1, <1>2, <1>3, <1>4, SumOnly

LEMMA ValuesInt ==
  ASSUME CoreInv
  PROVE  StockValue \in Int /\ OpeningValue \in Int
<1> DEFINE v == [i \in Items |-> currentStock[i] * UnitCost[i]]
           o == [i \in Items |-> Stock0[i] * UnitCost[i]]
<1>1. StockValue = SumFunctionOnSet(v, Items) /\ OpeningValue = SumFunctionOnSet(o, Items)
  BY DEF StockValue, OpeningValue, Sum
<1>2. \A i \in Items : UnitCost[i] \in Int /\ Stock0[i] \in Int /\ currentStock[i] \in Int
  BY ItemsAssumption, UnitsAssumption DEF CoreInv, TypeOK
<1>3. \A i \in Items : v[i] \in Int /\ o[i] \in Int
  BY <1>2
<1> HIDE DEF v, o
<1> QED
  BY <1>1, <1>3, FiniteAssumption, SumInt

LEMMA LoansInt ==
  ASSUME TypeOK
  PROVE  LoanBalance \in Int
<1> DEFINE Of(kind) == [m \in RowsOf({kind}) |-> transfers[m].amount]
<1>1. LoanBalance = SumFunctionOnSet(Of("LOAN"), RowsOf({"LOAN"}))
                    - SumFunctionOnSet(Of("REPAYMENT"), RowsOf({"REPAYMENT"}))
  BY DEF LoanBalance, Sum
<1>2. \A m \in Transfers : transfers[m].amount \in Int
  BY TransfersAssumption DEF TypeOK, Transfer, NoTransfer
<1>3. ASSUME NEW kind
      PROVE  SumFunctionOnSet(Of(kind), RowsOf({kind})) \in Int
  <2> DEFINE R == RowsOf({kind})
             f == Of(kind)
  <2>1. R \subseteq Transfers /\ IsFiniteSet(R)
    BY FiniteAssumption, FS_Subset DEF RowsOf
  <2>2. \A m \in R : f[m] \in Int
    BY <1>2, <2>1
  <2> HIDE DEF R, f
  <2>3. SumFunctionOnSet(f, R) \in Int
    BY <2>1, <2>2, SumInt
  <2> QED
    BY <2>3 DEF R, f
<1> HIDE DEF Of
<1> QED
  BY <1>1, <1>3

LEMMA StockValueIs ==
  ASSUME CoreInv, StockAddsUp, miscounted = {}
  PROVE  StockValue = OpeningValue + Tot(Shelved) + Miscounts
<1> DEFINE v == [i \in Items |-> currentStock[i] * UnitCost[i]]
           o == [i \in Items |-> Stock0[i] * UnitCost[i]]
           m == [d \in Docs |-> [i \in Items |-> StockEntries[d][i] * UnitCost[i]]]
           n == [i \in Items |-> [d \in Docs |-> StockEntries[d][i] * UnitCost[i]]]
           w == [i \in Items |-> SumFunctionOnSet(n[i], Docs)]
           b == Plus(Shelved, Only(Strays, Traded))
<1>1. StockEntries \in Entries(Docs, Items)
  BY EntryTypes
<1>2. IsFiniteSet(Items) /\ IsFiniteSet(Docs)
  BY FiniteAssumption
<1>3. \A i \in Items : UnitCost[i] \in Int /\ Stock0[i] \in Int
  BY ItemsAssumption, UnitsAssumption
<1>4. StockValue = SumFunctionOnSet(v, Items) /\ OpeningValue = SumFunctionOnSet(o, Items)
  BY DEF StockValue, OpeningValue, Sum
<1>5. \A d \in Docs, i \in Items : StockEntries[d][i] \in Int
  BY <1>1 DEF Entries
<1>6. ASSUME NEW i \in Items
      PROVE  v[i] = o[i] + w[i] /\ o[i] \in Int /\ w[i] \in Int
  <2> DEFINE f == ColumnOf(Docs, StockEntries, i)
             g == n[i]
             c == UnitCost[i]
  <2>1. \A d \in Docs : f[d] \in Int /\ g[d] = f[d] * c
    BY <1>5 DEF ColumnOf
  <2>2. currentStock[i] = Stock0[i] + SumFunctionOnSet(f, Docs)
    BY DEF StockAddsUp, Agree
  <2>3. w[i] = SumFunctionOnSet(g, Docs) /\ v[i] = currentStock[i] * c /\ o[i] = Stock0[i] * c
    OBVIOUS
  <2>4. c \in Int /\ Stock0[i] \in Int
    BY <1>3
  <2> HIDE DEF f, g, c, v, o, w, n, m
  <2>5. SumFunctionOnSet(g, Docs) = SumFunctionOnSet(f, Docs) * c
    BY <1>2, <2>1, <2>4, SumTimes
  <2>6. SumFunctionOnSet(f, Docs) \in Int
    BY <1>2, <2>1, SumInt
  <2> DEFINE x == SumFunctionOnSet(f, Docs)
             z == Stock0[i]
  <2>7. v[i] = (z + x) * c /\ o[i] = z * c /\ w[i] = x * c
    BY <2>2, <2>3, <2>5
  <2>8. x \in Int /\ z \in Int /\ c \in Int
    BY <2>4, <2>6
  <2> HIDE DEF x, z
  <2>9. (z + x) * c = z * c + x * c /\ z * c \in Int /\ x * c \in Int
    BY <2>8
  <2> QED
    BY <2>7, <2>9
<1>7. Transposed(m, n, Docs, Items)
  <2>1. \A d \in Docs, i \in Items : StockEntries[d][i] * UnitCost[i] \in Int
    BY <1>3, <1>5
  <2> QED
    BY <2>1 DEF Transposed
<1>8. AddsUp(w, n, Items, Docs)
  BY DEF AddsUp
<1>9. ASSUME NEW d \in Docs
      PROVE  b[d] = SumFunctionOnSet(m[d], Items) /\ Shelved[d] \in Int
  <2> DEFINE g == m[d]
  <2>1. \A i \in Items : g[i] = StockEntries[d][i] * UnitCost[i]
    OBVIOUS
  <2> HIDE DEF g
  <2>2. SumFunctionOnSet(g, Items) = Shelved[d] + Only(Strays, Traded)[d] /\ Shelved[d] \in Int
    BY <2>1, ShelvedIs
  <2> QED
    BY <2>2 DEF g, Plus
<1>10. AddsUp(b, m, Docs, Items)
  BY <1>9 DEF AddsUp
<1>11. Shelved \in Columns
  BY <1>9 DEF Shelved, Columns
<1>12. Tot(b) = Tot(Shelved) + Miscounts /\ Tot(Shelved) \in Int /\ Miscounts \in Int
  BY <1>11, MiscountsAre, TotPlus, TotInt
<1> HIDE DEF v, o, w, m, n, b
<1>13. SumFunctionOnSet(v, Items) = SumFunctionOnSet(o, Items) + SumFunctionOnSet(w, Items)
  BY <1>2, <1>6, SumPlus
<1>14. SumFunctionOnSet(b, Docs) = SumFunctionOnSet(w, Items)
  BY <1>2, <1>7, <1>8, <1>10, SumTable
<1>15. SumFunctionOnSet(o, Items) \in Int
  BY <1>2, <1>6, SumInt
<1> QED
  BY <1>4, <1>12, <1>13, <1>14, <1>15 DEF Tot

(* The price of the documents of a type, document by document. *)
Billed(type) == Only(Totals, Bills(type))

(* Document by document: what came into the accounts, or waits as a        *)
(* cheque, and what the party owes make up the price of the document.      *)
LEMMA TradeRow ==
  ASSUME BooksInv, NEW d \in Docs
  PROVE  Moneys[d] + Owed[d] + Only(Flows, OpenCheques)[d]
           = Billed("SALE_INVOICE")[d] + Billed("DEBIT_NOTE")[d] - Billed("CREDIT_NOTE")[d]
             - Billed("PURCHASE_BILL")[d] - Billed("EXPENSE")[d]
             + Only(Dues, Bills("EXPENSE"))[d] - Only(Claims, Unnamed)[d]
<1> DEFINE t == docs[d]
           T(type) == Billed(type)[d]
           M == Moneys[d]
           W == Owed[d]
           X == Only(Flows, OpenCheques)[d]
           D == Only(Dues, Bills("EXPENSE"))[d]
           C == Only(Claims, Unnamed)[d]
           s == SettledPart(d)
           Types == {"SALE_INVOICE", "DEBIT_NOTE", "PURCHASE_BILL", "CREDIT_NOTE",
                     "PAYMENT_IN", "PAYMENT_OUT", "EXPENSE"}
<1>1. TypeOK /\ t \in Doc /\ RowsFollowRequests /\ ChequesFollowDocs
  BY DEF BooksInv, CoreInv, TypeOK
<1>2. t.total \in Nat /\ t.own \in Nat /\ t.paid \in Int /\ t.type \in TxnTypes
  BY <1>1 DEF Doc
<1>3. /\ s \in Nat
      /\ ~(InForce(d) /\ t.type \in {"SALE_INVOICE", "PURCHASE_BILL"}) => s = 0
      /\ InForce(d) => t.paid = s + t.own
      /\ t.party = None => s = 0
  BY SettledPartIs, UnnamedUnsettled DEF InForce, Live
<1>4. /\ \A type : T(type) = IF InForce(d) /\ t.type = type THEN t.total ELSE 0
      /\ D = IF InForce(d) /\ t.type = "EXPENSE" THEN t.total - t.paid ELSE 0
  BY BillIs DEF Billed, Only, Dues, Totals, Due, Total
<1>5. C = IF InForce(d) /\ t.party = None /\ t.type \in Sales \cup Purchases THEN Claim(d) ELSE 0
  BY <1>1, UnnamedIs DEF Only, Claims
<1>6. Claim(d) = IF t.type \in {"SALE_INVOICE", "DEBIT_NOTE"} THEN t.total - t.paid
                 ELSE -(t.total - t.paid)
  BY DEF Claim, Due
<1>7. Sales \cup Purchases = {"SALE_INVOICE", "DEBIT_NOTE", "PURCHASE_BILL", "CREDIT_NOTE"}
  BY DEF Sales, Purchases
<1>8. W = IF InForce(d) /\ t.type # "P2P_TRANSFER" /\ t.party # None
          THEN PartyDelta(t.type, t.total, t.total - t.own) ELSE 0
  BY DEF Owed
<1>9. M + X = IF InForce(d) THEN Flow(d) ELSE 0
  <2>1. /\ M = IF (InForce(d) /\ PaysInto(t)) \/ cheques[d].status = "CLOSED" THEN Flow(d) ELSE 0
        /\ X = IF cheques[d].status = "OPEN" THEN Flow(d) ELSE 0
    BY DEF Moneys, Only, OpenCheques, Flows
  <2>2. Flow(d) \in Int
    BY <1>1, RowTypes
  <2>3. cheques[d].status \in {"NONE", "OPEN", "CLOSED"} /\ t.method \in Kinds \cup {"CHEQUE"}
    BY <1>1 DEF TypeOK, Doc, Cheque, Methods
  <2>4. cheques[d].status # "NONE" <=> InForce(d) /\ PaysByCheque(t)
    BY <1>1 DEF ChequesFollowDocs
  <2>5. PaysByCheque(t) => ~PaysInto(t)
    BY KindsAssumption DEF PaysByCheque, PaysInto
  <2>6. CASE ~InForce(d)
    BY <2>1, <2>3, <2>4, <2>6
  <2>7. CASE InForce(d) /\ t.own = 0
    <3>1. Flow(d) = 0
      <4>1. Flow(d) \in {t.own, -t.own}
        BY DEF Flow, MoneyEffect
      <4> QED
        BY <2>2, <2>7, <4>1
    <3> QED
      BY <2>1, <2>7, <3>1
  <2>8. CASE InForce(d) /\ t.own > 0 /\ t.method = "CHEQUE"
    <3>1. PaysByCheque(t)
      BY <2>8 DEF PaysByCheque
    <3> QED
      BY <2>1, <2>2, <2>3, <2>4, <2>5, <2>8, <3>1
  <2>9. CASE InForce(d) /\ t.own > 0 /\ t.method # "CHEQUE"
    <3>1. PaysInto(t) /\ ~PaysByCheque(t)
      BY <2>3, <2>9 DEF PaysInto, PaysByCheque
    <3> QED
      BY <2>1, <2>2, <2>3, <2>4, <2>9, <3>1
  <2> QED
    BY <1>2, <2>6, <2>7, <2>8, <2>9
<1>10. Flow(d) = IF Inbound(t.type) THEN t.own ELSE -t.own
  BY DEF Flow, MoneyEffect
<1>11. M \in Int /\ W \in Int /\ X \in Int /\ \A type : T(type) \in Int
  <2>1. Flow(d) \in Int
    BY <1>1, RowTypes
  <2>2. W \in Int
    BY <1>1, OwedType DEF Columns
  <2> QED
    BY <1>2, <1>4, <2>1, <2>2 DEF Moneys, Only, Flows
<1>12. M + W + X = (M + X) + W
  BY <1>11
<1> HIDE DEF T, M, W, X, D, C, s
<1> SUFFICES M + W + X = T("SALE_INVOICE") + T("DEBIT_NOTE") - T("CREDIT_NOTE")
                         - T("PURCHASE_BILL") - T("EXPENSE") + D - C
  BY DEF T, M, W, X, D, C
<1>13. CASE ~InForce(d)
  BY <1>3, <1>4, <1>5, <1>8, <1>9, <1>12, <1>13
<1>14. CASE InForce(d) /\ t.type = "SALE_INVOICE"
  <2>1. /\ T("DEBIT_NOTE") = 0 /\ T("CREDIT_NOTE") = 0 /\ T("PURCHASE_BILL") = 0
        /\ T("EXPENSE") = 0 /\ D = 0 /\ T("SALE_INVOICE") = t.total /\ M + X = t.own
    BY <1>4, <1>9, <1>10, <1>14 DEF Inbound
  <2>2. W = IF t.party # None THEN t.total - t.own ELSE 0
    BY <1>8, <1>14 DEF PartyDelta
  <2>3. C = IF t.party = None THEN t.total - t.paid ELSE 0
    BY <1>5, <1>6, <1>7, <1>14
  <2> QED
    BY <1>2, <1>3, <1>12, <1>14, <2>1, <2>2, <2>3
<1>15. CASE InForce(d) /\ t.type = "DEBIT_NOTE"
  <2>1. /\ T("SALE_INVOICE") = 0 /\ T("CREDIT_NOTE") = 0 /\ T("PURCHASE_BILL") = 0
        /\ T("EXPENSE") = 0 /\ D = 0 /\ T("DEBIT_NOTE") = t.total /\ M + X = t.own
    BY <1>4, <1>9, <1>10, <1>15 DEF Inbound
  <2>2. W = IF t.party # None THEN t.total - t.own ELSE 0
    BY <1>8, <1>15 DEF PartyDelta
  <2>3. C = IF t.party = None THEN t.total - t.paid ELSE 0
    BY <1>5, <1>6, <1>7, <1>15
  <2>4. t.paid = t.own
    BY <1>2, <1>3, <1>15
  <2>5. (M + X) + W = t.total - C /\ C \in Int
    <3>1. CASE t.party = None
      <4>1. W = 0 /\ C = t.total - t.paid
        BY <2>2, <2>3, <3>1
      <4> QED
        BY <1>2, <2>1, <2>4, <4>1
    <3>2. CASE t.party # None
      <4>1. W = t.total - t.own /\ C = 0
        BY <2>2, <2>3, <3>2
      <4> QED
        BY <1>2, <2>1, <4>1
    <3> QED
      BY <3>1, <3>2
  <2>6. M + W + X = t.total - C
    BY <1>12, <2>5
  <2>7. T("SALE_INVOICE") + T("DEBIT_NOTE") - T("CREDIT_NOTE") - T("PURCHASE_BILL")
          - T("EXPENSE") + D - C = t.total - C
    BY <1>2, <2>1, <2>5
  <2> QED
    BY <2>6, <2>7
<1>16. CASE InForce(d) /\ t.type = "CREDIT_NOTE"
  <2>1. /\ T("SALE_INVOICE") = 0 /\ T("DEBIT_NOTE") = 0 /\ T("PURCHASE_BILL") = 0
        /\ T("EXPENSE") = 0 /\ D = 0 /\ T("CREDIT_NOTE") = t.total /\ M + X = -t.own
    BY <1>4, <1>9, <1>10, <1>16 DEF Inbound
  <2>2. W = IF t.party # None THEN t.own - t.total ELSE 0
    BY <1>2, <1>8, <1>16 DEF PartyDelta
  <2>3. C = IF t.party = None THEN t.paid - t.total ELSE 0
    BY <1>2, <1>5, <1>6, <1>7, <1>16
  <2>4. t.paid = t.own
    BY <1>2, <1>3, <1>16
  <2> QED
    BY <1>2, <1>12, <2>1, <2>2, <2>3, <2>4
<1>17. CASE InForce(d) /\ t.type = "PURCHASE_BILL"
  <2>1. /\ T("SALE_INVOICE") = 0 /\ T("DEBIT_NOTE") = 0 /\ T("CREDIT_NOTE") = 0
        /\ T("EXPENSE") = 0 /\ D = 0 /\ T("PURCHASE_BILL") = t.total /\ M + X = -t.own
    BY <1>4, <1>9, <1>10, <1>17 DEF Inbound
  <2>2. W = IF t.party # None THEN t.own - t.total ELSE 0
    BY <1>2, <1>8, <1>17 DEF PartyDelta
  <2>3. C = IF t.party = None THEN t.paid - t.total ELSE 0
    BY <1>2, <1>5, <1>6, <1>7, <1>17
  <2>4. t.party = None => t.paid = t.own
    BY <1>2, <1>3, <1>17
  <2> QED
    BY <1>2, <1>12, <2>1, <2>2, <2>3, <2>4
<1>18. CASE InForce(d) /\ t.type = "EXPENSE"
  <2>1. /\ T("SALE_INVOICE") = 0 /\ T("DEBIT_NOTE") = 0 /\ T("CREDIT_NOTE") = 0
        /\ T("PURCHASE_BILL") = 0 /\ T("EXPENSE") = t.total /\ M + X = -t.own
        /\ D = t.total - t.paid /\ C = 0 /\ W = 0
    BY <1>4, <1>5, <1>7, <1>8, <1>9, <1>10, <1>18 DEF Inbound, PartyDelta
  <2>2. t.paid = t.own
    BY <1>2, <1>3, <1>18
  <2> QED
    BY <1>2, <1>12, <2>1, <2>2
<1>19. CASE InForce(d) /\ t.type \in PaymentTypes
  <2>1. /\ T("SALE_INVOICE") = 0 /\ T("DEBIT_NOTE") = 0 /\ T("CREDIT_NOTE") = 0
        /\ T("PURCHASE_BILL") = 0 /\ T("EXPENSE") = 0 /\ D = 0 /\ C = 0
    BY <1>4, <1>5, <1>7, <1>19 DEF PaymentTypes
  <2>2. t.own = t.total /\ t.party # None
    BY <1>1, <1>19 DEF RowsFollowRequests, FollowsRequest, InForce, Live
  <2>3. CASE t.type = "PAYMENT_IN"
    <3>1. M + X = t.own /\ W = -t.total
      BY <1>8, <1>9, <1>10, <1>19, <2>2, <2>3 DEF Inbound, PartyDelta
    <3> QED
      BY <1>2, <1>12, <2>1, <2>2, <3>1
  <2>4. CASE t.type = "PAYMENT_OUT"
    <3>1. M + X = -t.own /\ W = t.total
      BY <1>8, <1>9, <1>10, <1>19, <2>2, <2>4 DEF Inbound, PartyDelta
    <3> QED
      BY <1>2, <1>12, <2>1, <2>2, <3>1
  <2> QED
    BY <1>19, <2>3, <2>4 DEF PaymentTypes
<1>20. CASE InForce(d) /\ t.type \in OrderTypes \cup {"P2P_TRANSFER"}
  <2>1. /\ T("SALE_INVOICE") = 0 /\ T("DEBIT_NOTE") = 0 /\ T("CREDIT_NOTE") = 0
        /\ T("PURCHASE_BILL") = 0 /\ T("EXPENSE") = 0 /\ D = 0 /\ C = 0 /\ W = 0
    BY <1>4, <1>5, <1>7, <1>8, <1>20 DEF OrderTypes, PartyDelta
  <2>2. t.own = 0
    BY <1>1, <1>20 DEF RowsFollowRequests, FollowsRequest, InForce, Live
  <2>3. M + X = 0
    BY <1>9, <1>10, <1>20, <2>2
  <2> QED
    BY <1>12, <2>1, <2>3
<1> QED
  BY <1>2, <1>13, <1>14, <1>15, <1>16, <1>17, <1>18, <1>19, <1>20
  DEF TxnTypes, LineTypes, PaymentTypes

(* What the goods of a purchase are worth beyond what they were bought for. *)
Surplus(d) == Sign(d) * (LineCost(d) - Total(d))

Surpluses == [d \in Docs |-> Surplus(d)]

Bought == TxnWhere(Purchases, Wide)

LEMMA SurplusIs ==
  ASSUME TypeOK, RowsWellFormed
  PROVE  Sum(Surplus, Bought) = Tot(Only(Surpluses, Bought)) /\ Only(Surpluses, Bought) \in Columns
<1> DEFINE f == [d \in Bought |-> Surplus(d)]
<1>1. /\ Bought \in SUBSET Docs
      /\ \A d \in Bought : Live(d) /\ docs[d].type \in LineTypes
  BY SalesAreLines DEF Bought, TxnWhere
<1>2. \A d \in Bought : Surpluses[d] \in Int /\ f[d] = Surpluses[d]
  <2> SUFFICES ASSUME NEW d \in Bought PROVE Surpluses[d] \in Int /\ f[d] = Surpluses[d]
    OBVIOUS
  <2>1. /\ Total(d) \in Int /\ LineCost(d) \in Int /\ Sign(d) \in {1, -1}
        /\ \A x \in Int : Sign(d) * x \in Int
    BY <1>1, RowTypes, LineRowTypes
  <2> QED
    BY <1>1, <2>1 DEF Surpluses, Surplus
<1>3. Sum(Surplus, Bought) = SumFunctionOnSet(f, Bought)
  BY DEF Sum
<1> HIDE DEF f
<1> QED
  BY <1>1, <1>2, <1>3, SumOnly, OnlyColumn

(* What the goods of the documents of a type cost. *)
Costing(type) == Only(Costs, Bills(type))

(* Document by document: what a sale takes off the shelves is its cost,    *)
(* what a purchase puts there is its price and the surplus.                *)
LEMMA ShelfRow ==
  ASSUME CoreInv, NEW d \in Docs
  PROVE  Shelved[d] = Costing("CREDIT_NOTE")[d] - Costing("SALE_INVOICE")[d]
                      + Only(Surpluses, Bought)[d]
                      + Billed("PURCHASE_BILL")[d] - Billed("DEBIT_NOTE")[d]
<1> DEFINE t == docs[d]
           K(type) == Costing(type)[d]
           T(type) == Billed(type)[d]
           S == Only(Surpluses, Bought)[d]
           H == Shelved[d]
<1>1. TypeOK /\ RowsWellFormed
  BY DEF CoreInv
<1>2. Total(d) \in Nat /\ Sign(d) = IF t.type \in BackTypes THEN -1 ELSE 1
  BY <1>1, RowTypes DEF Sign
<1>3. InForce(d) /\ t.type \in LineTypes => LineCost(d) \in Nat
  BY <1>1, LineRowTypes DEF InForce
<1>4. \A type : /\ T(type) = IF InForce(d) /\ t.type = type THEN Total(d) ELSE 0
                /\ K(type) = IF InForce(d) /\ t.type = type THEN LineCost(d) ELSE 0
  BY BillIs DEF Billed, Costing, Only, Costs, Totals
<1>5. S = IF InForce(d) /\ t.type \in Purchases THEN Surplus(d) ELSE 0
  <2>1. d \in Bought <=> InForce(d) /\ t.type \in Purchases
    BY DEF Bought, TxnWhere, Seen, InForce, Posted
  <2> QED
    BY <2>1 DEF Only, Surpluses
<1>6. H = IF ~InForce(d) THEN 0
          ELSE CASE t.type \in {"SALE_INVOICE", "DEBIT_NOTE"} -> -LineCost(d)
                 [] t.type \in {"CREDIT_NOTE", "PURCHASE_BILL"} -> LineCost(d)
                 [] OTHER -> 0
  BY DEF Shelved
<1>7. Surplus(d) = Sign(d) * (LineCost(d) - Total(d))
  BY DEF Surplus
<1> HIDE DEF K, T, S, H
<1> SUFFICES H = K("CREDIT_NOTE") - K("SALE_INVOICE") + S + T("PURCHASE_BILL") - T("DEBIT_NOTE")
  BY DEF K, T, S, H
<1>8. CASE ~InForce(d)
  BY <1>4, <1>5, <1>6, <1>8
<1>9. CASE InForce(d) /\ t.type = "SALE_INVOICE"
  <2>1. /\ H = -LineCost(d) /\ K("SALE_INVOICE") = LineCost(d) /\ K("CREDIT_NOTE") = 0
        /\ S = 0 /\ T("PURCHASE_BILL") = 0 /\ T("DEBIT_NOTE") = 0 /\ LineCost(d) \in Nat
    BY <1>3, <1>4, <1>5, <1>6, <1>9 DEF Purchases, LineTypes
  <2> QED
    BY <2>1
<1>10. CASE InForce(d) /\ t.type = "CREDIT_NOTE"
  <2>1. /\ H = LineCost(d) /\ K("CREDIT_NOTE") = LineCost(d) /\ K("SALE_INVOICE") = 0
        /\ S = 0 /\ T("PURCHASE_BILL") = 0 /\ T("DEBIT_NOTE") = 0 /\ LineCost(d) \in Nat
    BY <1>3, <1>4, <1>5, <1>6, <1>10 DEF Purchases, LineTypes
  <2> QED
    BY <2>1
<1>11. CASE InForce(d) /\ t.type = "PURCHASE_BILL"
  <2>1. /\ H = LineCost(d) /\ K("CREDIT_NOTE") = 0 /\ K("SALE_INVOICE") = 0
        /\ S = Surplus(d) /\ T("PURCHASE_BILL") = Total(d) /\ T("DEBIT_NOTE") = 0
        /\ LineCost(d) \in Nat
    BY <1>3, <1>4, <1>5, <1>6, <1>11 DEF Purchases, LineTypes
  <2>2. Sign(d) = 1
    BY <1>2, <1>11 DEF BackTypes
  <2>3. S = LineCost(d) - Total(d)
    BY <1>2, <1>7, <2>1, <2>2
  <2> QED
    BY <1>2, <2>1, <2>3
<1>12. CASE InForce(d) /\ t.type = "DEBIT_NOTE"
  <2>1. /\ H = -LineCost(d) /\ K("CREDIT_NOTE") = 0 /\ K("SALE_INVOICE") = 0
        /\ S = Surplus(d) /\ T("PURCHASE_BILL") = 0 /\ T("DEBIT_NOTE") = Total(d)
        /\ LineCost(d) \in Nat
    BY <1>3, <1>4, <1>5, <1>6, <1>12 DEF Purchases, LineTypes
  <2>2. Sign(d) = -1
    BY <1>2, <1>12 DEF BackTypes
  <2>3. S = -(LineCost(d) - Total(d))
    BY <1>2, <1>7, <2>1, <2>2
  <2> QED
    BY <1>2, <2>1, <2>3
<1>13. CASE /\ InForce(d)
            /\ t.type \notin {"SALE_INVOICE", "CREDIT_NOTE", "PURCHASE_BILL", "DEBIT_NOTE"}
  BY <1>4, <1>5, <1>6, <1>13 DEF Purchases
<1> QED
  BY <1>8, <1>9, <1>10, <1>11, <1>12, <1>13

(* The two identities for the whole business. *)
LEMMA TradeIs ==
  ASSUME BooksInv
  PROVE  Tot(Moneys) + Tot(Owed) + Tot(Only(Flows, OpenCheques))
           = Tot(Billed("SALE_INVOICE")) + Tot(Billed("DEBIT_NOTE")) - Tot(Billed("CREDIT_NOTE"))
             - Tot(Billed("PURCHASE_BILL")) - Tot(Billed("EXPENSE"))
             + Tot(Only(Dues, Bills("EXPENSE"))) - Tot(Only(Claims, Unnamed))
<1> DEFINE m == Moneys
           w == Owed
           x == Only(Flows, OpenCheques)
           si == Billed("SALE_INVOICE")
           dn == Billed("DEBIT_NOTE")
           cn == Billed("CREDIT_NOTE")
           pb == Billed("PURCHASE_BILL")
           ex == Billed("EXPENSE")
           du == Only(Dues, Bills("EXPENSE"))
           cl == Only(Claims, Unnamed)
<1>1. TypeOK
  BY DEF BooksInv, CoreInv
<1>2. \A type : Bills(type) \in SUBSET Docs
  BY DEF Bills, TxnWhere
<1>3. \A d \in Docs : m[d] + w[d] + x[d] = si[d] + dn[d] - cn[d] - pb[d] - ex[d] + du[d] - cl[d]
  BY TradeRow
<1>4. m \in Columns
  <2>1. \A d \in Docs : Flow(d) \in Int
    BY <1>1, RowTypes
  <2> QED
    BY <2>1 DEF Moneys, Columns
<1>5. w \in Columns /\ x \in Columns /\ cl \in Columns
  BY <1>1, OwedType, OpenChequesIs, UnnamedIs
<1>6. si \in Columns /\ dn \in Columns /\ cn \in Columns /\ pb \in Columns /\ ex \in Columns
      /\ du \in Columns
  BY <1>1, <1>2, SumRows DEF Billed
<1> HIDE DEF m, w, x, si, dn, cn, pb, ex, du, cl
<1> DEFINE l1 == Plus(m, w)
           l2 == Plus(l1, x)
           e1 == Plus(si, dn)
           e2 == Minus(e1, cn)
           e3 == Minus(e2, pb)
           e4 == Minus(e3, ex)
           e5 == Plus(e4, du)
           e6 == Minus(e5, cl)
<1>7. \A d \in Docs : l2[d] = e6[d]
  <2>1. TAKE d \in Docs
  <2>2. /\ m[d] \in Int /\ w[d] \in Int /\ x[d] \in Int /\ si[d] \in Int /\ dn[d] \in Int
        /\ cn[d] \in Int /\ pb[d] \in Int /\ ex[d] \in Int /\ du[d] \in Int /\ cl[d] \in Int
    BY <1>4, <1>5, <1>6 DEF Columns
  <2>3. /\ l1[d] = m[d] + w[d] /\ l2[d] = l1[d] + x[d] /\ e1[d] = si[d] + dn[d]
        /\ e2[d] = e1[d] - cn[d] /\ e3[d] = e2[d] - pb[d] /\ e4[d] = e3[d] - ex[d]
        /\ e5[d] = e4[d] + du[d] /\ e6[d] = e5[d] - cl[d]
    BY DEF Plus, Minus
  <2> HIDE DEF l1, l2, e1, e2, e3, e4, e5, e6
  <2> QED
    BY <1>3, <2>2, <2>3
<1>8. l1 \in Columns /\ Tot(l1) = Tot(m) + Tot(w)
  BY <1>4, <1>5, TotPlus
<1>9. e1 \in Columns /\ Tot(e1) = Tot(si) + Tot(dn)
  BY <1>6, TotPlus
<1> HIDE DEF l1, e1
<1>10. l2 \in Columns /\ Tot(l2) = Tot(l1) + Tot(x)
  BY <1>5, <1>8, TotPlus
<1>11. e2 \in Columns /\ Tot(e2) = Tot(e1) - Tot(cn)
  BY <1>6, <1>9, TotMinus
<1> HIDE DEF l2, e2
<1>12. e3 \in Columns /\ Tot(e3) = Tot(e2) - Tot(pb)
  BY <1>6, <1>11, TotMinus
<1> HIDE DEF e3
<1>13. e4 \in Columns /\ Tot(e4) = Tot(e3) - Tot(ex)
  BY <1>6, <1>12, TotMinus
<1> HIDE DEF e4
<1>14. e5 \in Columns /\ Tot(e5) = Tot(e4) + Tot(du)
  BY <1>6, <1>13, TotPlus
<1> HIDE DEF e5
<1>15. e6 \in Columns /\ Tot(e6) = Tot(e5) - Tot(cl)
  BY <1>5, <1>14, TotMinus
<1> HIDE DEF e6
<1>16. Tot(l2) = Tot(e6)
  BY <1>7, <1>10, <1>15, SameColumn
<1>17. /\ Tot(m) \in Int /\ Tot(w) \in Int /\ Tot(x) \in Int /\ Tot(si) \in Int
       /\ Tot(dn) \in Int /\ Tot(cn) \in Int /\ Tot(pb) \in Int /\ Tot(ex) \in Int
       /\ Tot(du) \in Int /\ Tot(cl) \in Int
  BY <1>4, <1>5, <1>6, TotInt
<1>18. Tot(m) + Tot(w) + Tot(x)
         = Tot(si) + Tot(dn) - Tot(cn) - Tot(pb) - Tot(ex) + Tot(du) - Tot(cl)
  BY <1>8, <1>9, <1>10, <1>11, <1>12, <1>13, <1>14, <1>15, <1>16, <1>17
<1> QED
  BY <1>18 DEF m, w, x, si, dn, cn, pb, ex, du, cl

LEMMA ShelfIs ==
  ASSUME CoreInv
  PROVE  Tot(Shelved) = Tot(Costing("CREDIT_NOTE")) - Tot(Costing("SALE_INVOICE"))
                        + Tot(Only(Surpluses, Bought))
                        + Tot(Billed("PURCHASE_BILL")) - Tot(Billed("DEBIT_NOTE"))
<1> DEFINE h == Shelved
           kc == Costing("CREDIT_NOTE")
           ks == Costing("SALE_INVOICE")
           su == Only(Surpluses, Bought)
           pb == Billed("PURCHASE_BILL")
           dn == Billed("DEBIT_NOTE")
<1>1. TypeOK /\ RowsWellFormed
  BY DEF CoreInv
<1>2. \A type : Bills(type) \in SUBSET Docs
  BY DEF Bills, TxnWhere
<1>3. \A d \in Docs : h[d] = kc[d] - ks[d] + su[d] + pb[d] - dn[d]
  BY ShelfRow
<1>4. h \in Columns
  <2> SUFFICES ASSUME NEW d \in Docs PROVE Shelved[d] \in Int
    BY DEF Shelved, Columns
  <2> DEFINE g == [i \in Items |-> StockEntries[d][i] * UnitCost[i]]
  <2>1. \A i \in Items : g[i] = StockEntries[d][i] * UnitCost[i]
    OBVIOUS
  <2> HIDE DEF g
  <2> QED
    BY <2>1, ShelvedIs
<1>5. kc \in Columns /\ ks \in Columns
  <2>1. /\ "CREDIT_NOTE" \in LineTypes /\ "SALE_INVOICE" \in LineTypes
        /\ \A type : \A d \in Bills(type) : Live(d) /\ docs[d].type = type
    BY DEF LineTypes, Bills, TxnWhere
  <2> QED
    BY <1>1, <1>2, <2>1, SumLines DEF Costing
<1>6. su \in Columns
  BY <1>1, SurplusIs
<1>7. pb \in Columns /\ dn \in Columns
  BY <1>1, <1>2, SumRows DEF Billed
<1> HIDE DEF h, kc, ks, su, pb, dn
<1> DEFINE e1 == Minus(kc, ks)
           e2 == Plus(e1, su)
           e3 == Plus(e2, pb)
           e4 == Minus(e3, dn)
<1>8. \A d \in Docs : h[d] = e4[d]
  <2>1. TAKE d \in Docs
  <2>2. /\ kc[d] \in Int /\ ks[d] \in Int /\ su[d] \in Int /\ pb[d] \in Int /\ dn[d] \in Int
    BY <1>5, <1>6, <1>7 DEF Columns
  <2>3. /\ e1[d] = kc[d] - ks[d] /\ e2[d] = e1[d] + su[d] /\ e3[d] = e2[d] + pb[d]
        /\ e4[d] = e3[d] - dn[d]
    BY DEF Plus, Minus
  <2> HIDE DEF e1, e2, e3, e4
  <2> QED
    BY <1>3, <2>2, <2>3
<1>9. e1 \in Columns /\ Tot(e1) = Tot(kc) - Tot(ks)
  BY <1>5, TotMinus
<1> HIDE DEF e1
<1>10. e2 \in Columns /\ Tot(e2) = Tot(e1) + Tot(su)
  BY <1>6, <1>9, TotPlus
<1> HIDE DEF e2
<1>11. e3 \in Columns /\ Tot(e3) = Tot(e2) + Tot(pb)
  BY <1>7, <1>10, TotPlus
<1> HIDE DEF e3
<1>12. e4 \in Columns /\ Tot(e4) = Tot(e3) - Tot(dn)
  BY <1>7, <1>11, TotMinus
<1> HIDE DEF e4
<1>13. Tot(h) = Tot(e4)
  BY <1>4, <1>8, <1>12, SameColumn
<1>14. /\ Tot(kc) \in Int /\ Tot(ks) \in Int /\ Tot(su) \in Int /\ Tot(pb) \in Int
       /\ Tot(dn) \in Int
  BY <1>5, <1>6, <1>7, TotInt
<1>15. Tot(h) = Tot(kc) - Tot(ks) + Tot(su) + Tot(pb) - Tot(dn)
  BY <1>9, <1>10, <1>11, <1>12, <1>13, <1>14
<1> QED
  BY <1>15 DEF h, kc, ks, su, pb, dn

LEMMA DuesInt ==
  ASSUME TypeOK
  PROVE  /\ CashBankSummary(Wide).totalReceivable \in Int
         /\ CashBankSummary(Wide).totalPayable \in Int
<1> DEFINE P == OwnedBy(Wide, Parties)
           pos == [p \in P |-> IF partyBalance[p] > 0 THEN partyBalance[p] ELSE 0]
           neg == [p \in P |-> IF partyBalance[p] < 0 THEN -partyBalance[p] ELSE 0]
<1>1. /\ CashBankSummary(Wide).totalReceivable = SumFunctionOnSet(pos, P)
      /\ CashBankSummary(Wide).totalPayable = SumFunctionOnSet(neg, P)
  BY DEF CashBankSummary, Sum
<1>2. IsFiniteSet(P)
  BY FiniteAssumption, FS_Subset DEF OwnedBy
<1>3. \A p \in P : pos[p] \in Int /\ neg[p] \in Int
  BY DEF TypeOK, OwnedBy
<1> HIDE DEF P, pos, neg
<1> QED
  BY <1>1, <1>2, <1>3, SumInt

(* The two claims of FinancialsAddUp, with the sums named. *)
LEMMA FinancialsUnfolded ==
  FinancialsAddUp <=>
    LET book == CashBankSummary(Wide)
        T(type) == Sum(Total, Bills(type))
        K(type) == Sum(LineCost, Bills(type))
        equity == book.totalBalance + book.totalReceivable + StockValue - book.totalPayable
                  - LoanBalance
        gross == T("SALE_INVOICE") - T("CREDIT_NOTE") - Sum(LineTax, Bills("SALE_INVOICE"))
                 - (K("SALE_INVOICE") - K("CREDIT_NOTE"))
        unknown == Sum(Due, Bills("EXPENSE")) - UnnamedDues
                   - (book.openChequesReceived - book.openChequesPaid)
                   + (Sum(OtherMoney, accounts) - LoanBalance)
        Above(n) == IF n > 0 THEN n ELSE 0
    IN  /\ miscounted = {} =>
             equity - (gross - T("EXPENSE"))
               = OpeningValue + Sum(LineTax, Bills("SALE_INVOICE")) + Sum(Surplus, Bought)
                 + Miscounts + unknown
        /\ (Above(book.totalBalance) + book.totalReceivable + StockValue
              + T("CREDIT_NOTE") + T("PURCHASE_BILL") + T("EXPENSE"))
           - (Above(-book.totalBalance) + book.totalPayable + LoanBalance
              + T("SALE_INVOICE") + T("DEBIT_NOTE"))
             = StockValue + unknown
BY DEF FinancialsAddUp, BalanceSheet, TrialBalance, ProfitAndLoss, Profits, Sum, Bills, Bought, Surplus,
       OpeningValue, NotTraded

LEMMA FinancialsAre == IInv /\ StockAddsUp /\ PartiesAddUp /\ MoneyAddsUp => FinancialsAddUp
<1> SUFFICES ASSUME IInv, StockAddsUp, PartiesAddUp, MoneyAddsUp PROVE FinancialsAddUp
  OBVIOUS
<1> DEFINE book == CashBankSummary(Wide)
           T(type) == Sum(Total, Bills(type))
           K(type) == Sum(LineCost, Bills(type))
           tax == Sum(LineTax, Bills("SALE_INVOICE"))
           due == Sum(Due, Bills("EXPENSE"))
           bal == book.totalBalance
           rec == book.totalReceivable
           pay == book.totalPayable
           chq == book.openChequesReceived - book.openChequesPaid
           value == StockValue
           lent == LoanBalance
           other == Sum(OtherMoney, accounts)
           stray == Miscounts
           unnamed == UnnamedDues
           opening == OpeningValue
           surplus == Sum(Surplus, Bought)
           shelf == Tot(Shelved)
           owed == Tot(Owed)
           ts == T("SALE_INVOICE")
           tc == T("CREDIT_NOTE")
           tp == T("PURCHASE_BILL")
           td == T("DEBIT_NOTE")
           te == T("EXPENSE")
           ks == K("SALE_INVOICE")
           kc == K("CREDIT_NOTE")
<1>1. BooksInv /\ CoreInv /\ TypeOK /\ RowsWellFormed
  BY DEF IInv, BooksInv, CoreInv
<1>2. \A type : Bills(type) \in SUBSET Docs
  BY DEF Bills, TxnWhere
<1>3. /\ bal = other + Tot(Moneys) /\ rec - pay = owed /\ chq = Tot(Only(Flows, OpenCheques))
      /\ miscounted = {} => value = opening + shelf + stray
      /\ unnamed = Tot(Only(Claims, Unnamed))
      /\ surplus = Tot(Only(Surpluses, Bought))
  BY <1>1, MoneysIs, NetIs, OpenChequesIs, StockValueIs, UnnamedIs, SurplusIs
<1>4. /\ \A type : T(type) = Tot(Billed(type)) /\ T(type) \in Int
      /\ due = Tot(Only(Dues, Bills("EXPENSE"))) /\ due \in Int
  <2>1. \A type : /\ Sum(Total, Bills(type)) = Tot(Billed(type)) /\ Billed(type) \in Columns
                  /\ Sum(Due, Bills(type)) = Tot(Only(Dues, Bills(type)))
                  /\ Only(Dues, Bills(type)) \in Columns
    BY <1>1, <1>2, SumRows DEF Billed
  <2> QED
    BY <2>1, TotInt
<1>5. /\ ks = Tot(Costing("SALE_INVOICE")) /\ kc = Tot(Costing("CREDIT_NOTE"))
      /\ ks \in Int /\ kc \in Int /\ tax \in Int
  <2>1. /\ "CREDIT_NOTE" \in LineTypes /\ "SALE_INVOICE" \in LineTypes
        /\ \A type : \A d \in Bills(type) : Live(d) /\ docs[d].type = type
    BY DEF LineTypes, Bills, TxnWhere
  <2>2. /\ ks = Tot(Costing("SALE_INVOICE")) /\ Costing("SALE_INVOICE") \in Columns
        /\ kc = Tot(Costing("CREDIT_NOTE")) /\ Costing("CREDIT_NOTE") \in Columns
        /\ tax = Tot(Only(Taxes, Bills("SALE_INVOICE")))
        /\ Only(Taxes, Bills("SALE_INVOICE")) \in Columns
    BY <1>1, <1>2, <2>1, SumLines DEF Costing
  <2> QED
    BY <2>2, TotInt
<1>6. /\ bal \in Int /\ owed \in Int /\ chq \in Int /\ opening \in Int /\ value \in Int
      /\ unnamed \in Int /\ surplus \in Int /\ lent \in Int /\ other \in Int /\ stray \in Int
      /\ Tot(Moneys) \in Int
  BY <1>1, <1>3, MoneysIs, OwedType, OpenChequesIs, ValuesInt, MiscountsAre, LoansInt, UnnamedIs,
     SurplusIs, TotInt
<1>7. rec \in Int /\ pay \in Int
  BY <1>1, DuesInt
<1>8. (bal - other) + owed + chq = ts + td - tc - tp - te + due - unnamed
  BY <1>1, <1>3, <1>4, <1>6, TradeIs
<1>9. shelf = kc - ks + surplus + tp - td
  BY <1>1, <1>3, <1>4, <1>5, ShelfIs
<1>10. FinancialsAddUp <=>
         /\ miscounted = {} =>
              (bal + rec + value - pay - lent) - ((ts - tc - tax - (ks - kc)) - te)
                = opening + tax + surplus + stray + (due - unnamed - chq + (other - lent))
         /\ ((IF bal > 0 THEN bal ELSE 0) + rec + value + tc + tp + te)
            - ((IF -bal > 0 THEN -bal ELSE 0) + pay + lent + ts + td)
              = value + (due - unnamed - chq + (other - lent))
  BY FinancialsUnfolded
<1>11. ts \in Int /\ tc \in Int /\ tp \in Int /\ td \in Int /\ te \in Int
  BY <1>4
<1> HIDE DEF book, T, K, tax, due, bal, rec, pay, chq, value, unnamed, opening, surplus, shelf,
             owed, ts, tc, tp, td, te, ks, kc, lent, other, stray
<1>12. ASSUME miscounted = {}
       PROVE  (bal + rec + value - pay - lent) - ((ts - tc - tax - (ks - kc)) - te)
                = opening + tax + surplus + stray + (due - unnamed - chq + (other - lent))
  <2>1. value = opening + shelf + stray
    BY <1>3, <1>12
  <2> QED
    BY <1>3, <1>4, <1>5, <1>6, <1>7, <1>8, <1>9, <1>11, <2>1
<1>13. (IF bal > 0 THEN bal ELSE 0) - (IF -bal > 0 THEN -bal ELSE 0) = bal
  BY <1>6
<1>14. ((IF bal > 0 THEN bal ELSE 0) + rec + value + tc + tp + te)
         - ((IF -bal > 0 THEN -bal ELSE 0) + pay + lent + ts + td)
           = value + (due - unnamed - chq + (other - lent))
  <2> DEFINE up == IF bal > 0 THEN bal ELSE 0
             down == IF -bal > 0 THEN -bal ELSE 0
  <2>1. up \in Int /\ down \in Int /\ up - down = bal
    BY <1>6, <1>13
  <2> HIDE DEF up, down
  <2>2. (up + rec + value + tc + tp + te) - (down + pay + lent + ts + td)
          = value + (due - unnamed - chq + (other - lent))
    BY <1>3, <1>4, <1>6, <1>7, <1>8, <1>11, <2>1
  <2> QED
    BY <2>2 DEF up, down
<1> QED
  BY <1>10, <1>12, <1>14

(* The accounts of the business balance: trading leaves the capital alone  *)
(* but for the gaps that FinancialsAddUp names, whatever is sold, bought,  *)
(* returned, paid, deleted, restored, transferred and lent, in whatever    *)
(* order.                                                                  *)
THEOREM Financials ==
  ASSUME Slips = {}, AccountsOfTheirOwn, PicksOfTheirOwn
  PROVE  Spec => []FinancialsAddUp
BY Safety, TotalsAddUp, BalancesAddUp, FinancialsAre, PTL
=============================================================================

---------------------------- MODULE PayrollProofs ----------------------------
(***************************************************************************)
(* Proofs about Payroll, for every set of employees, branches, periods,    *)
(* months and clients.  The invariant has four parts that do not need one  *)
(* another, beyond types: the payment of runs, its month, their totals,    *)
(* and the advances.                                                       *)
(***************************************************************************)
EXTENDS Payroll, FiniteSetTheorems, TLAPS

(***************************************************************************)
(* Sums over finite sets: SumFunctionOnSet of the community module         *)
(* Functions.  The fold under a sum is a recursive function on the subsets *)
(* of the set.  That it exists and what it returns is proved from the      *)
(* well-founded order of the finite subsets: a set of subsets stands for   *)
(* the induction hypothesis (FiniteSubsetInduction), so that no operator   *)
(* parameter has to be instantiated.                                       *)
(***************************************************************************)

LEMMA FiniteSubsetInduction ==
    ASSUME NEW S, IsFiniteSet(S), NEW G, {} \in G,
           ASSUME NEW T \in SUBSET S, T # {}, \A x \in T : T \ {x} \in G
           PROVE  T \in G
    PROVE  \A T \in SUBSET S : T \in G
<1> DEFINE B == {T \in SUBSET S : T \notin G}
<1>1. SUFFICES ASSUME B # {} PROVE FALSE
  OBVIOUS
<1>2. IsWellFoundedOn(StrictSubsetOrdering(S), SUBSET S)
  BY FS_StrictSubsetOrderingWellFounded, FS_FiniteSubsetsOfFinite
<1>3. PICK T \in B : \A U \in B : ~ (<<U, T>> \in StrictSubsetOrdering(S))
  <2>1. B \subseteq SUBSET S
    OBVIOUS
  <2> HIDE DEF B
  <2> QED
    BY <1>1, <1>2, <2>1, WFMin
<1>4. ASSUME NEW x \in T
      PROVE  T \ {x} \in G
  <2> DEFINE U == T \ {x}
  <2>1. <<U, T>> \in (SUBSET S) \X (SUBSET S) /\ U \subseteq T /\ U # T
    OBVIOUS
  <2> HIDE DEF U
  <2>2. <<U, T>> \in StrictSubsetOrdering(S)
    BY <2>1 DEF StrictSubsetOrdering
  <2>3. U \notin B /\ U \in SUBSET S
    BY <1>3, <2>1, <2>2
  <2> QED
    BY <2>3 DEF U
<1>5. T # {}
  OBVIOUS
<1> QED
  BY <1>4, <1>5

Chosen(s) == CHOOSE x \in s : TRUE

Unfolded(f, g, s) == IF s = {} THEN 0 ELSE f[Chosen(s)] + g[s \ {Chosen(s)}]

Sums(f, g, S) == g = [s \in SUBSET S |-> Unfolded(f, g, s)]

LEMMA SumIsChosen ==
    ASSUME NEW f, NEW S
    PROVE  SumFunctionOnSet(f, S) = (CHOOSE g : Sums(f, g, S))[S]
BY DEF SumFunctionOnSet, FoldFunctionOnSet, MapThenFoldSet, Sums, Unfolded, Chosen

(* Two such functions agree wherever both are defined. *)
LEMMA SumsAgree ==
    ASSUME NEW f, NEW g, NEW h, NEW A, NEW C, Sums(f, g, A), Sums(f, h, C),
           NEW S, IsFiniteSet(S), S \in SUBSET A, S \in SUBSET C
    PROVE  g[S] = h[S]
<1> DEFINE G == {T \in SUBSET S : g[T] = h[T]}
<1>1. ASSUME NEW T \in SUBSET S
      PROVE  g[T] = Unfolded(f, g, T) /\ h[T] = Unfolded(f, h, T)
  BY DEF Sums
<1>2. {} \in G
  BY <1>1 DEF Unfolded
<1>3. ASSUME NEW T \in SUBSET S, T # {}, \A x \in T : T \ {x} \in G
      PROVE  T \in G
  <2>1. Chosen(T) \in T
    BY <1>3 DEF Chosen
  <2>2. g[T \ {Chosen(T)}] = h[T \ {Chosen(T)}]
    BY <1>3, <2>1
  <2> QED
    BY <1>1, <1>3, <2>2 DEF Unfolded
<1> HIDE DEF G
<1>4. \A T \in SUBSET S : T \in G
  BY <1>2, <1>3, FiniteSubsetInduction
<1> QED
  BY <1>4 DEF G

LEMMA SumsExists ==
    ASSUME NEW f, NEW S, IsFiniteSet(S)
    PROVE  \E g : Sums(f, g, S)
<1> DEFINE G == {T \in SUBSET S : \A U \in SUBSET T : \E g : Sums(f, g, U)}
           Of(U) == CHOOSE g : Sums(f, g, U)
<1>1. {} \in G
  <2>1. Sums(f, [s \in SUBSET {} |-> 0], {})
    BY DEF Sums, Unfolded
  <2> QED
    BY <2>1
<1>2. ASSUME NEW T \in SUBSET S, T # {}, \A x \in T : T \ {x} \in G
      PROVE  T \in G
  <2> DEFINE v(U) == IF U = T THEN f[Chosen(T)] + Of(T \ {Chosen(T)})[T \ {Chosen(T)}]
                     ELSE Of(U)[U]
             h == [U \in SUBSET T |-> v(U)]
  <2>1. ASSUME NEW U \in SUBSET T, U # T
        PROVE  Sums(f, Of(U), U)
    <3>1. PICK x \in T : x \notin U
      BY <2>1
    <3>2. T \ {x} \in G /\ U \in SUBSET (T \ {x})
      BY <1>2, <3>1
    <3>3. \E g : Sums(f, g, U)
      BY <3>2
    <3> QED
      BY <3>3
  <2> HIDE DEF Of
  <2>2. ASSUME NEW U \in SUBSET T
        PROVE  v(U) = Unfolded(f, h, U)
    <3>1. CASE U = {}
      <4>1. Of(U)[U] = Unfolded(f, Of(U), U)
        BY <1>2, <2>1, <3>1 DEF Sums
      <4> QED
        BY <1>2, <3>1, <4>1 DEF Unfolded
    <3>2. CASE U # {}
      <4> DEFINE P == U \ {Chosen(U)}
      <4>1. Chosen(U) \in U
        BY <3>2 DEF Chosen
      <4>2. P \in SUBSET T /\ P # T /\ P \in SUBSET U /\ IsFiniteSet(P)
        BY <4>1, FS_Subset
      <4> HIDE DEF P
      <4>3. h[P] = Of(P)[P]
        BY <4>2
      <4>4. CASE U = T
        BY <3>2, <4>3, <4>4 DEF Unfolded, P
      <4>5. CASE U # T
        <5>1. Sums(f, Of(U), U) /\ Sums(f, Of(P), P)
          BY <2>1, <4>2, <4>5
        <5>2. Of(U)[P] = Of(P)[P]
          BY <4>2, <5>1, SumsAgree
        <5>3. Of(U)[U] = f[Chosen(U)] + Of(U)[P]
          BY <3>2, <5>1 DEF Sums, Unfolded, P
        <5> QED
          BY <3>2, <4>3, <4>5, <5>2, <5>3 DEF Unfolded, P
      <4> QED
        BY <4>4, <4>5
    <3> QED
      BY <3>1, <3>2
  <2> HIDE DEF v
  <2>3. Sums(f, h, T)
    BY <2>2 DEF Sums
  <2>4. \A U \in SUBSET T : U # T => \E g : Sums(f, g, U)
    BY <2>1
  <2> QED
    BY <2>3, <2>4
<1> HIDE DEF G
<1>3. \A T \in SUBSET S : T \in G
  BY <1>1, <1>2, FiniteSubsetInduction
<1>4. S \in G
  BY <1>3
<1> QED
  BY <1>4 DEF G

LEMMA SumEmpty ==
    ASSUME NEW f
    PROVE  SumFunctionOnSet(f, {}) = 0
<1>1. Sums(f, CHOOSE g : Sums(f, g, {}), {})
  BY SumsExists, FS_EmptySet
<1> QED
  BY <1>1, SumIsChosen DEF Sums, Unfolded

LEMMA SumUnfolds ==
    ASSUME NEW f, NEW S, IsFiniteSet(S), S # {}
    PROVE  /\ Chosen(S) \in S
           /\ SumFunctionOnSet(f, S)
                = f[Chosen(S)] + SumFunctionOnSet(f, S \ {Chosen(S)})
<1> DEFINE x == Chosen(S)
           P == S \ {x}
           g == CHOOSE q : Sums(f, q, S)
           h == CHOOSE q : Sums(f, q, P)
<1>1. x \in S
  BY DEF Chosen
<1>2. IsFiniteSet(P) /\ P \in SUBSET S
  BY FS_Subset
<1>3. Sums(f, g, S) /\ SumFunctionOnSet(f, S) = g[S]
  BY SumsExists, SumIsChosen
<1> HIDE DEF P
<1>4. Sums(f, h, P) /\ SumFunctionOnSet(f, P) = h[P]
  BY <1>2, SumsExists, SumIsChosen
<1> HIDE DEF g, h
<1>5. g[P] = h[P]
  BY <1>2, <1>3, <1>4, SumsAgree
<1>6. g[S] = f[x] + g[P]
  BY <1>3 DEF Sums, Unfolded, P
<1> QED
  BY <1>1, <1>3, <1>4, <1>5, <1>6 DEF P

(* A set of numbers that has 0 and is closed under addition has the sums   *)
(* of its members: Int, Nat, {0}.                                          *)
LEMMA SumClosed ==
    ASSUME NEW Type, 0 \in Type, \A a, b \in Type : a + b \in Type,
           NEW f, NEW S, IsFiniteSet(S), \A x \in S : f[x] \in Type
    PROVE  SumFunctionOnSet(f, S) \in Type
<1> DEFINE G == {T \in SUBSET S : SumFunctionOnSet(f, T) \in Type}
<1>1. {} \in G
  BY SumEmpty
<1>2. ASSUME NEW T \in SUBSET S, T # {}, \A x \in T : T \ {x} \in G
      PROVE  T \in G
  <2>1. IsFiniteSet(T)
    BY FS_Subset
  <2>2. /\ Chosen(T) \in T
        /\ SumFunctionOnSet(f, T)
             = f[Chosen(T)] + SumFunctionOnSet(f, T \ {Chosen(T)})
    BY <1>2, <2>1, SumUnfolds
  <2>3. SumFunctionOnSet(f, T \ {Chosen(T)}) \in Type /\ f[Chosen(T)] \in Type
    BY <1>2, <2>2
  <2> QED
    BY <2>2, <2>3
<1> HIDE DEF G
<1>3. \A T \in SUBSET S : T \in G
  BY <1>1, <1>2, FiniteSubsetInduction
<1> QED
  BY <1>3 DEF G

LEMMA SumInt ==
    ASSUME NEW f, NEW S, IsFiniteSet(S), \A x \in S : f[x] \in Int
    PROVE  SumFunctionOnSet(f, S) \in Int
<1>1. 0 \in Int /\ \A a, b \in Int : a + b \in Int
  OBVIOUS
<1> QED
  BY <1>1, SumClosed

LEMMA SumNat ==
    ASSUME NEW f, NEW S, IsFiniteSet(S), \A x \in S : f[x] \in Nat
    PROVE  SumFunctionOnSet(f, S) \in Nat
<1>1. 0 \in Nat /\ \A a, b \in Nat : a + b \in Nat
  OBVIOUS
<1> QED
  BY <1>1, SumClosed

LEMMA SumZero ==
    ASSUME NEW f, NEW S, IsFiniteSet(S), \A x \in S : f[x] = 0
    PROVE  SumFunctionOnSet(f, S) = 0
<1>1. \A a, b \in {0} : a + b \in {0}
  OBVIOUS
<1>2. SumFunctionOnSet(f, S) \in {0}
  BY <1>1, SumClosed
<1> QED
  BY <1>2

(* Only the values on the set count. *)
LEMMA SumCongruent ==
    ASSUME NEW f, NEW g, NEW S, IsFiniteSet(S), \A x \in S : f[x] = g[x]
    PROVE  SumFunctionOnSet(f, S) = SumFunctionOnSet(g, S)
<1> DEFINE G == {T \in SUBSET S : SumFunctionOnSet(f, T) = SumFunctionOnSet(g, T)}
<1>1. {} \in G
  BY SumEmpty
<1>2. ASSUME NEW T \in SUBSET S, T # {}, \A x \in T : T \ {x} \in G
      PROVE  T \in G
  <2>1. IsFiniteSet(T)
    BY FS_Subset
  <2>2. /\ Chosen(T) \in T
        /\ SumFunctionOnSet(f, T)
             = f[Chosen(T)] + SumFunctionOnSet(f, T \ {Chosen(T)})
        /\ SumFunctionOnSet(g, T)
             = g[Chosen(T)] + SumFunctionOnSet(g, T \ {Chosen(T)})
    BY <1>2, <2>1, SumUnfolds
  <2> QED
    BY <1>2, <2>2
<1> HIDE DEF G
<1>3. \A T \in SUBSET S : T \in G
  BY <1>1, <1>2, FiniteSubsetInduction
<1> QED
  BY <1>3 DEF G

(* The members may be taken in any order. *)
LEMMA SumRemove ==
    ASSUME NEW f, NEW S, IsFiniteSet(S), \A x \in S : f[x] \in Int, NEW y \in S
    PROVE  SumFunctionOnSet(f, S) = f[y] + SumFunctionOnSet(f, S \ {y})
<1> DEFINE Out(T, x) == SumFunctionOnSet(f, T) = f[x] + SumFunctionOnSet(f, T \ {x})
           G == {T \in SUBSET S : \A x \in T : Out(T, x)}
<1>1. {} \in G
  OBVIOUS
<1>2. ASSUME NEW T \in SUBSET S, T # {}, \A x \in T : T \ {x} \in G
      PROVE  T \in G
  <2>1. SUFFICES ASSUME NEW x \in T PROVE Out(T, x)
    OBVIOUS
  <2> DEFINE c == Chosen(T)
             U == (T \ {c}) \ {x}
  <2>2. IsFiniteSet(T)
    BY FS_Subset
  <2>3. c \in T /\ Out(T, c)
    BY <1>2, <2>2, SumUnfolds
  <2> HIDE DEF c
  <2>4. CASE x = c
    BY <2>3, <2>4
  <2>5. CASE x # c
    <3>1. T \ {c} \in G /\ T \ {x} \in G
      BY <1>2, <2>3
    <3>2. x \in T \ {c} /\ c \in T \ {x}
      BY <2>3, <2>5
    <3>3. Out(T \ {c}, x) /\ Out(T \ {x}, c)
      BY <3>1, <3>2
    <3>4. (T \ {x}) \ {c} = U
      OBVIOUS
    <3>5. IsFiniteSet(U) /\ U \in SUBSET S
      BY FS_Subset
    <3> HIDE DEF U
    <3>6. SumFunctionOnSet(f, U) \in Int
      BY <3>5, SumInt
    <3>7. /\ SumFunctionOnSet(f, T) = f[c] + SumFunctionOnSet(f, T \ {c})
          /\ SumFunctionOnSet(f, T \ {c}) = f[x] + SumFunctionOnSet(f, U)
          /\ SumFunctionOnSet(f, T \ {x}) = f[c] + SumFunctionOnSet(f, U)
      BY <2>3, <3>3, <3>4 DEF U
    <3>8. f[c] \in Int /\ f[x] \in Int
      BY <2>3
    <3> QED
      BY <3>6, <3>7, <3>8
  <2> QED
    BY <2>4, <2>5
<1> HIDE DEF G
<1>3. \A T \in SUBSET S : T \in G
  BY <1>1, <1>2, FiniteSubsetInduction
<1>4. S \in G
  BY <1>3
<1> QED
  BY <1>4 DEF G

(* Members that count nothing may be left out. *)
LEMMA SumExtend ==
    ASSUME NEW f, NEW g, NEW S, IsFiniteSet(S), NEW R \in SUBSET S,
           \A x \in R : f[x] = g[x], \A x \in S \ R : g[x] = 0,
           \A x \in S : g[x] \in Int
    PROVE  SumFunctionOnSet(f, R) = SumFunctionOnSet(g, S)
<1> DEFINE G == {T \in SUBSET S : SumFunctionOnSet(g, T) = SumFunctionOnSet(g, T \cap R)}
<1>1. {} \in G
  <2>1. {} \cap R = {}
    OBVIOUS
  <2> QED
    BY <2>1
<1>2. ASSUME NEW T \in SUBSET S, T # {}, \A x \in T : T \ {x} \in G
      PROVE  T \in G
  <2>1. CASE T \subseteq R
    <3>1. T \cap R = T
      BY <2>1
    <3> QED
      BY <3>1
  <2>2. CASE ~(T \subseteq R)
    <3>1. PICK x \in T : x \notin R
      BY <2>2
    <3>2. T \ {x} \in G /\ (T \ {x}) \cap R = T \cap R
      BY <1>2, <3>1
    <3>3. IsFiniteSet(T) /\ IsFiniteSet(T \ {x}) /\ T \ {x} \in SUBSET S
      BY FS_Subset
    <3>4. SumFunctionOnSet(g, T) = g[x] + SumFunctionOnSet(g, T \ {x})
      BY <3>3, SumRemove
    <3>5. SumFunctionOnSet(g, T \ {x}) \in Int /\ g[x] = 0
      BY <3>1, <3>3, SumInt
    <3>6. SumFunctionOnSet(g, T) = SumFunctionOnSet(g, T \ {x})
      BY <3>4, <3>5
    <3>7. SumFunctionOnSet(g, T \ {x}) = SumFunctionOnSet(g, (T \ {x}) \cap R)
      BY <3>2
    <3> QED
      BY <3>2, <3>6, <3>7
  <2> QED
    BY <2>1, <2>2
<1> HIDE DEF G
<1>3. S \in G
  BY <1>1, <1>2, FiniteSubsetInduction
<1>4. SumFunctionOnSet(g, S) = SumFunctionOnSet(g, S \cap R) /\ S \cap R = R
  BY <1>3 DEF G
<1>5. IsFiniteSet(R)
  BY FS_Subset
<1>6. SumFunctionOnSet(f, R) = SumFunctionOnSet(g, R)
  BY <1>5, SumCongruent
<1> QED
  BY <1>4, <1>6

LEMMA SumPlus ==
    ASSUME NEW f, NEW g, NEW h, NEW S, IsFiniteSet(S),
           \A x \in S : f[x] \in Int /\ g[x] \in Int /\ h[x] = f[x] + g[x]
    PROVE  SumFunctionOnSet(h, S) = SumFunctionOnSet(f, S) + SumFunctionOnSet(g, S)
<1> DEFINE G == {T \in SUBSET S : SumFunctionOnSet(h, T)
                                    = SumFunctionOnSet(f, T) + SumFunctionOnSet(g, T)}
<1>1. {} \in G
  BY SumEmpty
<1>2. ASSUME NEW T \in SUBSET S, T # {}, \A x \in T : T \ {x} \in G
      PROVE  T \in G
  <2>1. PICK x \in T : TRUE
    BY <1>2
  <2> DEFINE U == T \ {x}
  <2>2. IsFiniteSet(T) /\ IsFiniteSet(U) /\ U \in SUBSET S
    BY FS_Subset
  <2>3. /\ SumFunctionOnSet(f, T) = f[x] + SumFunctionOnSet(f, U)
        /\ SumFunctionOnSet(g, T) = g[x] + SumFunctionOnSet(g, U)
    BY <2>2, SumRemove
  <2>4. SumFunctionOnSet(h, T) = h[x] + SumFunctionOnSet(h, U)
    <3>1. \A y \in T : h[y] \in Int
      OBVIOUS
    <3> QED
      BY <2>2, <3>1, SumRemove
  <2>5. U \in G
    BY <1>2
  <2> HIDE DEF U
  <2>6. SumFunctionOnSet(f, U) \in Int /\ SumFunctionOnSet(g, U) \in Int
    BY <2>2, SumInt
  <2>7. f[x] \in Int /\ g[x] \in Int /\ h[x] = f[x] + g[x]
    OBVIOUS
  <2> QED
    BY <2>3, <2>4, <2>5, <2>6, <2>7
<1> HIDE DEF G
<1>3. \A T \in SUBSET S : T \in G
  BY <1>1, <1>2, FiniteSubsetInduction
<1> QED
  BY <1>3 DEF G

(* A change at one place moves the sum by that change. *)
LEMMA SumUpdate ==
    ASSUME NEW f, NEW g, NEW S, IsFiniteSet(S), NEW y \in S,
           \A x \in S : f[x] \in Int /\ g[x] \in Int,
           \A x \in S \ {y} : f[x] = g[x]
    PROVE  SumFunctionOnSet(g, S) = SumFunctionOnSet(f, S) - f[y] + g[y]
<1> DEFINE R == S \ {y}
<1>1. IsFiniteSet(R)
  BY FS_Subset
<1>2. /\ SumFunctionOnSet(f, S) = f[y] + SumFunctionOnSet(f, R)
      /\ SumFunctionOnSet(g, S) = g[y] + SumFunctionOnSet(g, R)
  BY SumRemove
<1>3. SumFunctionOnSet(f, R) = SumFunctionOnSet(g, R) /\ SumFunctionOnSet(f, R) \in Int
  BY <1>1, SumCongruent, SumInt
<1> QED
  BY <1>2, <1>3

(* A table of numbers, m by rows and n by columns, adds up the same by     *)
(* rows and by columns.                                                    *)
Transposed(m, n, R, C) ==
    \A r \in R, c \in C : m[r][c] \in Int /\ n[c][r] = m[r][c]

AddsUp(row, m, R, C) == \A r \in R : row[r] = SumFunctionOnSet(m[r], C)

LEMMA SumTable ==
    ASSUME NEW m, NEW n, NEW R, NEW C, IsFiniteSet(R), IsFiniteSet(C),
           Transposed(m, n, R, C),
           NEW row, AddsUp(row, m, R, C),
           NEW col, AddsUp(col, n, C, R)
    PROVE  SumFunctionOnSet(row, R) = SumFunctionOnSet(col, C)
<1> USE DEF Transposed, AddsUp
<1> DEFINE part(T) == [c \in C |-> SumFunctionOnSet(n[c], T)]
           G == {T \in SUBSET R : SumFunctionOnSet(row, T) = SumFunctionOnSet(part(T), C)}
<1>1. {} \in G
  <2>1. \A c \in C : part({})[c] = 0
    BY SumEmpty
  <2> HIDE DEF part
  <2> QED
    BY <2>1, SumEmpty, SumZero
<1>2. ASSUME NEW T \in SUBSET R, T # {}, \A x \in T : T \ {x} \in G
      PROVE  T \in G
  <2>1. PICK x \in T : TRUE
    BY <1>2
  <2> DEFINE U == T \ {x}
             line == m[x]
  <2>2. IsFiniteSet(T) /\ IsFiniteSet(U) /\ U \in SUBSET R
    BY FS_Subset
  <2>3. \A c \in C : /\ line[c] \in Int
                     /\ part(U)[c] \in Int
                     /\ part(T)[c] = line[c] + part(U)[c]
    <3>1. TAKE c \in C
    <3> DEFINE f == n[c]
    <3>2. \A r \in R : f[r] \in Int
      OBVIOUS
    <3>3. f[x] = m[x][c]
      OBVIOUS
    <3> HIDE DEF f
    <3>4. SumFunctionOnSet(f, U) \in Int
      BY <2>2, <3>2, SumInt
    <3>5. SumFunctionOnSet(f, T) = f[x] + SumFunctionOnSet(f, U)
      BY <2>2, <3>2, SumRemove
    <3> QED
      BY <3>2, <3>3, <3>4, <3>5 DEF f
  <2>4. U \in G
    BY <1>2
  <2>5. row[x] = SumFunctionOnSet(line, C)
    OBVIOUS
  <2>6. \A r \in R : row[r] \in Int
    <3>1. TAKE r \in R
    <3> DEFINE f == m[r]
    <3>2. \A c \in C : f[c] \in Int
      OBVIOUS
    <3>3. row[r] = SumFunctionOnSet(f, C)
      OBVIOUS
    <3> HIDE DEF f
    <3> QED
      BY <3>2, <3>3, SumInt
  <2>7. SumFunctionOnSet(row, T) = row[x] + SumFunctionOnSet(row, U)
    BY <2>2, <2>6, SumRemove
  <2>8. SumFunctionOnSet(row, U) = SumFunctionOnSet(part(U), C)
    BY <2>4
  <2> HIDE DEF U, line, part
  <2>9. SumFunctionOnSet(part(T), C)
          = SumFunctionOnSet(line, C) + SumFunctionOnSet(part(U), C)
    BY <2>3, SumPlus
  <2>10. SumFunctionOnSet(row, T) = SumFunctionOnSet(part(T), C)
    BY <2>5, <2>7, <2>8, <2>9
  <2> QED
    BY <2>10
<1>3. R \in G
  <2> HIDE DEF G
  <2> QED
    BY <1>1, <1>2, FiniteSubsetInduction
<1>4. SumFunctionOnSet(row, R) = SumFunctionOnSet(part(R), C)
  BY <1>3
<1>5. \A c \in C : part(R)[c] = col[c]
  OBVIOUS
<1> HIDE DEF part
<1>6. SumFunctionOnSet(part(R), C) = SumFunctionOnSet(col, C)
  BY <1>5, SumCongruent
<1> QED
  BY <1>4, <1>6

(***************************************************************************)
(* Runs, their totals and their payment.                                   *)
(***************************************************************************)

Typed == TypeOK /\ \A c \in Clients : RequestOK(c)

LEMMA FiniteKeys == IsFiniteSet(Keys)
BY FiniteAssumption, FS_Product DEF Keys

LEMMA TotalNat ==
  ASSUME NEW lines \in Sheets
  PROVE  Total(lines) \in Nat
<1> DEFINE f == [e \in Employees |-> Net(lines[e])]
<1>1. \A e \in Employees : f[e] \in Nat
  BY DEF Sheets, Line, Net
<1> HIDE DEF f
<1>2. SumFunctionOnSet(f, Employees) \in Nat
  BY <1>1, FiniteAssumption, SumNat
<1> QED
  BY <1>2 DEF f, Total

LEMMA NetNat ==
  ASSUME NEW base \in Int, NEW bonus \in Int, NEW deductions \in Int, NEW advance \in Int
  PROVE  CalcNet(base, bonus, deductions, advance) \in Nat
BY DEF CalcNet

LEMMA NewLinesType ==
  ASSUME NEW r, r.read \in [Employees -> Staff]
  PROVE  /\ NewLines(r) \in Sheets
         /\ \A e \in Employees : NewLines(r)[e] # None <=> r.read[e].branch = r.at
<1>1. ASSUME NEW e \in Employees PROVE NewLine(r.read[e]) \in Line /\ NewLine(r.read[e]) # None
  <2>1. r.read[e].base \in Nat /\ r.read[e].advance \in Int
    BY DEF Staff
  <2>2. Least(r.read[e].advance, r.read[e].base) \in Int
    BY <2>1 DEF Least
  <2>3. CalcNet(r.read[e].base, 0, 0, Least(r.read[e].advance, r.read[e].base)) \in Nat
    BY <2>1, <2>2 DEF CalcNet
  <2>4. NewLine(r.read[e]) \in Line
    BY <2>1, <2>2, <2>3 DEF NewLine, Line
  <2> QED
    BY <2>4, NoneAssumption
<1> QED
  BY <1>1 DEF NewLines, Sheets

LEMMA SeenType ==
  ASSUME NEW lines \in Sheets, NEW e \in Employees, NEW line \in Line
  PROVE  [lines EXCEPT ![e] = line] \in Sheets
BY DEF Sheets

(* Employees, runs and lines are never removed. *)
Growing ==
  /\ \A e \in Employees : staff[e] # Nobody => staff'[e] # Nobody
  /\ \A k \in Keys : payroll[k] # None =>
        /\ payroll'[k] # None
        /\ \A e \in Employees : payroll[k].lines[e] # None => payroll'[k].lines[e] # None

LEMMA RequestKept ==
  ASSUME Growing, DOMAIN expenses \subseteq DOMAIN expenses',
         NEW c \in Clients, RequestOK(c), request'[c] = request[c] \/ request'[c] = Idle
  PROVE  RequestOK(c)'
<1>1. CASE request'[c] = request[c]
  BY <1>1 DEF RequestOK, Growing
<1>2. CASE request'[c] = Idle
  BY <1>2 DEF RequestOK, Idle
<1> QED
  BY <1>1, <1>2

LEMMA Unchanging ==
  ASSUME UNCHANGED <<staff, payroll>>
  PROVE  Growing
BY DEF Growing

(* The steps of employees and of generations. *)
LEMMA EmployeesTyped ==
  ASSUME Typed, NEW e \in Employees,
         \/ \E b \in Branches, base \in Salaries : CreateEmployee(e, b, base)
         \/ \E base \in Salaries, active \in BOOLEAN : UpdateEmployee(e, base, active)
         \/ \E amount \in Amounts : RecordAdvance(e, amount)
  PROVE  Typed'
<1>1. TypeOK' /\ \A x \in Employees : staff[x] # Nobody => staff'[x] # Nobody
  <2>1. \A base \in Salaries : base \in Nat
    BY NumbersAssumption
  <2>2. \A amount \in Amounts : amount \in Nat
    BY NumbersAssumption
  <2>3. /\ UNCHANGED <<payroll, expenses, request>>
        /\ given' = given \/ \E amount \in Amounts : given' = [given EXCEPT ![e] = @ + amount]
    BY DEF CreateEmployee, UpdateEmployee, RecordAdvance, history
  <2> given' \in [Employees -> Int]
    BY <2>2, <2>3 DEF Typed, TypeOK
  <2> DEFINE n == staff[e]
             Written(r) == staff' = [staff EXCEPT ![e] = r] /\ r \in Staff
                           /\ r.branch \in Branches
  <2>4. n \in Staff /\ n.advance \in Int /\ (n # Nobody => n.branch \in Branches)
        /\ e \in DOMAIN staff
    BY DEF Typed, TypeOK, Staff
  <2>5. ASSUME NEW b \in Branches, NEW base \in Salaries, CreateEmployee(e, b, base)
        PROVE  Written([branch |-> b, active |-> TRUE, base |-> base, advance |-> 0])
    BY <2>1, <2>5 DEF CreateEmployee, Staff
  <2>6. ASSUME NEW base \in Salaries, NEW active \in BOOLEAN, UpdateEmployee(e, base, active)
        PROVE  Written([n EXCEPT !.base = base, !.active = active])
    BY <2>1, <2>4, <2>6 DEF UpdateEmployee, Staff
  <2>7. ASSUME NEW amount \in Amounts, RecordAdvance(e, amount)
        PROVE  Written([n EXCEPT !.advance = @ + amount])
    <3>1. n # Nobody
      BY <2>7 DEF RecordAdvance, Nobody
    <3> QED
      BY <2>2, <2>4, <2>7, <3>1 DEF RecordAdvance, Staff
  <2>8. ASSUME NEW r, Written(r)
        PROVE  TypeOK' /\ \A x \in Employees : staff[x] # Nobody => staff'[x] # Nobody
    <3>1. r # Nobody
      BY <2>8, NoneAssumption DEF Nobody
    <3>2. staff'[e] = r /\ \A x \in Employees \ {e} : staff'[x] = staff[x]
      BY <2>4, <2>8 DEF Typed, TypeOK
    <3>3. staff' \in [Employees -> Staff]
      BY <2>8 DEF Typed, TypeOK
    <3> QED
      BY <2>3, <2>8, <3>1, <3>2, <3>3 DEF Typed, TypeOK
  <2> HIDE DEF Written, n
  <2> QED
    BY <2>5, <2>6, <2>7, <2>8
<1>2. UNCHANGED <<payroll, expenses, request>>
  BY DEF CreateEmployee, UpdateEmployee, RecordAdvance
<1>3. Growing
  BY <1>1, <1>2 DEF Growing
<1>4. \A c \in Clients : RequestOK(c)'
  BY <1>2, <1>3, RequestKept DEF Typed
<1> QED
  BY <1>1, <1>4 DEF Typed

LEMMA GenerateTyped ==
  ASSUME Typed, NEW c \in Clients, NEW p \in Periods, NEW b \in Branches \cup {None}, Generate(c, p, b)
  PROVE  Typed'
<1>1. TypeOK'
  BY DEF Typed, TypeOK, Generate
<1>2. /\ UNCHANGED <<staff, payroll, expenses>>
      /\ \A d \in Clients \ {c} : request'[d] = request[d]
  BY DEF Typed, TypeOK, Generate
<1>3. RequestOK(c)'
  <2>1. request'[c] = [is |-> "generate", period |-> p,
          read |-> [e \in Employees |-> IF e \in Scope(b) THEN staff[e] ELSE Nobody],
          todo |-> {staff[e].branch : e \in Scope(b)}]
    BY DEF Typed, TypeOK, Generate
  <2>2. Nobody \in Staff /\ staff \in [Employees -> Staff]
    BY DEF Nobody, Staff, Typed, TypeOK
  <2>3. \A e \in Scope(b) : staff[e] # Nobody /\ staff[e].branch \in Branches
    BY DEF Typed, TypeOK, Scope, Nobody
  <2> QED
    BY <1>2, <2>1, <2>2, <2>3 DEF RequestOK
<1> QED
  BY <1>1, <1>2, <1>3, Unchanging, RequestKept DEF Typed

LEMMA PassTyped ==
  ASSUME Typed, NEW c \in Clients, NEW b \in Branches, Pass(c, b) \/ Start(c, b)
  PROVE  Typed'
<1>1. UNCHANGED <<staff, payroll, expenses, given>>
  BY DEF Pass, Start, history
<1>2. DOMAIN request' = Clients /\ \A d \in Clients \ {c} : request'[d] = request[d]
  BY DEF Typed, TypeOK, Pass, Start
<1>3. TypeOK'
  BY <1>1, <1>2 DEF Typed, TypeOK
<1>4. /\ request[c].period \in Periods /\ request[c].read \in [Employees -> Staff]
      /\ request[c].todo \subseteq Branches /\ b \in request[c].todo
      /\ \A e \in Employees : request[c].read[e] # Nobody =>
           staff[e] # Nobody /\ request[c].read[e].branch \in Branches
  BY DEF Typed, RequestOK, Pass, Start
<1>5. RequestOK(c)'
  <2>1. CASE Pass(c, b)
    <3>1. request'[c] = Later(request[c], b)
      BY <2>1 DEF Pass, Typed, TypeOK
    <3>2. CASE request[c].todo = {b}
      BY <3>1, <3>2 DEF Later, Idle, RequestOK
    <3>3. CASE request[c].todo # {b}
      BY <1>1, <1>4, <3>1, <3>3 DEF Later, RequestOK
    <3> QED
      BY <3>2, <3>3
  <2>2. CASE Start(c, b)
    <3>1. request'[c] = [is |-> "create", period |-> request[c].period, read |-> request[c].read,
                         todo |-> request[c].todo, at |-> b]
      BY <2>2 DEF Start, Typed, TypeOK
    <3> QED
      BY <1>1, <1>4, <3>1 DEF RequestOK
  <2> QED
    BY <2>1, <2>2
<1> QED
  BY <1>1, <1>2, <1>3, <1>5, Unchanging, RequestKept DEF Typed

(* What creating a run writes. *)
LEMMA RunCreated ==
  ASSUME Typed, NEW c \in Clients, CreateRun(c)
  PROVE  LET r == request[c]
             k == <<r.period, r.at>>
             run == [status |-> "DRAFT", total |-> Total(NewLines(r)), txn |-> None,
                     paidAt |-> None, lines |-> NewLines(r)]
         IN  /\ k \in Keys /\ payroll[k] = None /\ run \in Run /\ run # None
             /\ payroll'[k] = run
             /\ \A j \in Keys \ {k} : payroll'[j] = payroll[j]
             /\ DOMAIN payroll' = Keys /\ payroll' \in [Keys -> Run \cup {None}]
             /\ NewLines(r) \in Sheets
             /\ r.read \in [Employees -> Staff] /\ r.at \in r.todo /\ r.todo \subseteq Branches
             /\ \A e \in Employees : NewLines(r)[e] # None <=> r.read[e].branch = r.at
<1> DEFINE r == request[c]
           k == <<r.period, r.at>>
           run == [status |-> "DRAFT", total |-> Total(NewLines(r)), txn |-> None,
                   paidAt |-> None, lines |-> NewLines(r)]
<1>1. /\ r.period \in Periods /\ r.read \in [Employees -> Staff] /\ r.at \in Branches
      /\ r.at \in r.todo /\ r.todo \subseteq Branches
  BY DEF Typed, RequestOK, CreateRun
<1>2. k \in Keys
  BY <1>1 DEF Keys
<1>3. /\ NewLines(r) \in Sheets
      /\ \A e \in Employees : NewLines(r)[e] # None <=> r.read[e].branch = r.at
  BY <1>1, NewLinesType
<1>4. Total(NewLines(r)) \in Nat
  BY <1>3, TotalNat
<1>5. run \in Run
  BY <1>3, <1>4 DEF Run
<1>6. run # None
  BY <1>5, NoneAssumption
<1>7. payroll[k] = None /\ payroll' = [payroll EXCEPT ![k] = run]
  BY DEF CreateRun
<1>8. payroll \in [Keys -> Run \cup {None}]
  BY DEF Typed, TypeOK
<1> HIDE DEF run, k
<1>9. /\ payroll'[k] = run /\ \A j \in Keys \ {k} : payroll'[j] = payroll[j]
      /\ DOMAIN payroll' = Keys /\ payroll' \in [Keys -> Run \cup {None}]
  BY <1>2, <1>5, <1>7, <1>8
<1> QED
  BY <1>1, <1>2, <1>3, <1>5, <1>6, <1>7, <1>9 DEF k, run

LEMMA StaffAfterDraw ==
  ASSUME Typed, NEW lines \in Sheets
  PROVE  /\ DrawDown(lines) \in [Employees -> Staff]
         /\ \A e \in Employees :
              /\ DrawDown(lines)[e].branch = staff[e].branch
              /\ DrawDown(lines)[e].advance
                   = staff[e].advance - (IF lines[e] = None THEN 0 ELSE lines[e].advance)
              /\ lines[e] = None => DrawDown(lines)[e] = staff[e]
<1>1. ASSUME NEW e \in Employees
      PROVE  /\ staff[e] \in Staff /\ staff[e].advance \in Int
             /\ lines[e] # None => lines[e].advance \in Int
  BY DEF Typed, TypeOK, Staff, Sheets, Line
<1>2. ASSUME NEW e \in Employees, lines[e] # None
      PROVE  LET n == [staff[e] EXCEPT !.advance = @ - lines[e].advance]
             IN  /\ n \in Staff /\ n.branch = staff[e].branch
                 /\ n.advance = staff[e].advance - lines[e].advance
  BY <1>1, <1>2 DEF Staff
<1>3. \A e \in Employees : staff[e].advance - 0 = staff[e].advance
  BY <1>1
<1> QED
  BY <1>1, <1>2, <1>3 DEF DrawDown

LEMMA CreateTyped ==
  ASSUME Typed, NEW c \in Clients, CreateRun(c) \/ CreateRefused(c)
  PROVE  Typed'
<1>1. UNCHANGED <<expenses, given>> /\ request[c].is = "create"
  BY DEF CreateRun, CreateRefused, history
<1>2. DOMAIN request' = Clients /\ \A d \in Clients \ {c} : request'[d] = request[d]
  BY DEF Typed, TypeOK, CreateRun, CreateRefused
<1>3. CASE CreateRun(c)
  <2> DEFINE r == request[c]
  <2>1. /\ payroll' \in [Keys -> Run \cup {None}] /\ NewLines(r) \in Sheets
        /\ r.read \in [Employees -> Staff] /\ r.at \in r.todo /\ r.todo \subseteq Branches
        /\ \A e \in Employees : NewLines(r)[e] # None <=> r.read[e].branch = r.at
    BY <1>3, RunCreated
  <2>3. staff' = DrawDown(NewLines(r)) /\ request'[c] = Later(r, r.at)
    BY <1>3 DEF CreateRun, Typed, TypeOK
  <2>4. staff' \in [Employees -> Staff]
    BY <2>1, <2>3, StaffAfterDraw
  <2>5. /\ \A e \in Employees : staff'[e] # Nobody => staff'[e].branch \in Branches
        /\ \A e \in Employees : staff[e] # Nobody => staff'[e] # Nobody
    <3> SUFFICES ASSUME NEW e \in Employees
                 PROVE  /\ staff'[e] # Nobody => staff'[e].branch \in Branches
                        /\ staff[e] # Nobody => staff'[e] # Nobody
      OBVIOUS
    <3>1. staff'[e].branch = staff[e].branch /\ (NewLines(r)[e] = None => staff'[e] = staff[e])
      BY <2>1, <2>3, StaffAfterDraw
    <3>2. NewLines(r)[e] # None => staff[e] # Nobody
      <4>1. NewLines(r)[e] # None => r.read[e] # Nobody
        BY <2>1, NoneAssumption DEF Nobody
      <4> QED
        BY <1>1, <4>1 DEF Typed, RequestOK
    <3>3. staff[e] # Nobody => staff[e].branch \in Branches
      BY DEF Typed, TypeOK
    <3>4. Nobody.branch \notin Branches
      BY NoneAssumption DEF Nobody
    <3> QED
      BY <3>1, <3>2, <3>3, <3>4
  <2>8. Growing
    BY <1>3, <2>5, RunCreated DEF Growing
  <2>6. TypeOK'
    BY <1>1, <1>2, <2>1, <2>4, <2>5 DEF Typed, TypeOK
  <2>7. RequestOK(c)'
    <3>1. /\ r.period \in Periods
          /\ \A e \in Employees : r.read[e] # Nobody =>
               staff'[e] # Nobody /\ r.read[e].branch \in Branches
      BY <1>1, <2>5 DEF Typed, RequestOK
    <3>2. CASE r.todo = {r.at}
      BY <2>3, <3>2 DEF Later, Idle, RequestOK
    <3>3. CASE r.todo # {r.at}
      <4>1. request'[c] = [is |-> "generate", period |-> r.period, read |-> r.read,
                           todo |-> r.todo \ {r.at}]
        BY <2>3, <3>3 DEF Later
      <4> QED
        BY <2>1, <3>1, <4>1 DEF RequestOK
    <3> QED
      BY <3>2, <3>3
  <2> QED
    BY <1>1, <1>2, <2>6, <2>7, <2>8, RequestKept DEF Typed
<1>4. CASE CreateRefused(c)
  <2>1. UNCHANGED <<staff, payroll>> /\ request'[c] = Idle
    BY <1>4 DEF CreateRefused, Typed, TypeOK
  <2>2. TypeOK'
    BY <1>1, <1>2, <2>1 DEF Typed, TypeOK
  <2> QED
    BY <1>1, <1>2, <2>1, <2>2, Unchanging, RequestKept DEF Typed
<1> QED
  BY <1>3, <1>4

(* What reading a line for its correction makes of the request. *)
LEMMA LineEdited ==
  ASSUME Typed, NEW c \in Clients, NEW k \in Keys, NEW e \in Employees,
         NEW field \in Fields, NEW v \in Amounts, EditLine(c, k, e, field, v)
  PROVE  /\ request[c] = Idle
         /\ payroll[k] # None /\ payroll[k].status # "PAID" /\ payroll[k].lines[e] # None
         /\ request'[c].is = "edit" /\ request'[c].run = k /\ request'[c].employee = e
         /\ request'[c].line \in Line
         /\ field # "advance" => request'[c].line.advance = payroll[k].lines[e].advance
         /\ DOMAIN request' = Clients /\ \A d \in Clients \ {c} : request'[d] = request[d]
         /\ UNCHANGED <<staff, payroll, expenses, given, crossed, doubled>>
<1> DEFINE old == payroll[k].lines[e]
           l == [old EXCEPT ![field] = v]
           n == [l EXCEPT !.net = CalcNet(l.base, l.bonus, l.deductions, l.advance)]
<1>1. UNCHANGED <<staff, payroll, expenses, given, crossed, doubled>>
  BY DEF EditLine
<1>2. DOMAIN request' = Clients /\ \A d \in Clients \ {c} : request'[d] = request[d]
  BY DEF Typed, TypeOK, EditLine
<1>3. request[c] = Idle /\ payroll[k].status # "PAID"
  BY DEF EditLine
<1>4. payroll[k] # None /\ old # None /\ v \in Nat
  BY NumbersAssumption DEF EditLine
<1>5. old \in Line
  BY <1>4 DEF Typed, TypeOK, Run, Sheets
<1>6. l \in Line /\ (field # "advance" => l.advance = old.advance)
  BY <1>4, <1>5 DEF Line, Fields
<1>7. CalcNet(l.base, l.bonus, l.deductions, l.advance) \in Nat
  <2> HIDE DEF l
  <2>1. l.base \in Int /\ l.bonus \in Int /\ l.deductions \in Int /\ l.advance \in Int
    BY <1>6 DEF Line
  <2> QED
    BY <2>1 DEF CalcNet
<1>8. n \in Line /\ n.advance = l.advance
  <2> HIDE DEF l
  <2> QED
    BY <1>6, <1>7 DEF Line
<1>9. request'[c] = [is |-> "edit", run |-> k, employee |-> e, line |-> n]
  BY DEF EditLine, Typed, TypeOK
<1> HIDE DEF n, l, old
<1>10. /\ request'[c].is = "edit" /\ request'[c].run = k /\ request'[c].employee = e
       /\ request'[c].line = n
  BY <1>9
<1> QED
  BY <1>1, <1>2, <1>3, <1>4, <1>6, <1>8, <1>10 DEF old

LEMMA EditTyped ==
  ASSUME Typed, NEW c \in Clients, NEW k \in Keys, NEW e \in Employees,
         NEW field \in Fields, NEW v \in Amounts, EditLine(c, k, e, field, v)
  PROVE  Typed'
<1>1. /\ payroll[k] # None /\ payroll[k].lines[e] # None
      /\ request'[c].is = "edit" /\ request'[c].run = k /\ request'[c].employee = e
      /\ request'[c].line \in Line
      /\ DOMAIN request' = Clients /\ \A d \in Clients \ {c} : request'[d] = request[d]
      /\ UNCHANGED <<staff, payroll, expenses, given>>
  BY LineEdited
<1>2. TypeOK'
  BY <1>1 DEF Typed, TypeOK
<1>3. RequestOK(c)'
  BY <1>1 DEF RequestOK
<1> QED
  BY <1>1, <1>2, <1>3, Unchanging, RequestKept DEF Typed

LEMMA SumTyped ==
  ASSUME Typed, NEW c \in Clients, SumLines(c)
  PROVE  Typed'
<1> DEFINE r == request[c]
<1>1. UNCHANGED <<staff, payroll, expenses, given>>
  BY DEF SumLines
<1>2. DOMAIN request' = Clients /\ \A d \in Clients \ {c} : request'[d] = request[d]
  BY DEF Typed, TypeOK, SumLines
<1>3. TypeOK'
  BY <1>1, <1>2 DEF Typed, TypeOK
<1>4. /\ r.run \in Keys /\ payroll[r.run] # None /\ r.line \in Line /\ r.employee \in Employees
      /\ payroll[r.run].lines[r.employee] # None
  BY DEF SumLines, Typed, RequestOK
<1>5. Total(Seen(r)) \in Nat
  <2>1. payroll[r.run].lines \in Sheets
    BY <1>4 DEF Typed, TypeOK, Run
  <2> QED
    BY <1>4, <2>1, SeenType, TotalNat DEF Seen
<1>6. request'[c] = [is |-> "sum", run |-> r.run, employee |-> r.employee, line |-> r.line,
                     total |-> Total(Seen(r))]
  BY DEF SumLines, Typed, TypeOK
<1>7. RequestOK(c)'
  BY <1>1, <1>4, <1>5, <1>6 DEF RequestOK
<1> QED
  BY <1>1, <1>2, <1>3, <1>7, Unchanging, RequestKept DEF Typed

(* What committing an edit writes. *)
LEMMA LineCommitted ==
  ASSUME Typed, NEW c \in Clients, CommitLine(c)
  PROVE  LET r == request[c]
         IN  /\ r.is = "sum" /\ r.run \in Keys /\ payroll[r.run] # None
             /\ r.employee \in Employees /\ r.line \in Line /\ r.line # None
             /\ payroll[r.run].lines \in Sheets /\ payroll[r.run].lines[r.employee] # None
             /\ payroll'[r.run] # None
             /\ payroll'[r.run].lines = Seen(r) /\ payroll'[r.run].total = r.total
             /\ payroll'[r.run].status = payroll[r.run].status
             /\ payroll'[r.run].txn = payroll[r.run].txn
             /\ payroll'[r.run].paidAt = payroll[r.run].paidAt
             /\ \A j \in Keys \ {r.run} : payroll'[j] = payroll[j]
             /\ payroll' \in [Keys -> Run \cup {None}]
             /\ request'[c] = Idle
             /\ DOMAIN request' = Clients /\ \A d \in Clients \ {c} : request'[d] = request[d]
             /\ UNCHANGED <<staff, expenses, history>>
<1> DEFINE r == request[c]
           k == r.run
           run == payroll[k]
           new == Corrected(run, r)
<1>1. /\ r.is = "sum" /\ k \in Keys /\ run # None /\ r.employee \in Employees /\ r.line \in Line
      /\ r.total \in Nat /\ run.lines[r.employee] # None
  BY DEF Typed, RequestOK, CommitLine
<1>2. run \in Run
  BY <1>1 DEF Typed, TypeOK
<1>3. run.lines \in Sheets
  BY <1>2 DEF Run
<1>4. [run.lines EXCEPT ![r.employee] = r.line] \in Sheets
  BY <1>1, <1>3, SeenType
<1>5. /\ new \in Run /\ new.lines = [run.lines EXCEPT ![r.employee] = r.line]
      /\ new.total = r.total /\ new.status = run.status /\ new.txn = run.txn
      /\ new.paidAt = run.paidAt
  BY <1>1, <1>2, <1>4 DEF Run, Corrected
<1>6. new # None /\ r.line # None
  BY <1>1, <1>5, NoneAssumption
<1>7. payroll' = [payroll EXCEPT ![k] = new] /\ payroll \in [Keys -> Run \cup {None}]
  BY DEF CommitLine, Typed, TypeOK
<1> HIDE DEF new
<1>8. /\ payroll'[k] = new /\ \A j \in Keys \ {k} : payroll'[j] = payroll[j]
      /\ payroll' \in [Keys -> Run \cup {None}]
  BY <1>1, <1>5, <1>7
<1>9. /\ request'[c] = Idle
      /\ DOMAIN request' = Clients /\ \A d \in Clients \ {c} : request'[d] = request[d]
      /\ UNCHANGED <<staff, expenses, history>>
  <2>1. request' = [request EXCEPT ![c] = Idle] /\ UNCHANGED <<staff, expenses, history>>
    BY DEF CommitLine
  <2> QED
    BY <2>1 DEF Typed, TypeOK
<1> QED
  BY <1>1, <1>3, <1>5, <1>6, <1>8, <1>9 DEF Seen

LEMMA CommitTyped ==
  ASSUME Typed, NEW c \in Clients, CommitLine(c)
  PROVE  Typed'
<1> DEFINE r == request[c]
<1>1. /\ payroll' \in [Keys -> Run \cup {None}] /\ UNCHANGED <<staff, expenses, history>>
      /\ DOMAIN request' = Clients
  BY LineCommitted
<1>2. TypeOK'
  BY <1>1 DEF Typed, TypeOK, history
<1>3. \A d \in Clients : request'[d] = request[d] \/ request'[d] = Idle
  BY LineCommitted
<1>4. Growing
  <2> SUFFICES ASSUME NEW k \in Keys, payroll[k] # None
               PROVE  /\ payroll'[k] # None
                      /\ \A e \in Employees :
                           payroll[k].lines[e] # None => payroll'[k].lines[e] # None
    BY <1>1 DEF Growing
  <2>1. CASE k # r.run
    BY <2>1, LineCommitted
  <2>2. CASE k = r.run
    <3>1. /\ payroll'[k] # None /\ payroll'[k].lines = [payroll[k].lines EXCEPT ![r.employee] = r.line]
          /\ payroll[k].lines \in Sheets /\ r.line # None
      BY <2>2, LineCommitted DEF Seen
    <3> QED
      BY <3>1 DEF Sheets
  <2> QED
    BY <2>1, <2>2
<1> QED
  BY <1>1, <1>2, <1>3, <1>4, RequestKept DEF Typed

LEMMA PayTyped ==
  ASSUME Typed, NEW c \in Clients, NEW k \in Keys, Pay(c, k)
  PROVE  Typed'
<1>1. UNCHANGED <<staff, payroll, expenses, given>>
  BY DEF Pay
<1>2. DOMAIN request' = Clients /\ \A d \in Clients \ {c} : request'[d] = request[d]
  BY DEF Typed, TypeOK, Pay
<1>3. TypeOK'
  BY <1>1, <1>2 DEF Typed, TypeOK
<1>4. payroll[k] # None /\ payroll[k].total \in Nat
  BY DEF Pay, Payable, Typed, TypeOK, Run
<1>5. request'[c] = [is |-> "pay", run |-> k, total |-> payroll[k].total]
  BY DEF Pay, Typed, TypeOK
<1>6. RequestOK(c)'
  BY <1>1, <1>4, <1>5 DEF RequestOK
<1> QED
  BY <1>1, <1>2, <1>3, <1>6, Unchanging, RequestKept DEF Typed

LEMMA ExpensesAre ==
  ASSUME Typed
  PROVE  /\ Len(expenses) \in Nat /\ DOMAIN expenses = 1 .. Len(expenses)
         /\ \A x \in DOMAIN expenses : expenses[x] \in Expense
BY DEF Typed, TypeOK

(* What posting the expense of a run writes. *)
LEMMA ExpensePosted ==
  ASSUME Typed, NEW c \in Clients, PostExpense(c)
  PROVE  LET r == request[c]
             n == Len(expenses) + 1
         IN  /\ r.is = "pay" /\ r.run \in Keys /\ payroll[r.run] # None
             /\ n \notin DOMAIN expenses
             /\ DOMAIN expenses' = DOMAIN expenses \cup {n} /\ expenses' \in Seq(Expense)
             /\ \A x \in DOMAIN expenses : expenses'[x] = expenses[x]
             /\ expenses'[n] = [run |-> r.run, total |-> r.total, deleted |-> FALSE]
             /\ request'[c] = [is |-> "posted", run |-> r.run, txn |-> n]
             /\ DOMAIN request' = Clients /\ \A d \in Clients \ {c} : request'[d] = request[d]
             /\ UNCHANGED <<staff, payroll, history>>
<1> DEFINE r == request[c]
           n == Len(expenses) + 1
           x == [run |-> r.run, total |-> r.total, deleted |-> FALSE]
<1>1. r.is = "pay" /\ r.run \in Keys /\ payroll[r.run] # None /\ r.total \in Nat
  BY DEF PostExpense, Typed, RequestOK
<1>2. x \in Expense
  BY <1>1 DEF Expense
<1>3. expenses \in Seq(Expense) /\ expenses' = Append(expenses, x)
  BY DEF PostExpense, Typed, TypeOK
<1> HIDE DEF x
<1>4. /\ n \notin DOMAIN expenses
      /\ DOMAIN expenses' = DOMAIN expenses \cup {n} /\ expenses' \in Seq(Expense)
      /\ \A y \in DOMAIN expenses : expenses'[y] = expenses[y]
      /\ expenses'[n] = x
  BY <1>2, <1>3
<1>5. /\ request'[c] = [is |-> "posted", run |-> r.run, txn |-> n]
      /\ DOMAIN request' = Clients /\ \A d \in Clients \ {c} : request'[d] = request[d]
      /\ UNCHANGED <<staff, payroll, history>>
  BY DEF PostExpense, Typed, TypeOK
<1> QED
  BY <1>1, <1>4, <1>5 DEF x

LEMMA PostTyped ==
  ASSUME Typed, NEW c \in Clients, PostExpense(c)
  PROVE  Typed'
<1> DEFINE r == request[c]
           n == Len(expenses) + 1
<1>1. /\ UNCHANGED <<staff, payroll, history>> /\ DOMAIN request' = Clients
      /\ expenses' \in Seq(Expense) /\ DOMAIN expenses' = DOMAIN expenses \cup {n}
      /\ \A d \in Clients \ {c} : request'[d] = request[d]
  BY ExpensePosted
<1>2. TypeOK'
  BY <1>1 DEF Typed, TypeOK, history
<1>3. RequestOK(c)'
  <2>1. /\ request'[c] = [is |-> "posted", run |-> r.run, txn |-> n]
        /\ r.run \in Keys /\ payroll'[r.run] # None
    BY <1>1, ExpensePosted
  <2> QED
    BY <1>1, <2>1 DEF RequestOK
<1>4. Growing
  BY <1>1, Unchanging
<1> QED
  BY <1>1, <1>2, <1>3, <1>4, RequestKept DEF Typed

(* What marking a run paid writes. *)
LEMMA RunMarked ==
  ASSUME Typed, NEW c \in Clients, NEW m \in Months, MarkPaid(c, m)
  PROVE  LET r == request[c]
         IN  /\ r.is = "posted" /\ r.run \in Keys /\ r.txn \in DOMAIN expenses
             /\ payroll[r.run] # None /\ payroll'[r.run] # None
             /\ payroll'[r.run].status = "PAID" /\ payroll'[r.run].txn = r.txn
             /\ payroll'[r.run].paidAt = m
             /\ payroll'[r.run].lines = payroll[r.run].lines
             /\ payroll'[r.run].total = payroll[r.run].total
             /\ \A j \in Keys \ {r.run} : payroll'[j] = payroll[j]
             /\ payroll' \in [Keys -> Run \cup {None}]
             /\ request'[c] = Idle
             /\ DOMAIN request' = Clients /\ \A d \in Clients \ {c} : request'[d] = request[d]
             /\ UNCHANGED <<staff, expenses, history>>
<1> DEFINE r == request[c]
           k == r.run
           run == payroll[k]
           new == [run EXCEPT !.status = "PAID", !.txn = r.txn, !.paidAt = m]
<1>1. r.is = "posted" /\ k \in Keys /\ run # None /\ r.txn \in DOMAIN expenses
  BY DEF Typed, RequestOK, MarkPaid
<1>2. run \in Run /\ r.txn \in Nat
  BY <1>1, ExpensesAre DEF Typed, TypeOK
<1>3. /\ new \in Run /\ new.lines = run.lines /\ new.total = run.total
      /\ new.status = "PAID" /\ new.txn = r.txn /\ new.paidAt = m
  BY <1>2 DEF Run
<1>4. new # None
  BY <1>3, NoneAssumption
<1>5. payroll' = [payroll EXCEPT ![k] = new] /\ payroll \in [Keys -> Run \cup {None}]
  BY DEF MarkPaid, Typed, TypeOK
<1> HIDE DEF new
<1>6. /\ payroll'[k] = new /\ \A j \in Keys \ {k} : payroll'[j] = payroll[j]
      /\ payroll' \in [Keys -> Run \cup {None}]
  BY <1>1, <1>3, <1>5
<1>7. /\ request'[c] = Idle
      /\ DOMAIN request' = Clients /\ \A d \in Clients \ {c} : request'[d] = request[d]
      /\ UNCHANGED <<staff, expenses, history>>
  <2>1. request' = [request EXCEPT ![c] = Idle] /\ UNCHANGED <<staff, expenses, history>>
    BY DEF MarkPaid
  <2> QED
    BY <2>1 DEF Typed, TypeOK
<1> QED
  BY <1>1, <1>3, <1>4, <1>6, <1>7

LEMMA MarkTyped ==
  ASSUME Typed, NEW c \in Clients, NEW m \in Months, MarkPaid(c, m)
  PROVE  Typed'
<1> DEFINE r == request[c]
<1>1. /\ payroll' \in [Keys -> Run \cup {None}] /\ UNCHANGED <<staff, expenses, history>>
      /\ DOMAIN request' = Clients
  BY RunMarked
<1>2. TypeOK'
  BY <1>1 DEF Typed, TypeOK, history
<1>3. \A d \in Clients : request'[d] = request[d] \/ request'[d] = Idle
  BY RunMarked
<1>4. Growing
  <2>1. \A k \in Keys : payroll[k] # None =>
          payroll'[k] # None /\ payroll'[k].lines = payroll[k].lines
    BY RunMarked
  <2> QED
    BY <1>1, <2>1 DEF Growing
<1> QED
  BY <1>1, <1>2, <1>3, <1>4, RequestKept DEF Typed

(* What deleting an expense writes. *)
LEMMA ExpenseDeleted ==
  ASSUME Typed, NEW x \in DOMAIN expenses, DeleteExpense(x)
  PROVE  /\ expenses[x].deleted = FALSE /\ expenses[x].run \in Keys
         /\ expenses' \in Seq(Expense) /\ DOMAIN expenses' = DOMAIN expenses
         /\ \A y \in DOMAIN expenses : /\ expenses'[y].run = expenses[y].run
                                       /\ expenses'[y].total = expenses[y].total
                                       /\ expenses'[y].deleted = (expenses[y].deleted \/ y = x)
         /\ payroll' \in [Keys -> Run \cup {None}]
         /\ \A k \in Keys : payroll[k] = None => payroll'[k] = None
         /\ \A k \in Keys : payroll[k] # None =>
              /\ payroll'[k] # None
              /\ payroll'[k].lines = payroll[k].lines /\ payroll'[k].total = payroll[k].total
              /\ payroll[k].txn # x => payroll'[k] = payroll[k]
              /\ payroll[k].txn = x => /\ payroll'[k].status = "DRAFT" /\ payroll'[k].txn = None
                                       /\ payroll'[k].paidAt = None
         /\ UNCHANGED <<staff, request, given, crossed, doubled, waived>>
<1>1. /\ expenses' = [expenses EXCEPT ![x].deleted = TRUE] /\ ~expenses[x].deleted
      /\ UNCHANGED <<staff, request, given, crossed, doubled, waived>>
  BY DEF DeleteExpense
<1>2. expenses \in Seq(Expense) /\ payroll \in [Keys -> Run \cup {None}]
  BY DEF Typed, TypeOK
<1>3. \A y \in DOMAIN expenses : expenses[y] \in Expense
  BY ExpensesAre
<1>4. [expenses[x] EXCEPT !.deleted = TRUE] \in Expense
  BY <1>3 DEF Expense
<1>5. expenses' \in Seq(Expense) /\ DOMAIN expenses' = DOMAIN expenses
  BY <1>1, <1>2, <1>4
<1>6. \A y \in DOMAIN expenses : /\ expenses'[y].run = expenses[y].run
                                 /\ expenses'[y].total = expenses[y].total
                                 /\ expenses'[y].deleted = (expenses[y].deleted \/ y = x)
  BY <1>1, <1>2, <1>3 DEF Expense
<1>7. \A k \in Keys : payroll[k] # None =>
        LET new == [payroll[k] EXCEPT !.status = "DRAFT", !.txn = None, !.paidAt = None]
        IN  /\ new \in Run /\ new # None /\ new.status = "DRAFT" /\ new.txn = None
            /\ new.paidAt = None /\ new.lines = payroll[k].lines /\ new.total = payroll[k].total
  <2> SUFFICES ASSUME NEW k \in Keys, payroll[k] # None
               PROVE  LET new == [payroll[k] EXCEPT !.status = "DRAFT", !.txn = None, !.paidAt = None]
                      IN  /\ new \in Run /\ new # None /\ new.status = "DRAFT" /\ new.txn = None
                          /\ new.paidAt = None /\ new.lines = payroll[k].lines /\ new.total = payroll[k].total
    OBVIOUS
  <2>1. payroll[k] \in Run
    BY <1>2
  <2>2. [payroll[k] EXCEPT !.status = "DRAFT", !.txn = None, !.paidAt = None] \in Run
    BY <2>1 DEF Run
  <2> QED
    BY <2>1, <2>2, NoneAssumption DEF Run
<1>8. payroll' = [k \in Keys |-> IF payroll[k] # None /\ payroll[k].txn = x
                                 THEN [payroll[k] EXCEPT !.status = "DRAFT", !.txn = None, !.paidAt = None]
                                 ELSE payroll[k]]
  BY DEF DeleteExpense
<1>9. expenses[x].deleted = FALSE /\ expenses[x].run \in Keys
  BY <1>1, <1>3 DEF Expense
<1> QED
  BY <1>1, <1>2, <1>5, <1>6, <1>7, <1>8, <1>9

LEMMA DeleteTyped ==
  ASSUME Typed, NEW x \in DOMAIN expenses, DeleteExpense(x)
  PROVE  Typed'
<1>1. /\ payroll' \in [Keys -> Run \cup {None}] /\ expenses' \in Seq(Expense)
      /\ DOMAIN expenses' = DOMAIN expenses
      /\ UNCHANGED <<staff, request, given, crossed, doubled, waived>>
  BY ExpenseDeleted
<1>2. TypeOK'
  BY <1>1 DEF Typed, TypeOK
<1>3. Growing
  <2>1. \A k \in Keys : payroll[k] # None =>
          payroll'[k] # None /\ payroll'[k].lines = payroll[k].lines
    BY ExpenseDeleted
  <2> QED
    BY <1>1, <2>1 DEF Growing
<1> QED
  BY <1>1, <1>2, <1>3, RequestKept DEF Typed

LEMMA RestoreTyped ==
  ASSUME Typed, NEW x \in DOMAIN expenses, RestoreExpense(x)
  PROVE  Typed'
<1>1. /\ expenses' = [expenses EXCEPT ![x].deleted = FALSE]
      /\ UNCHANGED <<staff, payroll, request, given, crossed, doubled, waived>>
  BY DEF RestoreExpense
<1>2. expenses \in Seq(Expense) /\ expenses[x] \in Expense
  BY ExpensesAre DEF Typed, TypeOK
<1>3. [expenses[x] EXCEPT !.deleted = FALSE] \in Expense
  BY <1>2 DEF Expense
<1>4. expenses' \in Seq(Expense) /\ DOMAIN expenses' = DOMAIN expenses
  BY <1>1, <1>2, <1>3
<1>5. TypeOK'
  BY <1>1, <1>4 DEF Typed, TypeOK
<1> QED
  BY <1>1, <1>4, <1>5, Unchanging, RequestKept DEF Typed

LEMMA StopTyped == Typed /\ Stop => Typed'
<1> SUFFICES ASSUME Typed, Stop PROVE Typed'
  OBVIOUS
<1>1. UNCHANGED <<staff, payroll, expenses, given>> /\ request' = [c \in Clients |-> Idle]
  BY DEF Stop
<1>2. TypeOK'
  BY <1>1 DEF Typed, TypeOK
<1> QED
  BY <1>1, <1>2, Unchanging, RequestKept DEF Typed

-----------------------------------------------------------------------------
(* The totals of the runs.                                                 *)

TotalsOfRuns ==
    \A k \in Keys \ crossed : payroll[k] # None => payroll[k].total = Total(payroll[k].lines)

SumsInv == TotalsOfRuns /\ SumsAreCurrent

(* Lines and totals stay as they are. *)
SheetsKept ==
    \A k \in Keys : /\ payroll'[k] = None <=> payroll[k] = None
                    /\ payroll[k] # None => /\ payroll'[k].lines = payroll[k].lines
                                            /\ payroll'[k].total = payroll[k].total

LEMMA SumsKept ==
  ASSUME Typed, SumsInv, SheetsKept, crossed \subseteq crossed',
         \A c \in Clients : request'[c].is = "sum" => request'[c] = request[c]
  PROVE  SumsInv'
<1>1. TotalsOfRuns'
  BY DEF SumsInv, TotalsOfRuns, SheetsKept
<1>2. ASSUME NEW c \in Clients, request'[c].is = "sum", request'[c].run \notin crossed'
      PROVE  /\ request'[c].total = Total(Seen(request[c])')
             /\ \A d \in Clients \ {c} : request'[d].is = "sum" => request'[d].run # request'[c].run
  <2>1. request'[c] = request[c] /\ request[c].run \notin crossed
    BY <1>2
  <2>2. request[c].run \in Keys /\ payroll[request[c].run] # None
    BY <1>2, <2>1 DEF Typed, RequestOK
  <2>3. payroll'[request[c].run].lines = payroll[request[c].run].lines
    BY <2>2 DEF SheetsKept
  <2>4. Seen(request[c])' = Seen(request[c])
    BY <2>1, <2>3 DEF Seen
  <2>5. request[c].total = Total(Seen(request[c]))
        /\ \A d \in Clients \ {c} : request[d].is = "sum" => request[d].run # request[c].run
    BY <1>2, <2>1 DEF SumsInv, SumsAreCurrent
  <2> QED
    BY <2>1, <2>4, <2>5
<1>3. SumsAreCurrent'
  BY <1>2 DEF SumsAreCurrent, Total
<1> QED
  BY <1>1, <1>3 DEF SumsInv

LEMMA CreateSums ==
  ASSUME Typed, SumsInv, NEW c \in Clients, CreateRun(c)
  PROVE  SumsInv'
<1> DEFINE r == request[c]
           k == <<r.period, r.at>>
<1>1. /\ k \in Keys /\ payroll[k] = None /\ payroll'[k] # None
      /\ payroll'[k].total = Total(payroll'[k].lines)
      /\ \A j \in Keys \ {k} : payroll'[j] = payroll[j]
  <2>1. payroll'[k] = [status |-> "DRAFT", total |-> Total(NewLines(r)), txn |-> None,
                       paidAt |-> None, lines |-> NewLines(r)]
    BY RunCreated
  <2>2. /\ k \in Keys /\ payroll[k] = None /\ payroll'[k] # None
        /\ \A j \in Keys \ {k} : payroll'[j] = payroll[j]
    BY RunCreated
  <2>3. payroll'[k].total = Total(NewLines(r)) /\ payroll'[k].lines = NewLines(r)
    BY <2>1
  <2> QED
    BY <2>2, <2>3
<1>2. crossed' = crossed /\ \A d \in Clients : request'[d] = request[d] \/ request'[d].is # "sum"
  BY DEF CreateRun, history, Later, Idle, Typed, TypeOK
<1> HIDE DEF k
<1>3. TotalsOfRuns'
  BY <1>1, <1>2 DEF SumsInv, TotalsOfRuns
<1>4. ASSUME NEW d \in Clients, request'[d].is = "sum", request'[d].run \notin crossed'
      PROVE  /\ request'[d].total = Total(Seen(request[d])')
             /\ \A e \in Clients \ {d} : request'[e].is = "sum" => request'[e].run # request'[d].run
  <2>1. request'[d] = request[d] /\ request[d].run \notin crossed
    BY <1>2, <1>4
  <2>2. request[d].run \in Keys /\ payroll[request[d].run] # None
    BY <1>4, <2>1 DEF Typed, RequestOK
  <2>3. Seen(request[d])' = Seen(request[d])
    BY <1>1, <2>1, <2>2 DEF Seen
  <2>4. /\ request[d].total = Total(Seen(request[d]))
        /\ \A e \in Clients \ {d} : request[e].is = "sum" => request[e].run # request[d].run
    BY <1>4, <2>1 DEF SumsInv, SumsAreCurrent
  <2> QED
    BY <1>2, <2>1, <2>3, <2>4
<1>5. SumsAreCurrent'
  BY <1>4 DEF SumsAreCurrent, Total
<1> QED
  BY <1>3, <1>5 DEF SumsInv

LEMMA SumSums ==
  ASSUME Typed, SumsInv, NEW c \in Clients, SumLines(c)
  PROVE  SumsInv'
<1> DEFINE r == request[c]
           sum == [is |-> "sum", run |-> r.run, employee |-> r.employee, line |-> r.line,
                   total |-> Total(Seen(r))]
           others == \E d \in Clients : request[d].is = "sum" /\ request[d].run = r.run
<1>1. /\ UNCHANGED payroll /\ r.is = "edit"
      /\ request'[c] = sum /\ \A d \in Clients \ {c} : request'[d] = request[d]
      /\ crossed' = IF others THEN crossed \cup {r.run} ELSE crossed
  BY DEF SumLines, Typed, TypeOK
<1>2. /\ sum.is = "sum" /\ sum.run = r.run /\ sum.employee = r.employee /\ sum.line = r.line
      /\ sum.total = Total(Seen(r))
  OBVIOUS
<1> HIDE DEF sum
<1>3. TotalsOfRuns'
  BY <1>1 DEF SumsInv, TotalsOfRuns, Total
<1>4. ASSUME NEW d \in Clients, request'[d].is = "sum", request'[d].run \notin crossed'
      PROVE  /\ request'[d].total = Total(Seen(request[d])')
             /\ \A e \in Clients \ {d} : request'[e].is = "sum" => request'[e].run # request'[d].run
  <2>1. CASE d = c
    <3>1. /\ request'[d].run = r.run /\ request'[d].total = Total(Seen(r))
      BY <1>1, <1>2, <2>1
    <3>2. ~others
      BY <1>1, <1>4, <3>1
    <3>3. Seen(request[d])' = Seen(r)
      BY <1>1, <1>2, <2>1 DEF Seen
    <3> QED
      BY <1>1, <2>1, <3>1, <3>2, <3>3
  <2>2. CASE d # c
    <3>1. request'[d] = request[d] /\ request[d].run \notin crossed /\ request[d].is = "sum"
      BY <1>1, <1>4, <2>2
    <3>2. /\ request[d].total = Total(Seen(request[d]))
          /\ \A e \in Clients \ {d} : request[e].is = "sum" => request[e].run # request[d].run
      BY <3>1 DEF SumsInv, SumsAreCurrent
    <3>3. Seen(request[d])' = Seen(request[d])
      BY <1>1, <3>1 DEF Seen
    <3>4. request'[c].run # request[d].run
      <4>1. r.run = request[d].run => others
        BY <3>1
      <4> QED
        BY <1>1, <1>2, <1>4, <3>1, <4>1
    <3> QED
      BY <1>1, <3>1, <3>2, <3>3, <3>4
  <2> QED
    BY <2>1, <2>2
<1>5. SumsAreCurrent'
  BY <1>4 DEF SumsAreCurrent, Total
<1> QED
  BY <1>3, <1>5 DEF SumsInv

LEMMA CommitSums ==
  ASSUME Typed, SumsInv, NEW c \in Clients, CommitLine(c)
  PROVE  SumsInv'
<1> DEFINE r == request[c]
           k == r.run
<1>1. /\ r.is = "sum" /\ k \in Keys /\ payroll[k] # None
      /\ payroll'[k].lines = Seen(r) /\ payroll'[k].total = r.total
      /\ \A j \in Keys \ {k} : payroll'[j] = payroll[j]
      /\ request'[c] = Idle /\ \A d \in Clients \ {c} : request'[d] = request[d]
      /\ crossed' = crossed
  BY LineCommitted DEF history
<1>2. k \notin crossed => r.total = Total(Seen(r))
                          /\ \A d \in Clients \ {c} : request[d].is = "sum" => request[d].run # k
  BY <1>1 DEF SumsInv, SumsAreCurrent
<1>3. TotalsOfRuns'
  <2> SUFFICES ASSUME NEW j \in Keys \ crossed, payroll'[j] # None
               PROVE  payroll'[j].total = Total(payroll'[j].lines)
    BY <1>1 DEF TotalsOfRuns, Total
  <2>1. CASE j = k
    BY <1>1, <1>2, <2>1
  <2>2. CASE j # k
    BY <1>1, <2>2 DEF SumsInv, TotalsOfRuns
  <2> QED
    BY <2>1, <2>2
<1>4. ASSUME NEW d \in Clients, request'[d].is = "sum", request'[d].run \notin crossed'
      PROVE  /\ request'[d].total = Total(Seen(request[d])')
             /\ \A e \in Clients \ {d} : request'[e].is = "sum" => request'[e].run # request'[d].run
  <2>1. d # c /\ request'[d] = request[d] /\ request[d].run \notin crossed
    BY <1>1, <1>4 DEF Idle
  <2>2. request[d].run \in Keys
    BY <1>4, <2>1 DEF Typed, RequestOK
  <2>3. /\ request[d].total = Total(Seen(request[d]))
        /\ \A e \in Clients \ {d} : request[e].is = "sum" => request[e].run # request[d].run
    BY <1>4, <2>1 DEF SumsInv, SumsAreCurrent
  <2>4. request[d].run # k
    BY <1>1, <2>1, <2>3
  <2>5. Seen(request[d])' = Seen(request[d])
    BY <1>1, <2>1, <2>2, <2>4 DEF Seen
  <2> QED
    BY <1>1, <2>1, <2>3, <2>5 DEF Idle
<1>5. SumsAreCurrent'
  BY <1>4 DEF SumsAreCurrent, Total
<1> QED
  BY <1>3, <1>5 DEF SumsInv

-----------------------------------------------------------------------------
(* The payment of the runs.                                                *)

(* A run that nobody works on is paid exactly while its expense stands.    *)
Quiet(k) ==
    payroll[k] # None /\ ~Busy(k) =>
        IF payroll[k].status = "PAID"
        THEN Live(k) = {payroll[k].txn} /\ expenses[payroll[k].txn].total = payroll[k].total
        ELSE Live(k) = {}

Fine(k) == Undisturbed(k) /\ Quiet(k)

PaymentsInv == \A k \in Keys \ torn : Fine(k)

LEMMA PaymentsAre == PaymentsInv <=> PaidRunsAreExpensed /\ PaymentsFollowRuns
BY DEF PaymentsInv, Fine, Quiet, PaidRunsAreExpensed, PaymentsFollowRuns

WorkOnRuns == {"edit", "sum", "pay", "posted"}

LEMMA AboutIs ==
  ASSUME NEW k, NEW c
  PROVE  /\ k \in About(c) <=> request[c].is \in WorkOnRuns /\ request[c].run = k
         /\ k \in About(c)' <=> request'[c].is \in WorkOnRuns /\ request'[c].run = k
BY DEF About, WorkOnRuns

(* A step that changes nothing of the payment of a run. *)
SamePayment(k) ==
    /\ payroll'[k] = None <=> payroll[k] = None
    /\ payroll[k] # None => /\ payroll'[k].status = payroll[k].status
                            /\ payroll[k].status = "PAID" => payroll'[k].txn = payroll[k].txn
                            /\ payroll'[k].total = payroll[k].total
    /\ Live(k)' = Live(k)
    /\ \A x \in Live(k) : expenses'[x].total = expenses[x].total
    /\ \A c \in Clients : k \in About(c)' <=> k \in About(c)
    /\ \A c \in Clients : k \in About(c) =>
         request'[c] = request[c] \/ (request[c].is = "edit" /\ request'[c].is = "sum")

LEMMA FineKept ==
  ASSUME NEW k, SamePayment(k), Fine(k), payroll[k] = None => ~Busy(k)
  PROVE  Fine(k)'
<1>1. Busy(k)' <=> Busy(k)
  BY DEF Busy, SamePayment
<1>2. BeingPaid(k)' <=> BeingPaid(k)
  BY DEF BeingPaid, SamePayment
<1>3. Quiet(k)'
  BY <1>1 DEF Fine, Quiet, SamePayment
<1>4. Undisturbed(k)'
  <2>1. payroll'[k] = None => Live(k)' = {}
    BY DEF Fine, Undisturbed, SamePayment
  <2>2. \A c \in Clients : k \in About(c)' => payroll'[k].status = "DRAFT"
    BY DEF Fine, Undisturbed, SamePayment, Busy
  <2>3. Busy(k)' /\ ~BeingPaid(k)' => Live(k)' = {}
    BY <1>1, <1>2 DEF Fine, Undisturbed, SamePayment
  <2>4. \A c \in Clients : k \in About(c)' /\ request'[c].is \in {"pay", "posted"} =>
          request'[c] = request[c] /\ k \in About(c) /\ payroll[k] # None
    BY DEF SamePayment, Busy
  <2>5. \A c \in Clients : k \in About(c)' /\ request'[c].is \in {"pay", "posted"} =>
          \A d \in Clients \ {c} : k \notin About(d)'
    BY <2>4 DEF Fine, Undisturbed, SamePayment
  <2>6. \A c \in Clients : k \in About(c)' /\ request'[c].is = "pay" =>
          Live(k)' = {} /\ request'[c].total = payroll'[k].total
    BY <2>4 DEF Fine, Undisturbed, SamePayment
  <2>7. \A c \in Clients : k \in About(c)' /\ request'[c].is = "posted" =>
          /\ Live(k)' = {request'[c].txn}
          /\ expenses'[request'[c].txn].total = payroll'[k].total
    BY <2>4 DEF Fine, Undisturbed, SamePayment
  <2> QED
    BY <2>1, <2>2, <2>3, <2>5, <2>6, <2>7 DEF Undisturbed
<1> QED
  BY <1>3, <1>4 DEF Fine

LEMMA BusyRuns ==
  ASSUME Typed, NEW k
  PROVE  Busy(k) => k \in Keys /\ payroll[k] # None
BY DEF Typed, RequestOK, Busy, About

(* Other requests stay where they are, and nothing that is paid changes.   *)
LEMMA PaymentsKept ==
  ASSUME Typed, PaymentsInv, torn \subseteq torn', SheetsKept,
         \A k \in Keys : payroll[k] # None => /\ payroll'[k].status = payroll[k].status
                                              /\ payroll'[k].txn = payroll[k].txn,
         UNCHANGED expenses,
         \A c \in Clients : \/ request'[c] = request[c]
                            \/ /\ request[c].is \notin WorkOnRuns
                               /\ request'[c].is \notin WorkOnRuns
                            \/ /\ request[c].is = "edit" /\ request'[c].is = "sum"
                               /\ request'[c].run = request[c].run
  PROVE  PaymentsInv'
<1> SUFFICES ASSUME NEW k \in Keys \ torn' PROVE Fine(k)'
  BY DEF PaymentsInv
<1>1. Fine(k) /\ (payroll[k] = None => ~Busy(k))
  BY BusyRuns DEF PaymentsInv
<1>2. Live(k)' = Live(k)
  BY DEF Live
<1>3. \A c \in Clients : k \in About(c)' <=> k \in About(c)
  BY AboutIs DEF WorkOnRuns
<1>4. \A c \in Clients : k \in About(c) =>
        request'[c] = request[c] \/ (request[c].is = "edit" /\ request'[c].is = "sum")
  <2> SUFFICES ASSUME NEW c \in Clients, k \in About(c)
               PROVE  request'[c] = request[c] \/ (request[c].is = "edit" /\ request'[c].is = "sum")
    OBVIOUS
  <2>1. request[c].is \in WorkOnRuns
    BY DEF About, WorkOnRuns
  <2> QED
    BY <2>1
<1>5. /\ payroll'[k] = None <=> payroll[k] = None
      /\ payroll[k] # None => /\ payroll'[k].status = payroll[k].status
                              /\ payroll'[k].txn = payroll[k].txn
                              /\ payroll'[k].total = payroll[k].total
  BY DEF SheetsKept
<1>6. SamePayment(k)
  BY <1>2, <1>3, <1>4, <1>5 DEF SamePayment
<1> QED
  BY <1>1, <1>6, FineKept

(* A new run is a draft without an expense. *)
LEMMA CreatePays ==
  ASSUME Typed, PaymentsInv, NEW c \in Clients, CreateRun(c)
  PROVE  PaymentsInv'
<1> SUFFICES ASSUME NEW j \in Keys \ torn' PROVE Fine(j)'
  BY DEF PaymentsInv
<1> DEFINE r == request[c]
           k == <<r.period, r.at>>
<1>1. /\ k \in Keys /\ payroll[k] = None /\ payroll'[k] # None /\ payroll'[k].status = "DRAFT"
      /\ \A i \in Keys \ {k} : payroll'[i] = payroll[i]
  <2>1. payroll'[k] = [status |-> "DRAFT", total |-> Total(NewLines(r)), txn |-> None,
                       paidAt |-> None, lines |-> NewLines(r)]
    BY RunCreated
  <2>2. /\ k \in Keys /\ payroll[k] = None /\ payroll'[k] # None
        /\ \A i \in Keys \ {k} : payroll'[i] = payroll[i]
    BY RunCreated
  <2>3. payroll'[k].status = "DRAFT"
    BY <2>1
  <2> QED
    BY <2>2, <2>3
<1>2. /\ UNCHANGED <<expenses, torn>>
      /\ \A d \in Clients : \/ request'[d] = request[d]
                            \/ request[d].is \notin WorkOnRuns /\ request'[d].is \notin WorkOnRuns
  BY DEF CreateRun, history, Later, Idle, WorkOnRuns, Typed, TypeOK
<1>3. \A i, d : d \in Clients => (i \in About(d)' <=> i \in About(d))
  BY <1>2, AboutIs
<1>4. Fine(j) /\ Live(j)' = Live(j) /\ (payroll[j] = None => ~Busy(j))
  BY <1>2, BusyRuns DEF PaymentsInv, Live
<1> HIDE DEF k
<1>5. CASE j = k
  <2>1. Live(j)' = {} /\ ~Busy(j)
    BY <1>1, <1>4, <1>5 DEF Fine, Undisturbed
  <2>2. \A d \in Clients : j \notin About(d)'
    BY <1>3, <2>1 DEF Busy
  <2> QED
    BY <1>1, <1>5, <2>1, <2>2 DEF Fine, Undisturbed, Quiet, Busy
<1>6. CASE j # k
  <2>1. payroll'[j] = payroll[j]
    BY <1>1, <1>6
  <2>2. \A d \in Clients : j \in About(d) => request'[d] = request[d]
    BY <1>2, AboutIs
  <2>3. \A x \in Live(j) : expenses'[x].total = expenses[x].total
    BY <1>2
  <2>4. \A d \in Clients : j \in About(d)' <=> j \in About(d)
    BY <1>2 DEF About, WorkOnRuns
  <2>5. SamePayment(j)
    BY <1>4, <2>1, <2>2, <2>3, <2>4 DEF SamePayment
  <2> QED
    BY <1>4, <2>5, FineKept
<1> QED
  BY <1>5, <1>6

(* Of the runs of other keys a request on a run changes nothing.           *)
LEMMA OtherRuns ==
  ASSUME Typed, NEW k, NEW j \in Keys, j # k, Fine(j),
         payroll'[j] = payroll[j],
         Live(j)' = Live(j), \A x \in Live(j) : expenses'[x].total = expenses[x].total,
         NEW c \in Clients, \A d \in Clients \ {c} : request'[d] = request[d],
         request[c].is \in WorkOnRuns => request[c].run = k,
         request'[c].is \in WorkOnRuns => request'[c].run = k
  PROVE  Fine(j)'
<1>1. \A d \in Clients : j \in About(d)' <=> j \in About(d)
  BY DEF About, WorkOnRuns
<1>2. \A d \in Clients : j \in About(d) => request'[d] = request[d]
  BY DEF About, WorkOnRuns
<1>3. SamePayment(j)
  BY <1>1, <1>2 DEF SamePayment
<1> QED
  BY <1>3, BusyRuns, FineKept

LEMMA EditPays ==
  ASSUME Typed, PaymentsInv, NEW c \in Clients, NEW k \in Keys, NEW e \in Employees,
         NEW field \in Fields, NEW v \in Amounts, EditLine(c, k, e, field, v)
  PROVE  PaymentsInv'
<1> SUFFICES ASSUME NEW j \in Keys \ torn' PROVE Fine(j)'
  BY DEF PaymentsInv
<1>1. /\ request[c] = Idle /\ payroll[k] # None /\ payroll[k].status # "PAID"
      /\ UNCHANGED <<staff, payroll, expenses>>
      /\ torn' = IF BeingPaid(k) THEN torn \cup {k} ELSE torn
  <2>1. torn' = IF BeingPaid(k) THEN torn \cup {k} ELSE torn
    BY DEF EditLine
  <2> QED
    BY <2>1, LineEdited
<1>2. /\ \A d \in Clients \ {c} : request'[d] = request[d]
      /\ request'[c].is = "edit" /\ request'[c].run = k
  BY LineEdited
<1>3. Fine(j) /\ Live(j)' = Live(j)
  <2>1. torn \subseteq torn'
    BY <1>1
  <2> QED
    BY <1>1, <2>1 DEF PaymentsInv, Live
<1>4. request[c].is \notin WorkOnRuns
  BY <1>1 DEF Idle, WorkOnRuns
<1>5. CASE j # k
  BY <1>1, <1>2, <1>3, <1>4, <1>5, OtherRuns
<1>6. CASE j = k
  <2>1. ~BeingPaid(k)
    BY <1>1, <1>6
  <2>2. payroll[k].status = "DRAFT"
    BY <1>1 DEF Typed, TypeOK, Run
  <2>3. Live(k) = {}
    BY <1>1, <1>3, <1>6, <2>1, <2>2 DEF Fine, Undisturbed, Quiet
  <2>4. \A d \in Clients : k \in About(d)' => request'[d].is \notin {"pay", "posted"}
    <3> SUFFICES ASSUME NEW d \in Clients, k \in About(d)'
                 PROVE  request'[d].is \notin {"pay", "posted"}
      OBVIOUS
    <3>1. CASE d = c
      BY <1>2, <3>1
    <3>2. CASE d # c
      <4>1. request'[d] = request[d] /\ k \in About(d)
        BY <1>2, <3>2, AboutIs
      <4> QED
        BY <2>1, <4>1 DEF BeingPaid
    <3> QED
      BY <3>1, <3>2
  <2>5. k \in About(c)'
    BY <1>2, AboutIs DEF WorkOnRuns
  <2>6. payroll'[k] = payroll[k] /\ Live(k)' = {}
    BY <1>1, <1>3, <1>6, <2>3
  <2> QED
    BY <1>1, <1>6, <2>2, <2>4, <2>5, <2>6 DEF Fine, Undisturbed, Quiet, Busy
<1> QED
  BY <1>5, <1>6

LEMMA CommitPays ==
  ASSUME Typed, PaymentsInv, NEW c \in Clients, CommitLine(c)
  PROVE  PaymentsInv'
<1> SUFFICES ASSUME NEW j \in Keys \ torn' PROVE Fine(j)'
  BY DEF PaymentsInv
<1> DEFINE r == request[c]
           k == r.run
<1>1. /\ r.is = "sum" /\ k \in Keys /\ payroll[k] # None /\ payroll'[k] # None
      /\ payroll'[k].status = payroll[k].status
      /\ \A i \in Keys \ {k} : payroll'[i] = payroll[i]
      /\ request'[c] = Idle /\ \A d \in Clients \ {c} : request'[d] = request[d]
      /\ UNCHANGED <<staff, expenses, history>>
  BY LineCommitted
<1>2. torn' = torn /\ request'[c].is \notin WorkOnRuns
  BY <1>1 DEF history, Idle, WorkOnRuns, CommitLine
<1>3. Fine(j) /\ Live(j)' = Live(j)
  BY <1>1, <1>2 DEF PaymentsInv, Live
<1>4. CASE j # k
  <2>1. payroll'[j] = payroll[j] /\ \A x \in Live(j) : expenses'[x].total = expenses[x].total
    BY <1>1, <1>4
  <2> QED
    BY <1>1, <1>2, <1>3, <1>4, <2>1, OtherRuns
<1>5. CASE j = k
  <2>1. k \in About(c) /\ Busy(k)
    BY <1>1, AboutIs DEF WorkOnRuns, Busy
  <2>2. payroll[k].status = "DRAFT" /\ ~BeingPaid(k)
    <3>1. payroll[k].status = "DRAFT"
      BY <1>3, <1>5, <2>1 DEF Fine, Undisturbed
    <3>2. ASSUME NEW d \in Clients, k \in About(d), request[d].is \in {"pay", "posted"}
          PROVE  FALSE
      <4>1. d # c
        BY <1>1, <3>2
      <4> QED
        BY <1>3, <1>5, <2>1, <3>2, <4>1 DEF Fine, Undisturbed
    <3> QED
      BY <3>1, <3>2 DEF BeingPaid
  <2>3. Live(j)' = {}
    BY <1>3, <1>5, <2>1, <2>2 DEF Fine, Undisturbed
  <2>4. \A d \in Clients : j \in About(d)' => j \in About(d) /\ request'[d] = request[d]
    BY <1>1, <1>2 DEF About, WorkOnRuns
  <2>5. \A d \in Clients : j \in About(d)' => request'[d].is \notin {"pay", "posted"}
    BY <1>5, <2>2, <2>4 DEF BeingPaid
  <2>6. payroll'[j].status = "DRAFT" /\ payroll'[j] # None
    BY <1>1, <1>5, <2>2
  <2>7. Quiet(j)'
    BY <2>3, <2>6 DEF Quiet
  <2>8. Undisturbed(j)'
    BY <2>3, <2>5, <2>6 DEF Undisturbed
  <2> QED
    BY <2>7, <2>8 DEF Fine
<1> QED
  BY <1>4, <1>5

(* A run is about to be paid by one request only. *)
LEMMA PayPays ==
  ASSUME Typed, PaymentsInv, NEW c \in Clients, NEW k \in Keys, Pay(c, k)
  PROVE  PaymentsInv'
<1> SUFFICES ASSUME NEW j \in Keys \ torn' PROVE Fine(j)'
  BY DEF PaymentsInv
<1>1. /\ request[c] = Idle /\ payroll[k] # None /\ payroll[k].status # "PAID"
      /\ UNCHANGED <<staff, payroll, expenses>> /\ torn' = Touched({k})
  BY DEF Pay, Payable
<1>2. /\ \A d \in Clients \ {c} : request'[d] = request[d]
      /\ request'[c] = [is |-> "pay", run |-> k, total |-> payroll[k].total]
  BY DEF Pay, Typed, TypeOK
<1>3. request'[c].is = "pay" /\ request'[c].run = k /\ request'[c].total = payroll[k].total
  BY <1>2
<1>4. Fine(j) /\ Live(j)' = Live(j) /\ (j = k => ~Busy(j))
  BY <1>1 DEF PaymentsInv, Live, Touched
<1>5. request[c].is \notin WorkOnRuns
  BY <1>1 DEF Idle, WorkOnRuns
<1>6. CASE j # k
  <2>1. payroll'[j] = payroll[j] /\ \A x \in Live(j) : expenses'[x].total = expenses[x].total
    BY <1>1
  <2> QED
    BY <1>2, <1>3, <1>4, <1>5, <1>6, <2>1, OtherRuns
<1>7. CASE j = k
  <2>1. payroll[j].status = "DRAFT"
    BY <1>1, <1>7 DEF Typed, TypeOK, Run
  <2>2. Live(j)' = {}
    BY <1>1, <1>4, <1>7, <2>1 DEF Fine, Quiet
  <2>3. \A d \in Clients : j \in About(d)' <=> d = c
    <3>1. j \in About(c)'
      BY <1>3, <1>7 DEF About
    <3>2. \A d \in Clients \ {c} : j \notin About(d)'
      BY <1>2, <1>4, <1>7 DEF About, Busy
    <3> QED
      BY <3>1, <3>2
  <2>4. payroll'[j] = payroll[j]
    BY <1>1
  <2>5. Quiet(j)'
    BY <2>1, <2>2, <2>4 DEF Quiet
  <2>6. Undisturbed(j)'
    BY <1>1, <1>3, <1>7, <2>1, <2>2, <2>3, <2>4 DEF Undisturbed
  <2> QED
    BY <2>5, <2>6 DEF Fine
<1> QED
  BY <1>6, <1>7

(* The expense of a run nobody disturbed is its only one. *)
LEMMA PostPays ==
  ASSUME Typed, PaymentsInv, NEW c \in Clients, PostExpense(c)
  PROVE  PaymentsInv'
<1> SUFFICES ASSUME NEW j \in Keys \ torn' PROVE Fine(j)'
  BY DEF PaymentsInv
<1> DEFINE r == request[c]
           k == r.run
           n == Len(expenses) + 1
<1>1. /\ r.is = "pay" /\ k \in Keys /\ payroll[k] # None /\ torn' = torn /\ payroll' = payroll
      /\ expenses' = Append(expenses, [run |-> k, total |-> r.total, deleted |-> FALSE])
      /\ request' = [request EXCEPT ![c] = [is |-> "posted", run |-> k, txn |-> n]]
  BY DEF PostExpense, history, Typed, RequestOK
<1>2. /\ \A d \in Clients \ {c} : request'[d] = request[d]
      /\ request'[c].is = "posted" /\ request'[c].run = k /\ request'[c].txn = n
  BY <1>1 DEF Typed, TypeOK
<1>3. /\ DOMAIN expenses = 1 .. Len(expenses) /\ DOMAIN expenses' = 1 .. n
      /\ Len(expenses) \in Nat
      /\ \A x \in DOMAIN expenses : expenses'[x] = expenses[x]
      /\ expenses'[n] = [run |-> k, total |-> r.total, deleted |-> FALSE]
  BY <1>1 DEF Typed, TypeOK
<1>4. Fine(j)
  BY <1>1 DEF PaymentsInv
<1>5. n \notin DOMAIN expenses /\ DOMAIN expenses' = DOMAIN expenses \cup {n}
  BY <1>3
<1>6. expenses'[n].run = k /\ expenses'[n].total = r.total /\ ~expenses'[n].deleted
  BY <1>3
<1> HIDE DEF n
<1>7. Live(j)' = IF j = k THEN Live(j) \cup {n} ELSE Live(j)
  BY <1>3, <1>5, <1>6 DEF Live
<1>8. CASE j # k
  <2>1. /\ payroll'[j] = payroll[j] /\ Live(j)' = Live(j)
        /\ \A x \in Live(j) : expenses'[x].total = expenses[x].total
    BY <1>1, <1>3, <1>7, <1>8 DEF Live
  <2> QED
    BY <1>2, <1>4, <1>8, <2>1, OtherRuns
<1>9. CASE j = k
  <2>1. j \in About(c)
    BY <1>1, <1>9 DEF About
  <2>2. /\ payroll[j].status = "DRAFT" /\ Live(j) = {} /\ r.total = payroll[j].total
        /\ \A d \in Clients \ {c} : j \notin About(d)
    BY <1>1, <1>4, <2>1 DEF Fine, Undisturbed
  <2>3. Live(j)' = {n} /\ payroll'[j] = payroll[j]
    BY <1>1, <1>7, <1>9, <2>2
  <2>4. \A d \in Clients : j \in About(d)' <=> d = c
    <3>1. j \in About(c)'
      BY <1>2, <1>9 DEF About
    <3>2. \A d \in Clients \ {c} : j \notin About(d)'
      BY <1>2, <2>2 DEF About
    <3> QED
      BY <3>1, <3>2
  <2>5. Busy(j)' /\ BeingPaid(j)'
    BY <1>2, <2>4 DEF Busy, BeingPaid
  <2>6. Quiet(j)'
    BY <2>5 DEF Quiet
  <2>7. Undisturbed(j)'
    BY <1>1, <1>2, <1>6, <1>9, <2>2, <2>3, <2>4, <2>5 DEF Undisturbed
  <2> QED
    BY <2>6, <2>7 DEF Fine
<1> QED
  BY <1>8, <1>9

(* The mark names the expense that stands. *)
LEMMA MarkPays ==
  ASSUME Typed, PaymentsInv, NEW c \in Clients, NEW m \in Months, MarkPaid(c, m)
  PROVE  PaymentsInv'
<1> SUFFICES ASSUME NEW j \in Keys \ torn' PROVE Fine(j)'
  BY DEF PaymentsInv
<1> DEFINE r == request[c]
           k == r.run
<1>1. /\ r.is = "posted" /\ k \in Keys /\ payroll[k] # None /\ payroll'[k] # None
      /\ payroll'[k].status = "PAID" /\ payroll'[k].txn = r.txn
      /\ payroll'[k].total = payroll[k].total
      /\ \A i \in Keys \ {k} : payroll'[i] = payroll[i]
      /\ request'[c] = Idle /\ \A d \in Clients \ {c} : request'[d] = request[d]
      /\ UNCHANGED <<staff, expenses, history>>
  BY RunMarked
<1>2. torn' = torn /\ request'[c].is \notin WorkOnRuns
  BY <1>1 DEF history, Idle, WorkOnRuns
<1>3. Fine(j) /\ Live(j)' = Live(j)
  BY <1>1, <1>2 DEF PaymentsInv, Live
<1>4. CASE j # k
  <2>1. payroll'[j] = payroll[j] /\ \A x \in Live(j) : expenses'[x].total = expenses[x].total
    BY <1>1, <1>4
  <2> QED
    BY <1>1, <1>2, <1>3, <1>4, <2>1, OtherRuns
<1>5. CASE j = k
  <2>1. j \in About(c)
    BY <1>1, <1>5 DEF About
  <2>2. /\ Live(j) = {r.txn} /\ expenses[r.txn].total = payroll[j].total
        /\ \A d \in Clients \ {c} : j \notin About(d)
    BY <1>1, <1>3, <2>1 DEF Fine, Undisturbed
  <2>3. \A d \in Clients : j \notin About(d)'
    BY <1>1, <1>2, <2>2 DEF About, WorkOnRuns
  <2>4. Quiet(j)'
    BY <1>1, <1>3, <1>5, <2>2 DEF Quiet
  <2>5. Undisturbed(j)'
    BY <1>1, <1>5, <2>3 DEF Undisturbed, Busy
  <2> QED
    BY <2>4, <2>5 DEF Fine
<1> QED
  BY <1>4, <1>5

(* Deleting an expense makes its run a draft again, and touches no other.  *)
LEMMA DeletePays ==
  ASSUME Typed, PaymentsInv, NEW x \in DOMAIN expenses, DeleteExpense(x)
  PROVE  PaymentsInv'
<1> SUFFICES ASSUME NEW j \in Keys \ torn' PROVE Fine(j)'
  BY DEF PaymentsInv
<1> DEFINE k == expenses[x].run
<1>1. torn' = Touched({k}) /\ UNCHANGED request
  BY DEF DeleteExpense
<1>2. Fine(j) /\ (j = k => ~Busy(j)) /\ (payroll[j] = None => ~Busy(j))
  BY <1>1, BusyRuns DEF PaymentsInv, Touched
<1>3. /\ DOMAIN expenses' = DOMAIN expenses
      /\ \A y \in DOMAIN expenses : /\ expenses'[y].run = expenses[y].run
                                    /\ expenses'[y].total = expenses[y].total
                                    /\ expenses'[y].deleted = (expenses[y].deleted \/ y = x)
      /\ expenses[x].deleted = FALSE
  BY ExpenseDeleted
<1>4. Live(j)' = Live(j) \ {x}
  BY <1>3 DEF Live
<1>5. \A d \in Clients : (j \in About(d)' <=> j \in About(d)) /\ request'[d] = request[d]
  BY <1>1 DEF About
<1>6. /\ payroll'[j] = None <=> payroll[j] = None
      /\ payroll[j] # None => /\ payroll'[j].total = payroll[j].total
                              /\ payroll[j].txn # x => payroll'[j] = payroll[j]
                              /\ payroll[j].txn = x => payroll'[j].status = "DRAFT"
  BY ExpenseDeleted
<1>7. payroll[j] # None => payroll[j].status \in {"DRAFT", "PAID"}
  BY DEF Typed, TypeOK, Run
<1>8. CASE j # k
  <2>1. x \notin Live(j)
    BY <1>8 DEF Live
  <2>2. payroll[j] # None /\ payroll[j].status = "PAID" => payroll[j].txn # x
    <3> SUFFICES ASSUME payroll[j] # None, payroll[j].status = "PAID" PROVE payroll[j].txn # x
      OBVIOUS
    <3>1. ~Busy(j)
      BY <1>2 DEF Fine, Undisturbed, Busy
    <3>2. payroll[j].txn \in Live(j)
      BY <1>2, <3>1 DEF Fine, Quiet
    <3> QED
      BY <2>1, <3>2
  <2>3. Live(j)' = Live(j) /\ \A y \in Live(j) : expenses'[y].total = expenses[y].total
    BY <1>3, <1>4, <2>1 DEF Live
  <2>4. payroll[j] # None => /\ payroll'[j].status = payroll[j].status
                             /\ payroll[j].status = "PAID" => payroll'[j].txn = payroll[j].txn
    BY <1>6, <1>7, <2>2
  <2>5. SamePayment(j)
    BY <1>5, <1>6, <2>3, <2>4 DEF SamePayment
  <2> QED
    BY <1>2, <2>5, FineKept
<1>9. CASE j = k
  <2>1. x \in Live(j) /\ ~Busy(j)
    BY <1>2, <1>3, <1>9 DEF Live
  <2>2. payroll[j] # None /\ payroll[j].status = "PAID" /\ Live(j) = {x} /\ payroll[j].txn = x
    BY <1>2, <1>7, <2>1 DEF Fine, Undisturbed, Quiet
  <2>3. payroll'[j].status = "DRAFT" /\ Live(j)' = {} /\ payroll'[j] # None
    BY <1>4, <1>6, <2>2
  <2>4. \A d \in Clients : j \notin About(d)'
    BY <1>5, <2>1 DEF Busy
  <2>5. Quiet(j)'
    BY <2>3 DEF Quiet
  <2>6. Undisturbed(j)'
    BY <2>3, <2>4 DEF Undisturbed
  <2> QED
    BY <2>5, <2>6 DEF Fine
<1> QED
  BY <1>8, <1>9

LEMMA RestorePays ==
  ASSUME Typed, PaymentsInv, NEW x \in DOMAIN expenses, RestoreExpense(x)
  PROVE  PaymentsInv'
<1> SUFFICES ASSUME NEW j \in Keys \ torn' PROVE Fine(j)'
  BY DEF PaymentsInv
<1>1. /\ expenses' = [expenses EXCEPT ![x].deleted = FALSE]
      /\ torn' = torn \cup {expenses[x].run} /\ UNCHANGED <<payroll, request>>
  BY DEF RestoreExpense
<1>2. Fine(j) /\ j # expenses[x].run /\ (payroll[j] = None => ~Busy(j))
  BY <1>1, BusyRuns DEF PaymentsInv
<1>3. \A y \in DOMAIN expenses : expenses[y] \in Expense
  BY ExpensesAre
<1>4. DOMAIN expenses' = DOMAIN expenses /\ expenses'[x] = [expenses[x] EXCEPT !.deleted = FALSE]
      /\ \A y \in DOMAIN expenses : y # x => expenses'[y] = expenses[y]
  BY <1>1 DEF Typed, TypeOK
<1>5. \A y \in DOMAIN expenses : /\ expenses'[y].run = expenses[y].run
                                 /\ expenses'[y].total = expenses[y].total
                                 /\ y # x => expenses'[y] = expenses[y]
  BY <1>3, <1>4 DEF Expense
<1>6. Live(j)' = Live(j)
  BY <1>2, <1>4, <1>5 DEF Live
<1>7. \A y \in Live(j) : expenses'[y].total = expenses[y].total
  BY <1>5 DEF Live
<1>8. \A d \in Clients : j \in About(d)' <=> j \in About(d)
  BY <1>1 DEF About
<1>9. SamePayment(j)
  BY <1>1, <1>6, <1>7, <1>8 DEF SamePayment
<1> QED
  BY <1>2, <1>9, FineKept

(* A stop between expense and mark is remembered. *)
LEMMA StopPays ==
  ASSUME Typed, PaymentsInv, Stop
  PROVE  PaymentsInv'
<1> SUFFICES ASSUME NEW j \in Keys \ torn' PROVE Fine(j)'
  BY DEF PaymentsInv
<1>1. /\ UNCHANGED <<payroll, expenses>> /\ request' = [c \in Clients |-> Idle]
      /\ torn' = torn \cup {k \in Keys : \E c \in Clients : request[c].is = "posted" /\ request[c].run = k}
  BY DEF Stop
<1>2. Fine(j) /\ Live(j)' = Live(j) /\ payroll'[j] = payroll[j]
  BY <1>1 DEF PaymentsInv, Live
<1>3. \A c \in Clients : j \in About(c) => request[c].is # "posted"
  BY <1>1 DEF About
<1>4. Busy(j) => Live(j) = {} /\ payroll[j].status = "DRAFT"
  <2>1. Busy(j) /\ ~BeingPaid(j) => Live(j) = {} /\ payroll[j].status = "DRAFT"
    BY <1>2 DEF Fine, Undisturbed, Busy
  <2>2. BeingPaid(j) => Live(j) = {} /\ payroll[j].status = "DRAFT"
    BY <1>2, <1>3 DEF Fine, Undisturbed, BeingPaid
  <2> QED
    BY <2>1, <2>2
<1>5. \A c \in Clients : j \notin About(c)'
  BY <1>1 DEF About, Idle
<1>6. Quiet(j)'
  <2>1. CASE Busy(j)
    BY <1>2, <1>4, <2>1 DEF Quiet
  <2>2. CASE ~Busy(j)
    BY <1>1, <1>2, <2>2 DEF Fine, Quiet
  <2> QED
    BY <2>1, <2>2
<1>7. Undisturbed(j)'
  BY <1>2, <1>5 DEF Fine, Undisturbed, Busy
<1> QED
  BY <1>6, <1>7 DEF Fine

-----------------------------------------------------------------------------
(* The advances of the employees.                                          *)

Recoveries(e) == [k \in Keys |-> Recovered(e, k)]

Taken(e) == SumFunctionOnSet(Recoveries(e), Keys)

(* What was handed out and is neither owed nor on a line. *)
Owed(e) == staff[e].advance >= 0 /\ (e \notin waived => given[e] = staff[e].advance + Taken(e))

AdvancesInv == (\A e \in Employees \ doubled : Owed(e)) /\ EditsKeepAdvance /\ ReadingsAreOwed

LEMMA AdvancesAre ==
  AdvancesInv <=> AdvancesRecoveredOnce /\ EditsKeepAdvance /\ ReadingsAreOwed
BY DEF AdvancesInv, Owed, Taken, Recoveries, AdvancesRecoveredOnce

LEMMA RecoveriesInt ==
  ASSUME TypeOK, NEW e \in Employees
  PROVE  /\ \A k \in Keys : Recoveries(e)[k] = Recovered(e, k) /\ Recovered(e, k) \in Int
         /\ Taken(e) \in Int
<1>1. \A k \in Keys : Recovered(e, k) \in Int
  <2> SUFFICES ASSUME NEW k \in Keys PROVE Recovered(e, k) \in Int
    OBVIOUS
  <2>1. payroll[k] # None => payroll[k].lines[e] \in Line \cup {None}
    BY DEF TypeOK, Run, Sheets
  <2> QED
    BY <2>1 DEF Recovered, Line
<1>2. \A k \in Keys : Recoveries(e)[k] = Recovered(e, k)
  BY DEF Recoveries
<1>3. SumFunctionOnSet(Recoveries(e), Keys) \in Int
  BY <1>1, <1>2, FiniteKeys, SumInt
<1> QED
  BY <1>1, <1>2, <1>3 DEF Taken

(* The advance of an employee on the line of a run stays. *)
SameRecovered(e) == \A k \in Keys : Recovered(e, k)' = Recovered(e, k)

LEMMA TakenKept ==
  ASSUME NEW e \in Employees, SameRecovered(e)
  PROVE  Taken(e)' = Taken(e)
<1>1. Recoveries(e)' = Recoveries(e)
  BY DEF SameRecovered, Recoveries
<1> QED
  BY <1>1 DEF Taken

(* What is owed and what was handed out grow by the same. *)
SameDebt(e) ==
    /\ staff'[e].advance >= staff[e].advance
    /\ given'[e] - given[e] = staff'[e].advance - staff[e].advance

LEMMA OwedKept ==
  ASSUME Typed, Typed', NEW e \in Employees, Owed(e), SameDebt(e),
         waived \subseteq waived', e \notin waived' => SameRecovered(e)
  PROVE  Owed(e)'
<1>1. /\ staff[e].advance \in Int /\ staff'[e].advance \in Int
      /\ given[e] \in Int /\ given'[e] \in Int
  BY DEF Typed, TypeOK, Staff
<1>2. staff'[e].advance >= 0
  BY <1>1 DEF Owed, SameDebt
<1>3. ASSUME e \notin waived' PROVE given'[e] = staff'[e].advance + Taken(e)'
  <2>1. Taken(e)' = Taken(e) /\ Taken(e) \in Int
    BY <1>3, TakenKept, RecoveriesInt DEF Typed
  <2>2. given[e] = staff[e].advance + Taken(e)
    BY <1>3 DEF Owed
  <2> QED
    BY <1>1, <2>1, <2>2 DEF SameDebt
<1> QED
  BY <1>2, <1>3 DEF Owed

(* The requests that hold a reading of an employee held it before, and     *)
(* have no more to do.                                                     *)
SameHolders(e) ==
    \A c \in Clients : Holds(c, e)' =>
        /\ Holds(c, e) /\ request'[c].read[e] = request[c].read[e]
        /\ request'[c].todo \subseteq request[c].todo

LEMMA ReadingsKept ==
  ASSUME Typed, Typed', doubled \subseteq doubled', ReadingsAreOwed,
         \A e \in Employees : SameHolders(e) /\ staff'[e].advance >= staff[e].advance
  PROVE  ReadingsAreOwed'
<1> SUFFICES ASSUME NEW e \in Employees \ doubled', NEW c \in Clients, Holds(c, e)'
             PROVE  /\ \A d \in Clients \ {c} : ~Holds(d, e)'
                    /\ request'[c].read[e].branch \in request'[c].todo =>
                         /\ 0 <= request'[c].read[e].advance
                         /\ request'[c].read[e].advance <= staff'[e].advance
  BY DEF ReadingsAreOwed
<1>1. /\ Holds(c, e) /\ request'[c].read[e] = request[c].read[e]
      /\ request'[c].todo \subseteq request[c].todo
  BY DEF SameHolders
<1>2. /\ \A d \in Clients \ {c} : ~Holds(d, e)
      /\ request[c].read[e].branch \in request[c].todo =>
           0 <= request[c].read[e].advance /\ request[c].read[e].advance <= staff[e].advance
  BY <1>1 DEF ReadingsAreOwed
<1>3. \A d \in Clients \ {c} : ~Holds(d, e)'
  BY <1>2 DEF SameHolders
<1>4. /\ staff[e].advance \in Int /\ staff'[e].advance \in Int
      /\ request[c].read[e].advance \in Int
  BY <1>1 DEF Typed, TypeOK, Staff, RequestOK, Holds
<1> QED
  BY <1>1, <1>2, <1>3, <1>4

(* The corrections under way stay as they are, and the lines they are of   *)
(* keep their advance.                                                     *)
LEMMA EditsKept ==
  ASSUME Typed, EditsKeepAdvance, waived \subseteq waived',
         \A c \in Clients : request'[c].is \in {"edit", "sum"} =>
            /\ request[c].is \in {"edit", "sum"} /\ request'[c].run = request[c].run
            /\ request'[c].employee = request[c].employee /\ request'[c].line = request[c].line,
         \A k \in Keys, e \in Employees :
            payroll[k] # None /\ payroll[k].lines[e] # None /\ e \notin waived =>
               payroll'[k].lines[e].advance = payroll[k].lines[e].advance
  PROVE  EditsKeepAdvance'
<1> SUFFICES ASSUME NEW c \in Clients, request'[c].is \in {"edit", "sum"},
                    request'[c].employee \notin waived'
             PROVE  request'[c].line.advance
                      = payroll'[request'[c].run].lines[request'[c].employee].advance
  BY DEF EditsKeepAdvance
<1>1. /\ request[c].is \in {"edit", "sum"} /\ request'[c].run = request[c].run
      /\ request'[c].employee = request[c].employee /\ request'[c].line = request[c].line
      /\ request[c].employee \notin waived
  OBVIOUS
<1>2. /\ request[c].run \in Keys /\ payroll[request[c].run] # None
      /\ request[c].employee \in Employees
      /\ payroll[request[c].run].lines[request[c].employee] # None
  BY <1>1 DEF Typed, RequestOK
<1>3. request[c].line.advance = payroll[request[c].run].lines[request[c].employee].advance
  BY <1>1 DEF EditsKeepAdvance
<1> QED
  BY <1>1, <1>2, <1>3

LinesKept ==
    \A k \in Keys : /\ payroll'[k] = None <=> payroll[k] = None
                    /\ payroll[k] # None => payroll'[k].lines = payroll[k].lines

EditsGoOn ==
    \A c \in Clients : request'[c].is \in {"edit", "sum"} =>
        /\ request[c].is \in {"edit", "sum"} /\ request'[c].run = request[c].run
        /\ request'[c].employee = request[c].employee /\ request'[c].line = request[c].line

LEMMA AdvancesKept ==
  ASSUME Typed, Typed', AdvancesInv, waived \subseteq waived', doubled \subseteq doubled',
         LinesKept, EditsGoOn, \A e \in Employees : SameDebt(e) /\ SameHolders(e)
  PROVE  AdvancesInv'
<1>1. \A e \in Employees : SameRecovered(e)
  BY DEF SameRecovered, Recovered, LinesKept
<1>2. \A e \in Employees \ doubled' : Owed(e)'
  <2> SUFFICES ASSUME NEW e \in Employees \ doubled' PROVE Owed(e)'
    OBVIOUS
  <2>1. Owed(e)
    BY DEF AdvancesInv
  <2> QED
    BY <1>1, <2>1, OwedKept
<1>3. EditsKeepAdvance'
  <2>1. \A k \in Keys, e \in Employees :
          payroll[k] # None /\ payroll[k].lines[e] # None /\ e \notin waived =>
             payroll'[k].lines[e].advance = payroll[k].lines[e].advance
    BY DEF LinesKept
  <2> QED
    BY <2>1, EditsKept DEF AdvancesInv, EditsGoOn
<1>4. ReadingsAreOwed'
  <2>1. \A e \in Employees : SameHolders(e) /\ staff'[e].advance >= staff[e].advance
    BY DEF SameDebt
  <2> QED
    BY <2>1, ReadingsKept DEF AdvancesInv
<1> QED
  BY <1>2, <1>3, <1>4 DEF AdvancesInv

(* The steps that leave every advance alone. *)
LEMMA RestingAdvances ==
  ASSUME Typed, Typed', AdvancesInv, LinesKept, UNCHANGED <<staff, given, doubled, waived>>,
         \A c \in Clients : request'[c] = request[c] \/ request'[c].is \in {"idle", "pay", "posted"}
  PROVE  AdvancesInv'
<1>1. \A e \in Employees : SameDebt(e)
  BY DEF SameDebt, Typed, TypeOK, Staff
<1>2. \A e \in Employees : SameHolders(e)
  BY DEF SameHolders, Holds
<1>3. EditsGoOn
  BY DEF EditsGoOn
<1> QED
  BY <1>1, <1>2, <1>3, AdvancesKept

(* Employees come with no advance, and an advance is owed. *)
LEMMA EmployeesAdvances ==
  ASSUME Typed, Typed', AdvancesInv, NEW e \in Employees,
         \/ \E b \in Branches, base \in Salaries : CreateEmployee(e, b, base)
         \/ \E base \in Salaries, active \in BOOLEAN : UpdateEmployee(e, base, active)
         \/ \E amount \in Amounts : RecordAdvance(e, amount)
  PROVE  AdvancesInv'
<1>1. /\ UNCHANGED <<payroll, request, doubled, waived>>
      /\ \A x \in Employees : SameDebt(x)
  <2>1. \A x \in Employees : staff[x].advance \in Int /\ given[x] \in Int
    BY DEF Typed, TypeOK, Staff
  <2>2. ASSUME NEW b \in Branches, NEW base \in Salaries, CreateEmployee(e, b, base)
        PROVE  UNCHANGED <<payroll, request, doubled, waived>> /\ \A x \in Employees : SameDebt(x)
    <3>1. /\ UNCHANGED <<payroll, request, doubled, waived, given>>
          /\ \A x \in Employees : staff'[x].advance = staff[x].advance
      BY <2>2 DEF CreateEmployee, history, Nobody, Typed, TypeOK
    <3> QED
      BY <2>1, <3>1 DEF SameDebt
  <2>3. ASSUME NEW base \in Salaries, NEW active \in BOOLEAN, UpdateEmployee(e, base, active)
        PROVE  UNCHANGED <<payroll, request, doubled, waived>> /\ \A x \in Employees : SameDebt(x)
    <3>1. /\ UNCHANGED <<payroll, request, doubled, waived, given>>
          /\ \A x \in Employees : staff'[x].advance = staff[x].advance
      BY <2>3 DEF UpdateEmployee, Typed, TypeOK, Staff
    <3> QED
      BY <2>1, <3>1 DEF SameDebt
  <2>4. ASSUME NEW amount \in Amounts, RecordAdvance(e, amount)
        PROVE  UNCHANGED <<payroll, request, doubled, waived>> /\ \A x \in Employees : SameDebt(x)
    <3>1. amount \in Nat
      BY NumbersAssumption
    <3>2. /\ UNCHANGED <<payroll, request, doubled, waived>>
          /\ \A x \in Employees : /\ staff'[x].advance = staff[x].advance + (IF x = e THEN amount ELSE 0)
                                  /\ given'[x] = given[x] + (IF x = e THEN amount ELSE 0)
      BY <2>1, <2>4, <3>1 DEF RecordAdvance, Typed, TypeOK, Staff
    <3> QED
      BY <2>1, <3>1, <3>2 DEF SameDebt
  <2> QED
    BY <2>2, <2>3, <2>4
<1>2. \A x \in Employees : SameHolders(x)
  BY <1>1 DEF SameHolders, Holds
<1>3. LinesKept /\ EditsGoOn
  BY <1>1 DEF LinesKept, EditsGoOn
<1> QED
  BY <1>1, <1>2, <1>3, AdvancesKept

(* A generation goes on, and what it has left to do shrinks. *)
LEMMA PassAdvances ==
  ASSUME Typed, Typed', AdvancesInv, NEW c \in Clients, NEW b \in Branches,
         Pass(c, b) \/ Start(c, b)
  PROVE  AdvancesInv'
<1>1. UNCHANGED <<staff, payroll, given, doubled, waived>>
  BY DEF Pass, Start, history
<1>2. /\ request[c].is = "generate" /\ \A d \in Clients \ {c} : request'[d] = request[d]
      /\ request'[c].is \in {"idle", "generate", "create"}
      /\ request'[c].is \in {"generate", "create"} =>
           request'[c].read = request[c].read /\ request'[c].todo \subseteq request[c].todo
  <2>1. CASE Pass(c, b)
    BY <2>1 DEF Pass, Later, Idle, Typed, TypeOK
  <2>2. CASE Start(c, b)
    BY <2>2 DEF Start, Typed, TypeOK
  <2> QED
    BY <2>1, <2>2
<1>3. \A e \in Employees : SameHolders(e)
  BY <1>2 DEF SameHolders, Holds
<1>4. \A e \in Employees : SameDebt(e)
  BY <1>1 DEF SameDebt, Typed, TypeOK, Staff
<1>5. LinesKept /\ EditsGoOn
  BY <1>1, <1>2 DEF LinesKept, EditsGoOn
<1> QED
  BY <1>1, <1>3, <1>4, <1>5, AdvancesKept

(* Who was read by no other generation is owed what is read. *)
LEMMA GenerateAdvances ==
  ASSUME Typed, Typed', AdvancesInv, NEW c \in Clients, NEW p \in Periods,
         NEW b \in Branches \cup {None}, Generate(c, p, b)
  PROVE  AdvancesInv'
<1>1. /\ UNCHANGED <<staff, payroll, given, waived>>
      /\ request[c] = Idle /\ \A d \in Clients \ {c} : request'[d] = request[d]
      /\ doubled' = doubled \cup {e \in Scope(b) : \E d \in Clients : Holds(d, e)}
  BY DEF Generate, Typed, TypeOK
<1>2. /\ request'[c].is = "generate"
      /\ request'[c].read = [e \in Employees |-> IF e \in Scope(b) THEN staff[e] ELSE Nobody]
  BY DEF Generate, Typed, TypeOK
<1>3. \A e \in Employees : SameDebt(e) /\ SameRecovered(e)
  BY <1>1 DEF SameDebt, SameRecovered, Recovered, Typed, TypeOK, Staff
<1>4. \A e \in Employees \ doubled' : Owed(e)'
  <2> SUFFICES ASSUME NEW e \in Employees \ doubled' PROVE Owed(e)'
    OBVIOUS
  <2>1. Owed(e)
    BY <1>1 DEF AdvancesInv
  <2> QED
    BY <1>1, <1>3, <2>1, OwedKept
<1>5. EditsKeepAdvance'
  BY <1>1, <1>2, EditsKept DEF AdvancesInv
<1>6. ReadingsAreOwed'
  <2> SUFFICES ASSUME NEW e \in Employees \ doubled', NEW d \in Clients, Holds(d, e)'
               PROVE  /\ \A x \in Clients \ {d} : ~Holds(x, e)'
                      /\ request'[d].read[e].branch \in request'[d].todo =>
                           /\ 0 <= request'[d].read[e].advance
                           /\ request'[d].read[e].advance <= staff'[e].advance
    BY DEF ReadingsAreOwed
  <2>1. \A x \in Clients \ {c} : Holds(x, e)' <=> Holds(x, e)
    BY <1>1 DEF Holds
  <2>2. Holds(c, e)' <=> e \in Scope(b) /\ staff[e] # Nobody
    BY <1>2 DEF Holds
  <2>3. e \notin doubled /\ (e \in Scope(b) => \A x \in Clients : ~Holds(x, e))
    BY <1>1
  <2>4. CASE d = c
    <3>1. \A x \in Clients \ {c} : ~Holds(x, e)'
      BY <2>1, <2>2, <2>3, <2>4
    <3>2. request'[c].read[e] = staff[e]
      BY <1>2, <2>2, <2>4
    <3>3. Owed(e) /\ staff[e].advance \in Int
      BY <2>3 DEF AdvancesInv, Typed, TypeOK, Staff
    <3> QED
      BY <1>1, <2>4, <3>1, <3>2, <3>3 DEF Owed
  <2>5. CASE d # c
    <3>1. Holds(d, e) /\ request'[d] = request[d]
      BY <1>1, <2>1, <2>5
    <3>2. ~Holds(c, e)'
      BY <2>2, <2>3, <3>1
    <3> QED
      BY <1>1, <2>1, <2>3, <3>1, <3>2 DEF AdvancesInv, ReadingsAreOwed
  <2> QED
    BY <2>4, <2>5
<1> QED
  BY <1>4, <1>5, <1>6 DEF AdvancesInv

(* A run takes from an employee what its line says, and no more than he    *)
(* owes: the generation that read him is the only one.                     *)
LEMMA CreateAdvances ==
  ASSUME Typed, Typed', AdvancesInv, NEW c \in Clients, CreateRun(c)
  PROVE  AdvancesInv'
<1> DEFINE r == request[c]
           k == <<r.period, r.at>>
           lines == NewLines(r)
           cut(e) == IF lines[e] = None THEN 0 ELSE lines[e].advance
<1>1. /\ k \in Keys /\ payroll[k] = None /\ payroll'[k] # None /\ payroll'[k].lines = lines
      /\ \A j \in Keys \ {k} : payroll'[j] = payroll[j]
      /\ lines \in Sheets /\ r.read \in [Employees -> Staff] /\ r.at \in r.todo
      /\ r.todo \subseteq Branches
      /\ \A e \in Employees : lines[e] # None <=> r.read[e].branch = r.at
  <2>1. /\ payroll'[k] = [status |-> "DRAFT", total |-> Total(lines), txn |-> None, paidAt |-> None,
                       lines |-> lines]
        /\ k \in Keys /\ payroll[k] = None /\ payroll'[k] # None
        /\ \A j \in Keys \ {k} : payroll'[j] = payroll[j]
        /\ lines \in Sheets /\ r.read \in [Employees -> Staff] /\ r.at \in r.todo
        /\ r.todo \subseteq Branches
        /\ \A e \in Employees : lines[e] # None <=> r.read[e].branch = r.at
    BY RunCreated
  <2>2. payroll'[k].lines = lines
    BY <2>1
  <2> QED
    BY <2>1, <2>2
<1>2. /\ r.is = "create" /\ UNCHANGED <<given, doubled, waived>> /\ staff' = DrawDown(lines)
      /\ request'[c] = Later(r, r.at) /\ \A d \in Clients \ {c} : request'[d] = request[d]
  BY DEF CreateRun, history, Typed, TypeOK
<1>3. \A e \in Employees : /\ staff'[e].advance = staff[e].advance - cut(e)
                           /\ staff[e].advance \in Int /\ cut(e) \in Int /\ given[e] \in Int
  <2>1. \A e \in Employees : lines[e] # None => lines[e].advance \in Int
    BY <1>1 DEF Sheets, Line
  <2> QED
    BY <1>1, <1>2, <2>1, StaffAfterDraw DEF Typed, TypeOK, Staff
<1>4. ASSUME NEW e \in Employees, lines[e] # None
      PROVE  /\ Holds(c, e) /\ r.read[e].branch \in r.todo
             /\ cut(e) = Least(r.read[e].advance, r.read[e].base)
             /\ r.read[e].advance \in Int /\ r.read[e].base \in Nat
  <2>1. r.read[e].branch = r.at /\ r.at \in r.todo /\ r.at \in Branches
    BY <1>1, <1>4
  <2>2. Holds(c, e)
    BY <1>2, <2>1, NoneAssumption DEF Holds, Nobody
  <2>3. lines[e] = NewLine(r.read[e])
    BY <2>1 DEF NewLines
  <2>4. NewLine(r.read[e]).advance = Least(r.read[e].advance, r.read[e].base)
    BY DEF NewLine
  <2> QED
    BY <1>1, <1>4, <2>1, <2>2, <2>3, <2>4 DEF Staff
<1> HIDE DEF lines, k
<1>5. \A e \in Employees :
        /\ Recoveries(e)[k] = 0 /\ Recoveries(e)'[k] = cut(e)
        /\ \A j \in Keys \ {k} : Recoveries(e)'[j] = Recoveries(e)[j]
  BY <1>1 DEF Recovered, Recoveries
<1> HIDE DEF cut
<1>6. \A e \in Employees : Taken(e)' = Taken(e) + cut(e) /\ Taken(e) \in Int
  <2> SUFFICES ASSUME NEW e \in Employees
               PROVE  Taken(e)' = Taken(e) + cut(e) /\ Taken(e) \in Int
    OBVIOUS
  <2> DEFINE f == Recoveries(e)
             g == Recoveries(e)'
  <2>1. \A j \in Keys : f[j] = Recovered(e, j) /\ f[j] \in Int
    BY RecoveriesInt DEF Typed
  <2>3. g[k] = cut(e) /\ f[k] = 0 /\ \A j \in Keys \ {k} : f[j] = g[j]
    BY <1>5
  <2>4. \A j \in Keys : f[j] \in Int /\ g[j] \in Int
    BY <1>3, <2>1, <2>3
  <2>5. Taken(e) = SumFunctionOnSet(f, Keys) /\ Taken(e)' = SumFunctionOnSet(g, Keys)
    BY DEF Taken
  <2> HIDE DEF f, g
  <2>6. SumFunctionOnSet(g, Keys) = SumFunctionOnSet(f, Keys) - f[k] + g[k]
    BY <1>1, <2>3, <2>4, FiniteKeys, SumUpdate
  <2>7. Taken(e) \in Int
    BY RecoveriesInt DEF Typed
  <2> QED
    BY <1>3, <2>3, <2>5, <2>6, <2>7
<1>7. ASSUME NEW e \in Employees \ doubled PROVE 0 <= cut(e) /\ cut(e) <= staff[e].advance
  <2>1. CASE lines[e] = None
    BY <1>3, <1>7, <2>1 DEF cut, AdvancesInv, Owed
  <2>2. CASE lines[e] # None
    <3>1. 0 <= r.read[e].advance /\ r.read[e].advance <= staff[e].advance
      BY <1>4, <1>7, <2>2 DEF AdvancesInv, ReadingsAreOwed
    <3>2. /\ cut(e) = Least(r.read[e].advance, r.read[e].base)
          /\ r.read[e].advance \in Int /\ r.read[e].base \in Nat
      BY <1>4, <2>2
    <3> QED
      BY <1>3, <3>1, <3>2 DEF Least
  <2> QED
    BY <2>1, <2>2
<1>8. \A e \in Employees \ doubled' : Owed(e)'
  <2> SUFFICES ASSUME NEW e \in Employees \ doubled' PROVE Owed(e)'
    OBVIOUS
  <2>1. Owed(e) /\ e \in Employees \ doubled
    BY <1>2 DEF AdvancesInv
  <2>2. staff'[e].advance >= 0
    BY <1>3, <1>7, <2>1
  <2>3. e \notin waived' => given'[e] = staff'[e].advance + Taken(e)'
    BY <1>2, <1>3, <1>6, <2>1 DEF Owed
  <2> QED
    BY <2>2, <2>3 DEF Owed
<1>9. EditsKeepAdvance'
  <2>1. \A d \in Clients : request'[d].is \in {"edit", "sum"} => request'[d] = request[d]
    BY <1>2 DEF Later, Idle
  <2>2. \A j \in Keys : payroll[j] # None => payroll'[j] = payroll[j]
    BY <1>1
  <2> QED
    BY <1>2, <2>1, <2>2, EditsKept DEF AdvancesInv
<1>10. ReadingsAreOwed'
  <2> SUFFICES ASSUME NEW e \in Employees \ doubled', NEW d \in Clients, Holds(d, e)'
               PROVE  /\ \A x \in Clients \ {d} : ~Holds(x, e)'
                      /\ request'[d].read[e].branch \in request'[d].todo =>
                           /\ 0 <= request'[d].read[e].advance
                           /\ request'[d].read[e].advance <= staff'[e].advance
    BY DEF ReadingsAreOwed
  <2>1. e \in Employees \ doubled
    BY <1>2
  <2>2. request'[c].is \in {"generate", "create"} =>
          request'[c].read = r.read /\ request'[c].todo = r.todo \ {r.at}
    BY <1>2 DEF Later, Idle
  <2>3. \A x \in Clients : Holds(x, e)' => Holds(x, e) /\ request'[x].read = request[x].read
    BY <1>2, <2>2 DEF Holds
  <2>4. \A x \in Clients \ {d} : ~Holds(x, e)'
    BY <2>1, <2>3 DEF AdvancesInv, ReadingsAreOwed
  <2>5. ASSUME request'[d].read[e].branch \in request'[d].todo
        PROVE  /\ 0 <= request'[d].read[e].advance
               /\ request'[d].read[e].advance <= staff'[e].advance
    <3>1. request'[d].todo \subseteq request[d].todo
      BY <1>2, <2>2 DEF Holds
    <3>2. 0 <= request[d].read[e].advance /\ request[d].read[e].advance <= staff[e].advance
      BY <2>1, <2>3, <2>5, <3>1 DEF AdvancesInv, ReadingsAreOwed
    <3>3. lines[e] = None
      <4>1. CASE d = c
        BY <1>1, <2>2, <2>3, <2>5, <4>1 DEF Holds
      <4>2. CASE d # c
        BY <1>4, <2>1, <2>3, <4>2 DEF AdvancesInv, ReadingsAreOwed
      <4> QED
        BY <4>1, <4>2
    <3>4. staff'[e].advance = staff[e].advance
      BY <1>3, <3>3 DEF cut
    <3> QED
      BY <2>3, <3>2, <3>4
  <2> QED
    BY <2>4, <2>5
<1> QED
  BY <1>8, <1>9, <1>10 DEF AdvancesInv

(* A correction of the advance is remembered; any other keeps it. *)
LEMMA EditAdvances ==
  ASSUME Typed, Typed', AdvancesInv, NEW c \in Clients, NEW k \in Keys, NEW e \in Employees,
         NEW field \in Fields, NEW v \in Amounts, EditLine(c, k, e, field, v)
  PROVE  AdvancesInv'
<1>1. /\ request[c] = Idle /\ request'[c].is = "edit"
      /\ request'[c].run = k /\ request'[c].employee = e
      /\ field # "advance" => request'[c].line.advance = payroll[k].lines[e].advance
      /\ \A d \in Clients \ {c} : request'[d] = request[d]
      /\ UNCHANGED <<staff, payroll, given, doubled>>
  BY LineEdited
<1>2. waived' = IF field = "advance" THEN waived \cup {e} ELSE waived
  BY DEF EditLine
<1>3. \A x \in Employees : SameDebt(x) /\ SameRecovered(x)
  BY <1>1 DEF SameDebt, SameRecovered, Recovered, Typed, TypeOK, Staff
<1>4. waived \subseteq waived'
  BY <1>2
<1>5. \A x \in Employees \ doubled' : Owed(x)'
  <2> SUFFICES ASSUME NEW x \in Employees \ doubled' PROVE Owed(x)'
    OBVIOUS
  <2>1. Owed(x)
    BY <1>1 DEF AdvancesInv
  <2> QED
    BY <1>3, <1>4, <2>1, OwedKept
<1>6. EditsKeepAdvance'
  <2> SUFFICES ASSUME NEW d \in Clients, request'[d].is \in {"edit", "sum"},
                      request'[d].employee \notin waived'
               PROVE  request'[d].line.advance
                        = payroll'[request'[d].run].lines[request'[d].employee].advance
    BY DEF EditsKeepAdvance
  <2>1. CASE d = c
    BY <1>1, <1>2, <2>1
  <2>2. CASE d # c
    BY <1>1, <1>4, <2>2 DEF AdvancesInv, EditsKeepAdvance
  <2> QED
    BY <2>1, <2>2
<1>7. ReadingsAreOwed'
  <2>1. \A x \in Employees : SameHolders(x) /\ staff'[x].advance >= staff[x].advance
    BY <1>1, <1>3 DEF SameHolders, Holds, SameDebt
  <2> QED
    BY <1>1, <2>1, ReadingsKept DEF AdvancesInv
<1> QED
  BY <1>5, <1>6, <1>7 DEF AdvancesInv

LEMMA SumAdvances ==
  ASSUME Typed, Typed', AdvancesInv, NEW c \in Clients, SumLines(c)
  PROVE  AdvancesInv'
<1>1. /\ UNCHANGED <<staff, payroll, given, doubled, waived>> /\ request[c].is = "edit"
      /\ \A d \in Clients \ {c} : request'[d] = request[d]
      /\ request'[c] = [is |-> "sum", run |-> request[c].run, employee |-> request[c].employee,
                        line |-> request[c].line, total |-> Total(Seen(request[c]))]
  BY DEF SumLines, Typed, TypeOK
<1>2. /\ request'[c].is = "sum" /\ request'[c].run = request[c].run
      /\ request'[c].employee = request[c].employee /\ request'[c].line = request[c].line
  BY <1>1
<1>3. \A e \in Employees : SameDebt(e) /\ SameHolders(e)
  <2>1. \A e \in Employees : SameDebt(e)
    BY <1>1 DEF SameDebt, Typed, TypeOK, Staff
  <2>2. \A d \in Clients, e \in Employees : Holds(d, e)' => request'[d] = request[d]
    BY <1>1, <1>2 DEF Holds
  <2>3. \A e \in Employees : SameHolders(e)
    BY <2>2 DEF SameHolders, Holds
  <2> QED
    BY <2>1, <2>3
<1>4. LinesKept /\ EditsGoOn
  BY <1>1, <1>2 DEF LinesKept, EditsGoOn
<1> QED
  BY <1>1, <1>3, <1>4, AdvancesKept

(* The line that is written takes what the line before it took. *)
LEMMA CommitAdvances ==
  ASSUME Typed, Typed', AdvancesInv, NEW c \in Clients, CommitLine(c)
  PROVE  AdvancesInv'
<1> DEFINE r == request[c]
           k == r.run
           x == r.employee
<1>1. /\ r.is = "sum" /\ k \in Keys /\ payroll[k] # None /\ x \in Employees
      /\ payroll[k].lines \in Sheets /\ payroll[k].lines[x] # None
      /\ r.line # None /\ payroll'[k] # None /\ payroll'[k].lines = Seen(r)
      /\ \A j \in Keys \ {k} : payroll'[j] = payroll[j]
      /\ request'[c] = Idle /\ \A d \in Clients \ {c} : request'[d] = request[d]
      /\ UNCHANGED <<staff, given, doubled, waived>>
  BY LineCommitted DEF history
<1>2. /\ payroll'[k].lines[x] = r.line
      /\ \A e \in Employees \ {x} : payroll'[k].lines[e] = payroll[k].lines[e]
  BY <1>1 DEF Seen, Sheets
<1>3. x \notin waived => r.line.advance = payroll[k].lines[x].advance
  BY <1>1 DEF AdvancesInv, EditsKeepAdvance
<1> HIDE DEF r, k, x
<1>4. \A e \in Employees : e \notin waived => SameRecovered(e)
  BY <1>1, <1>2, <1>3 DEF SameRecovered, Recovered
<1>5. \A e \in Employees : SameDebt(e) /\ SameHolders(e)
  <2>1. \A e \in Employees : SameDebt(e)
    BY <1>1 DEF SameDebt, Typed, TypeOK, Staff
  <2>2. \A d \in Clients, e \in Employees : Holds(d, e)' => request'[d] = request[d]
    BY <1>1 DEF Holds, Idle
  <2>3. \A e \in Employees : SameHolders(e)
    BY <2>2 DEF SameHolders, Holds
  <2> QED
    BY <2>1, <2>3
<1>6. \A e \in Employees \ doubled' : Owed(e)'
  <2> SUFFICES ASSUME NEW e \in Employees \ doubled' PROVE Owed(e)'
    OBVIOUS
  <2>1. Owed(e)
    BY <1>1 DEF AdvancesInv
  <2> QED
    BY <1>1, <1>4, <1>5, <2>1, OwedKept
<1>7. EditsKeepAdvance'
  <2>1. \A d \in Clients : request'[d].is \in {"edit", "sum"} => request'[d] = request[d]
    BY <1>1 DEF Idle
  <2>2. \A j \in Keys, e \in Employees :
          payroll[j] # None /\ payroll[j].lines[e] # None /\ e \notin waived =>
             payroll'[j].lines[e].advance = payroll[j].lines[e].advance
    BY <1>1, <1>2, <1>3
  <2> QED
    BY <1>1, <2>1, <2>2, EditsKept DEF AdvancesInv
<1>8. ReadingsAreOwed'
  <2>1. \A e \in Employees : SameHolders(e) /\ staff'[e].advance >= staff[e].advance
    BY <1>5 DEF SameDebt
  <2> QED
    BY <1>1, <2>1, ReadingsKept DEF AdvancesInv
<1> QED
  BY <1>6, <1>7, <1>8 DEF AdvancesInv

-----------------------------------------------------------------------------
(* The salary histories of the employees and the summary of the runs.      *)

History(e) == [k \in Keys |-> PaidTo(e, k)]

OfEmployees(k) == [e \in Employees |-> PaidTo(e, k)]

RunPays == [k \in Keys |-> SumFunctionOnSet(OfEmployees(k), Employees)]

Histories == [e \in Employees |-> SalaryHistory(e)]

LEMMA PaidToInt ==
  ASSUME TypeOK, NEW e \in Employees, NEW k \in Keys
  PROVE  PaidTo(e, k) \in Int
<1>1. k \in Paid => payroll[k].lines[e] \in Line \cup {None}
  BY DEF Paid, TypeOK, Run, Sheets
<1> QED
  BY <1>1 DEF PaidTo, Net, Line

(* The employees of a run that is paid get its total. *)
LEMMA RunPaysItsTotal ==
  ASSUME TypeOK, TotalsOfRuns, crossed = {}, NEW k \in Keys
  PROVE  RunPays[k] = IF k \in Paid THEN payroll[k].total ELSE 0
<1>1. CASE k \in Paid
  <2>1. OfEmployees(k) = [e \in Employees |-> Net(payroll[k].lines[e])]
    BY <1>1 DEF OfEmployees, PaidTo
  <2>2. RunPays[k] = Total(payroll[k].lines)
    BY <2>1 DEF RunPays, Total
  <2>3. payroll[k].total = Total(payroll[k].lines)
    BY <1>1 DEF Paid, TotalsOfRuns
  <2> QED
    BY <1>1, <2>2, <2>3
<1>2. CASE k \notin Paid
  <2>1. \A e \in Employees : OfEmployees(k)[e] = 0
    BY <1>2 DEF OfEmployees, PaidTo
  <2>2. SumFunctionOnSet(OfEmployees(k), Employees) = 0
    BY <2>1, FiniteAssumption, SumZero
  <2> QED
    BY <1>2, <2>2 DEF RunPays
<1> QED
  BY <1>1, <1>2

(* What the summary of a month says of a run. *)
InMonth(k, m) == IF k \in PaidIn(m) THEN payroll[k].total ELSE 0

OfMonth(m) == [k \in Keys |-> InMonth(k, m)]

OverMonths(k) == [m \in Months |-> InMonth(k, m)]

Summaries == [m \in Months |-> PayrollSummary(m)]

LEMMA InMonthInt ==
  ASSUME TypeOK, NEW k \in Keys, NEW m \in Months
  PROVE  InMonth(k, m) \in Int
BY DEF InMonth, PaidIn, Paid, TypeOK, Run

(* A paid run is in the summary of one month. *)
LEMMA RunIsInOneMonth ==
  ASSUME TypeOK, MarksAreDated, TotalsOfRuns, crossed = {}, NEW k \in Keys
  PROVE  RunPays[k] = SumFunctionOnSet(OverMonths(k), Months)
<1> DEFINE f == OverMonths(k)
<1>1. \A m \in Months : f[m] = InMonth(k, m) /\ f[m] \in Int
  BY InMonthInt DEF OverMonths
<1>2. IsFiniteSet(Months)
  BY FiniteAssumption
<1> HIDE DEF f
<1>3. CASE k \in Paid
  <2> DEFINE m == payroll[k].paidAt
  <2>1. m \in Months
    BY <1>3 DEF Paid, MarksAreDated
  <2>2. f[m] = payroll[k].total
    BY <1>1, <1>3, <2>1 DEF InMonth, PaidIn
  <2>3. \A n \in Months \ {m} : f[n] = 0
    BY <1>1 DEF InMonth, PaidIn
  <2> HIDE DEF m
  <2>4. SumFunctionOnSet(f, Months) = f[m] + SumFunctionOnSet(f, Months \ {m})
    BY <1>1, <1>2, <2>1, SumRemove
  <2>5. SumFunctionOnSet(f, Months \ {m}) = 0
    <3>1. IsFiniteSet(Months \ {m})
      BY <1>2, FS_Subset
    <3> QED
      BY <2>3, <3>1, SumZero
  <2>6. RunPays[k] = payroll[k].total
    BY <1>3, RunPaysItsTotal
  <2>7. f[m] \in Int
    BY <1>1, <2>1
  <2> QED
    BY <2>2, <2>4, <2>5, <2>6, <2>7 DEF f
<1>4. CASE k \notin Paid
  <2>1. \A m \in Months : f[m] = 0
    BY <1>1, <1>4 DEF InMonth, PaidIn
  <2>2. SumFunctionOnSet(f, Months) = 0
    BY <1>2, <2>1, SumZero
  <2>3. RunPays[k] = 0
    BY <1>4, RunPaysItsTotal
  <2> QED
    BY <2>2, <2>3 DEF f
<1> QED
  BY <1>3, <1>4

LEMMA SummaryOfMonth ==
  ASSUME TypeOK, NEW m \in Months
  PROVE  PayrollSummary(m) = SumFunctionOnSet(OfMonth(m), Keys)
<1> DEFINE totals == [k \in PaidIn(m) |-> payroll[k].total]
           all == OfMonth(m)
<1>1. PaidIn(m) \in SUBSET Keys
  BY DEF PaidIn, Paid
<1>2. /\ \A k \in PaidIn(m) : totals[k] = all[k]
      /\ \A k \in Keys \ PaidIn(m) : all[k] = 0
      /\ \A k \in Keys : all[k] \in Int
  BY <1>1, InMonthInt DEF OfMonth, InMonth
<1>3. PayrollSummary(m) = SumFunctionOnSet(totals, PaidIn(m))
  BY DEF PayrollSummary
<1> HIDE DEF totals, all
<1>4. SumFunctionOnSet(totals, PaidIn(m)) = SumFunctionOnSet(all, Keys)
  BY <1>1, <1>2, FiniteKeys, SumExtend
<1> QED
  BY <1>3, <1>4 DEF all

(* The table of payments by employee and run adds up to that by run and    *)
(* month.                                                                  *)
LEMMA HistoriesAddUp ==
  ASSUME TypeOK, MarksAreDated, TotalsOfRuns, crossed = {}
  PROVE  SumFunctionOnSet(Histories, Employees) = SumFunctionOnSet(Summaries, Months)
<1> DEFINE m == [e \in Employees |-> History(e)]
           n == [k \in Keys |-> OfEmployees(k)]
           over == [k \in Keys |-> OverMonths(k)]
           of == [j \in Months |-> OfMonth(j)]
<1>1. IsFiniteSet(Employees) /\ IsFiniteSet(Keys) /\ IsFiniteSet(Months)
  BY FiniteAssumption, FiniteKeys
<1>2. Transposed(m, n, Employees, Keys)
  BY PaidToInt DEF Transposed, History, OfEmployees
<1>3. AddsUp(Histories, m, Employees, Keys)
  BY DEF AddsUp, Histories, SalaryHistory, History
<1>4. AddsUp(RunPays, n, Keys, Employees)
  BY DEF AddsUp, RunPays
<1>5. Transposed(over, of, Keys, Months)
  BY InMonthInt DEF Transposed, OverMonths, OfMonth
<1>6. AddsUp(RunPays, over, Keys, Months)
  BY RunIsInOneMonth DEF AddsUp
<1>7. AddsUp(Summaries, of, Months, Keys)
  BY SummaryOfMonth DEF AddsUp, Summaries
<1> HIDE DEF m, n, over, of
<1>8. SumFunctionOnSet(Histories, Employees) = SumFunctionOnSet(RunPays, Keys)
  BY <1>1, <1>2, <1>3, <1>4, SumTable
<1>9. SumFunctionOnSet(RunPays, Keys) = SumFunctionOnSet(Summaries, Months)
  BY <1>1, <1>5, <1>6, <1>7, SumTable
<1> QED
  BY <1>8, <1>9

LEMMA TotalsAre ==
  ASSUME TypeOK, MarksAreDated
  PROVE  TotalsAreSums <=> TotalsOfRuns
BY HistoriesAddUp DEF TotalsAreSums, TotalsOfRuns, Histories, Summaries

-----------------------------------------------------------------------------
(* Every step.                                                             *)

LEMMA IInvIs ==
  IInv <=> Typed /\ PaymentsInv /\ MarksAreDated /\ SumsInv /\ AdvancesInv
BY PaymentsAre, TotalsAre, AdvancesAre DEF IInv, Typed, SumsInv

LEMMA IInvIsPrimed ==
  IInv' <=> Typed' /\ PaymentsInv' /\ MarksAreDated' /\ SumsInv' /\ AdvancesInv'
BY IInvIs, PTL

LEMMA TypedNext == Typed /\ Next => Typed'
<1> SUFFICES ASSUME Typed, Next PROVE Typed'
  OBVIOUS
<1>1. ASSUME NEW e \in Employees,
             \/ \E b \in Branches, base \in Salaries : CreateEmployee(e, b, base)
             \/ \E base \in Salaries, active \in BOOLEAN : UpdateEmployee(e, base, active)
             \/ \E amount \in Amounts : RecordAdvance(e, amount)
      PROVE  Typed'
  BY <1>1, EmployeesTyped
<1>2. ASSUME NEW c \in Clients, Step(c) PROVE Typed'
  BY <1>2, GenerateTyped, PassTyped, CreateTyped, EditTyped, SumTyped, CommitTyped, PayTyped,
     PostTyped, MarkTyped DEF Step
<1>3. ASSUME NEW x \in DOMAIN expenses, DeleteExpense(x) \/ RestoreExpense(x) PROVE Typed'
  BY <1>3, DeleteTyped, RestoreTyped
<1>4. CASE Stop
  BY <1>4, StopTyped
<1> QED
  BY <1>1, <1>2, <1>3, <1>4 DEF Next

(* The steps that leave the runs, their lines and totals alone. *)
LEMMA PlainSteps ==
  ASSUME Typed,
         \/ \E e \in Employees, b \in Branches, base \in Salaries : CreateEmployee(e, b, base)
         \/ \E e \in Employees, base \in Salaries, active \in BOOLEAN :
              UpdateEmployee(e, base, active)
         \/ \E e \in Employees, amount \in Amounts : RecordAdvance(e, amount)
         \/ \E c \in Clients, p \in Periods, b \in Branches \cup {None} : Generate(c, p, b)
         \/ \E c \in Clients, b \in Branches : Pass(c, b) \/ Start(c, b)
         \/ \E c \in Clients : CreateRefused(c)
  PROVE  /\ UNCHANGED <<payroll, expenses, crossed, torn>>
         /\ \A c \in Clients : \/ request'[c] = request[c]
                               \/ /\ request[c].is \in {"idle", "generate", "create"}
                                  /\ request'[c].is \in {"idle", "generate", "create"}
<1>1. CASE \/ \E e \in Employees, b \in Branches, base \in Salaries : CreateEmployee(e, b, base)
           \/ \E e \in Employees, base \in Salaries, active \in BOOLEAN :
                UpdateEmployee(e, base, active)
           \/ \E e \in Employees, amount \in Amounts : RecordAdvance(e, amount)
  BY <1>1 DEF CreateEmployee, UpdateEmployee, RecordAdvance, history
<1>2. ASSUME NEW c \in Clients, NEW p \in Periods, NEW b \in Branches \cup {None}, Generate(c, p, b)
      PROVE  /\ UNCHANGED <<payroll, expenses, crossed, torn>>
             /\ request[c].is = "idle" /\ request'[c].is = "generate"
             /\ \A d \in Clients \ {c} : request'[d] = request[d]
  BY <1>2 DEF Generate, Idle, Typed, TypeOK
<1>3. ASSUME NEW c \in Clients, NEW b \in Branches, Pass(c, b)
      PROVE  /\ UNCHANGED <<payroll, expenses, crossed, torn>>
             /\ request[c].is = "generate" /\ request'[c].is \in {"idle", "generate"}
             /\ \A d \in Clients \ {c} : request'[d] = request[d]
  BY <1>3 DEF Pass, Later, Idle, history, Typed, TypeOK
<1>4. ASSUME NEW c \in Clients, NEW b \in Branches, Start(c, b)
      PROVE  /\ UNCHANGED <<payroll, expenses, crossed, torn>>
             /\ request[c].is = "generate" /\ request'[c].is = "create"
             /\ \A d \in Clients \ {c} : request'[d] = request[d]
  BY <1>4 DEF Start, history, Typed, TypeOK
<1>5. ASSUME NEW c \in Clients, CreateRefused(c)
      PROVE  /\ UNCHANGED <<payroll, expenses, crossed, torn>>
             /\ request[c].is = "create" /\ request'[c].is = "idle"
             /\ \A d \in Clients \ {c} : request'[d] = request[d]
  BY <1>5 DEF CreateRefused, Idle, history, Typed, TypeOK
<1> QED
  BY <1>1, <1>2, <1>3, <1>4, <1>5

LEMMA PaymentSheets ==
  ASSUME Typed,
         \/ \E c \in Clients, k \in Keys : Pay(c, k)
         \/ \E c \in Clients : PostExpense(c)
         \/ \E c \in Clients, m \in Months : MarkPaid(c, m)
         \/ \E x \in DOMAIN expenses : DeleteExpense(x) \/ RestoreExpense(x)
         \/ Stop
  PROVE  /\ SheetsKept /\ UNCHANGED <<staff, given, crossed, doubled, waived>>
         /\ \A c \in Clients : \/ request'[c] = request[c]
                               \/ request'[c].is \in {"idle", "pay", "posted"}
<1>1. ASSUME NEW c \in Clients, NEW k \in Keys, Pay(c, k)
      PROVE  /\ UNCHANGED <<payroll, staff, given, crossed, doubled, waived>>
             /\ request'[c].is = "pay" /\ \A d \in Clients \ {c} : request'[d] = request[d]
  BY <1>1 DEF Pay, Typed, TypeOK
<1>2. ASSUME NEW c \in Clients, PostExpense(c)
      PROVE  /\ UNCHANGED <<payroll, staff, given, crossed, doubled, waived>>
             /\ request'[c].is = "posted" /\ \A d \in Clients \ {c} : request'[d] = request[d]
  BY <1>2 DEF PostExpense, history, Typed, TypeOK
<1>3. ASSUME NEW c \in Clients, NEW m \in Months, MarkPaid(c, m)
      PROVE  /\ SheetsKept /\ UNCHANGED <<staff, given, crossed, doubled, waived>>
             /\ request'[c].is = "idle" /\ \A d \in Clients \ {c} : request'[d] = request[d]
  BY <1>3, RunMarked DEF SheetsKept, history, Idle
<1>4. ASSUME NEW x \in DOMAIN expenses, DeleteExpense(x)
      PROVE  SheetsKept /\ UNCHANGED <<request, staff, given, crossed, doubled, waived>>
  BY <1>4, ExpenseDeleted DEF SheetsKept
<1>5. ASSUME NEW x \in DOMAIN expenses, RestoreExpense(x)
      PROVE  UNCHANGED <<payroll, request, staff, given, crossed, doubled, waived>>
  BY <1>5 DEF RestoreExpense
<1>6. CASE Stop
  BY <1>6 DEF Stop, Idle, SheetsKept
<1>7. UNCHANGED payroll => SheetsKept
  BY DEF SheetsKept
<1> QED
  BY <1>1, <1>2, <1>3, <1>4, <1>5, <1>6, <1>7

LEMMA SumsNext == Typed /\ SumsInv /\ Next => SumsInv'
<1> SUFFICES ASSUME Typed, SumsInv, Next PROVE SumsInv'
  OBVIOUS
<1>1. CASE \/ \E e \in Employees, b \in Branches, base \in Salaries : CreateEmployee(e, b, base)
           \/ \E e \in Employees, base \in Salaries, active \in BOOLEAN :
                UpdateEmployee(e, base, active)
           \/ \E e \in Employees, amount \in Amounts : RecordAdvance(e, amount)
           \/ \E c \in Clients, p \in Periods, b \in Branches \cup {None} : Generate(c, p, b)
           \/ \E c \in Clients, b \in Branches : Pass(c, b) \/ Start(c, b)
           \/ \E c \in Clients : CreateRefused(c)
  <2>1. SheetsKept /\ crossed \subseteq crossed'
    BY <1>1, PlainSteps DEF SheetsKept
  <2>2. \A c \in Clients : request'[c].is = "sum" => request'[c] = request[c]
    BY <1>1, PlainSteps
  <2> QED
    BY <2>1, <2>2, SumsKept
<1>2. CASE \/ \E c \in Clients, k \in Keys : Pay(c, k)
           \/ \E c \in Clients : PostExpense(c)
           \/ \E c \in Clients, m \in Months : MarkPaid(c, m)
           \/ \E x \in DOMAIN expenses : DeleteExpense(x) \/ RestoreExpense(x)
           \/ Stop
  <2>1. SheetsKept /\ crossed \subseteq crossed'
    BY <1>2, PaymentSheets
  <2>2. \A c \in Clients : request'[c].is = "sum" => request'[c] = request[c]
    BY <1>2, PaymentSheets
  <2> QED
    BY <2>1, <2>2, SumsKept
<1>3. ASSUME NEW c \in Clients, NEW k \in Keys, NEW e \in Employees,
             NEW field \in Fields, NEW v \in Amounts, EditLine(c, k, e, field, v)
      PROVE  SumsInv'
  <2>1. SheetsKept /\ crossed \subseteq crossed'
    BY <1>3, LineEdited DEF SheetsKept
  <2>2. \A d \in Clients : request'[d].is = "sum" => request'[d] = request[d]
    BY <1>3, LineEdited
  <2> QED
    BY <2>1, <2>2, SumsKept
<1>4. ASSUME NEW c \in Clients, CreateRun(c) \/ SumLines(c) \/ CommitLine(c) PROVE SumsInv'
  BY <1>4, CreateSums, SumSums, CommitSums
<1> QED
  BY <1>1, <1>2, <1>3, <1>4 DEF Next, Step

LEMMA PaymentsNext == Typed /\ PaymentsInv /\ Next => PaymentsInv'
<1> SUFFICES ASSUME Typed, PaymentsInv, Next PROVE PaymentsInv'
  OBVIOUS
<1>1. CASE \/ \E e \in Employees, b \in Branches, base \in Salaries : CreateEmployee(e, b, base)
           \/ \E e \in Employees, base \in Salaries, active \in BOOLEAN :
                UpdateEmployee(e, base, active)
           \/ \E e \in Employees, amount \in Amounts : RecordAdvance(e, amount)
           \/ \E c \in Clients, p \in Periods, b \in Branches \cup {None} : Generate(c, p, b)
           \/ \E c \in Clients, b \in Branches : Pass(c, b) \/ Start(c, b)
           \/ \E c \in Clients : CreateRefused(c)
  <2>1. UNCHANGED <<payroll, expenses, torn>>
    BY <1>1, PlainSteps
  <2>2. \A c \in Clients : \/ request'[c] = request[c]
                           \/ request[c].is \notin WorkOnRuns /\ request'[c].is \notin WorkOnRuns
    BY <1>1, PlainSteps DEF WorkOnRuns
  <2> QED
    BY <2>1, <2>2, PaymentsKept DEF SheetsKept
<1>2. ASSUME NEW c \in Clients, SumLines(c) PROVE PaymentsInv'
  <2>1. /\ UNCHANGED <<payroll, expenses, torn>> /\ request[c].is = "edit"
        /\ \A d \in Clients \ {c} : request'[d] = request[d]
        /\ request'[c] = [is |-> "sum", run |-> request[c].run, employee |-> request[c].employee,
                          line |-> request[c].line, total |-> Total(Seen(request[c]))]
    BY <1>2 DEF SumLines, Typed, TypeOK
  <2>2. request'[c].is = "sum" /\ request'[c].run = request[c].run
    BY <2>1
  <2> QED
    BY <2>1, <2>2, PaymentsKept DEF SheetsKept
<1>3. ASSUME NEW c \in Clients, NEW k \in Keys, NEW e \in Employees,
             NEW field \in Fields, NEW v \in Amounts, EditLine(c, k, e, field, v)
      PROVE  PaymentsInv'
  BY <1>3, EditPays
<1>4. ASSUME NEW c \in Clients,
             \/ CreateRun(c) \/ CommitLine(c) \/ PostExpense(c)
             \/ \E m \in Months : MarkPaid(c, m)
      PROVE  PaymentsInv'
  BY <1>4, CreatePays, CommitPays, PostPays, MarkPays
<1>5. ASSUME NEW c \in Clients, NEW k \in Keys, Pay(c, k) PROVE PaymentsInv'
  BY <1>5, PayPays
<1>6. ASSUME NEW x \in DOMAIN expenses, DeleteExpense(x) \/ RestoreExpense(x) PROVE PaymentsInv'
  BY <1>6, DeletePays, RestorePays
<1>7. CASE Stop
  BY <1>7, StopPays
<1> QED
  BY <1>1, <1>2, <1>3, <1>4, <1>5, <1>6, <1>7 DEF Next, Step

LEMMA MarksNext == Typed /\ MarksAreDated /\ Next => MarksAreDated'
<1> SUFFICES ASSUME Typed, MarksAreDated, Next PROVE MarksAreDated'
  OBVIOUS
<1>1. CASE \/ \E e \in Employees, b \in Branches, base \in Salaries : CreateEmployee(e, b, base)
           \/ \E e \in Employees, base \in Salaries, active \in BOOLEAN :
                UpdateEmployee(e, base, active)
           \/ \E e \in Employees, amount \in Amounts : RecordAdvance(e, amount)
           \/ \E c \in Clients, p \in Periods, b \in Branches \cup {None} : Generate(c, p, b)
           \/ \E c \in Clients, b \in Branches : Pass(c, b) \/ Start(c, b)
           \/ \E c \in Clients : CreateRefused(c)
  <2>1. UNCHANGED payroll
    BY <1>1, PlainSteps
  <2> QED
    BY <2>1 DEF MarksAreDated
<1>2. ASSUME \/ \E c \in Clients, k \in Keys : Pay(c, k)
             \/ \E c \in Clients : PostExpense(c) \/ SumLines(c)
             \/ \E c \in Clients, k \in Keys, e \in Employees, field \in Fields, v \in Amounts :
                  EditLine(c, k, e, field, v)
             \/ \E x \in DOMAIN expenses : RestoreExpense(x)
             \/ Stop
      PROVE  MarksAreDated'
  <2>1. UNCHANGED payroll
    <3>1. ASSUME NEW c \in Clients, NEW k \in Keys, Pay(c, k) PROVE UNCHANGED payroll
      BY <3>1 DEF Pay
    <3>2. ASSUME NEW c \in Clients, PostExpense(c) \/ SumLines(c) PROVE UNCHANGED payroll
      BY <3>2 DEF PostExpense, SumLines
    <3>3. ASSUME NEW c \in Clients, NEW k \in Keys, NEW e \in Employees,
                 NEW field \in Fields, NEW v \in Amounts, EditLine(c, k, e, field, v)
          PROVE  UNCHANGED payroll
      BY <3>3 DEF EditLine
    <3>4. ASSUME NEW x \in DOMAIN expenses, RestoreExpense(x) PROVE UNCHANGED payroll
      BY <3>4 DEF RestoreExpense
    <3>5. CASE Stop
      BY <3>5 DEF Stop
    <3> QED
      BY <1>2, <3>1, <3>2, <3>3, <3>4, <3>5
  <2> QED
    BY <2>1 DEF MarksAreDated
<1>3. ASSUME NEW c \in Clients, CreateRun(c) PROVE MarksAreDated'
  <2> DEFINE k == <<request[c].period, request[c].at>>
  <2>1. /\ payroll'[k].status = "DRAFT" /\ payroll'[k].paidAt = None
        /\ \A j \in Keys \ {k} : payroll'[j] = payroll[j]
    <3>1. payroll'[k] = [status |-> "DRAFT", total |-> Total(NewLines(request[c])), txn |-> None,
                         paidAt |-> None, lines |-> NewLines(request[c])]
      BY <1>3, RunCreated
    <3> QED
      BY <1>3, <3>1, RunCreated
  <2>2. None \notin Months
    BY NoneAssumption
  <2> HIDE DEF k
  <2> QED
    BY <2>1, <2>2 DEF MarksAreDated
<1>4. ASSUME NEW c \in Clients, CommitLine(c) PROVE MarksAreDated'
  <2>1. \A j \in Keys : payroll[j] # None => /\ payroll'[j].status = payroll[j].status
                                             /\ payroll'[j].paidAt = payroll[j].paidAt
    BY <1>4, LineCommitted
  <2>2. \A j \in Keys : payroll'[j] # None => payroll[j] # None
    BY <1>4, LineCommitted
  <2> QED
    BY <2>1, <2>2 DEF MarksAreDated
<1>5. ASSUME NEW c \in Clients, NEW m \in Months, MarkPaid(c, m) PROVE MarksAreDated'
  <2> DEFINE k == request[c].run
  <2>1. /\ payroll'[k].status = "PAID" /\ payroll'[k].paidAt = m
        /\ \A j \in Keys \ {k} : payroll'[j] = payroll[j]
    BY <1>5, RunMarked
  <2> HIDE DEF k
  <2> QED
    BY <2>1 DEF MarksAreDated
<1>6. ASSUME NEW x \in DOMAIN expenses, DeleteExpense(x) PROVE MarksAreDated'
  <2>1. \A j \in Keys : payroll'[j] # None => payroll[j] # None
    BY <1>6, ExpenseDeleted
  <2>2. \A j \in Keys : payroll[j] # None =>
          \/ payroll'[j] = payroll[j]
          \/ payroll'[j].status = "DRAFT" /\ payroll'[j].paidAt = None
    BY <1>6, ExpenseDeleted
  <2>3. None \notin Months
    BY NoneAssumption
  <2> QED
    BY <2>1, <2>2, <2>3 DEF MarksAreDated
<1> QED
  BY <1>1, <1>2, <1>3, <1>4, <1>5, <1>6 DEF Next, Step

LEMMA AdvancesNext == Typed /\ Typed' /\ AdvancesInv /\ Next => AdvancesInv'
<1> SUFFICES ASSUME Typed, Typed', AdvancesInv, Next PROVE AdvancesInv'
  OBVIOUS
<1>1. ASSUME NEW e \in Employees,
             \/ \E b \in Branches, base \in Salaries : CreateEmployee(e, b, base)
             \/ \E base \in Salaries, active \in BOOLEAN : UpdateEmployee(e, base, active)
             \/ \E amount \in Amounts : RecordAdvance(e, amount)
      PROVE  AdvancesInv'
  BY <1>1, EmployeesAdvances
<1>2. ASSUME NEW c \in Clients, NEW p \in Periods, NEW b \in Branches \cup {None}, Generate(c, p, b)
      PROVE  AdvancesInv'
  BY <1>2, GenerateAdvances
<1>3. ASSUME NEW c \in Clients, NEW b \in Branches, Pass(c, b) \/ Start(c, b) PROVE AdvancesInv'
  BY <1>3, PassAdvances
<1>4. ASSUME NEW c \in Clients, CreateRefused(c) PROVE AdvancesInv'
  <2>1. /\ UNCHANGED <<staff, payroll, given, doubled, waived>>
        /\ request'[c].is = "idle" /\ \A d \in Clients \ {c} : request'[d] = request[d]
    BY <1>4 DEF CreateRefused, Idle, history, Typed, TypeOK
  <2> QED
    BY <2>1, RestingAdvances DEF LinesKept
<1>5. ASSUME NEW c \in Clients, NEW k \in Keys, NEW e \in Employees,
             NEW field \in Fields, NEW v \in Amounts, EditLine(c, k, e, field, v)
      PROVE  AdvancesInv'
  BY <1>5, EditAdvances
<1>6. ASSUME NEW c \in Clients, CreateRun(c) \/ SumLines(c) \/ CommitLine(c) PROVE AdvancesInv'
  BY <1>6, CreateAdvances, SumAdvances, CommitAdvances
<1>7. CASE \/ \E c \in Clients, k \in Keys : Pay(c, k)
           \/ \E c \in Clients : PostExpense(c)
           \/ \E c \in Clients, m \in Months : MarkPaid(c, m)
           \/ \E x \in DOMAIN expenses : DeleteExpense(x) \/ RestoreExpense(x)
           \/ Stop
  <2>1. LinesKept
    BY <1>7, PaymentSheets DEF SheetsKept, LinesKept
  <2> QED
    BY <1>7, <2>1, PaymentSheets, RestingAdvances
<1> QED
  BY <1>1, <1>2, <1>3, <1>4, <1>5, <1>6, <1>7 DEF Next, Step

LEMMA InitIInv == Init => IInv
<1> SUFFICES ASSUME Init PROVE IInv
  OBVIOUS
<1>1. Typed
  BY DEF Init, Typed, TypeOK, Staff, Nobody, RequestOK, Idle
<1>2. PaymentsInv
  BY DEF Init, PaymentsInv, Fine, Undisturbed, Quiet, Busy, About, Live, Idle
<1>3. SumsInv
  BY DEF Init, SumsInv, TotalsOfRuns, SumsAreCurrent, Idle
<1>4. \A e \in Employees : Owed(e)
  <2> SUFFICES ASSUME NEW e \in Employees PROVE Owed(e)
    OBVIOUS
  <2>1. \A k \in Keys : Recoveries(e)[k] = 0
    BY DEF Init, Recoveries, Recovered
  <2>2. Taken(e) = 0
    BY <2>1, FiniteKeys, SumZero DEF Taken
  <2> QED
    BY <2>2 DEF Init, Owed, Nobody
<1>5. EditsKeepAdvance /\ ReadingsAreOwed
  BY DEF Init, EditsKeepAdvance, ReadingsAreOwed, Holds, Idle
<1>6. MarksAreDated
  BY DEF Init, MarksAreDated
<1> QED
  BY <1>1, <1>2, <1>3, <1>4, <1>5, <1>6, IInvIs DEF AdvancesInv

LEMMA Stuttering == IInv /\ UNCHANGED vars => IInv'
<1> SUFFICES ASSUME IInv, UNCHANGED vars PROVE IInv'
  OBVIOUS
<1>1. Typed' /\ PaymentsInv' /\ SumsInv' /\ MarksAreDated'
  <2>1. Typed'
    BY IInvIs DEF vars, Typed, TypeOK, RequestOK
  <2>2. PaymentsInv'
    BY IInvIs, PaymentsKept DEF vars, SheetsKept
  <2>3. SumsInv'
    BY IInvIs, SumsKept DEF vars, SheetsKept
  <2>4. MarksAreDated'
    BY IInvIs DEF vars, MarksAreDated
  <2> QED
    BY <2>1, <2>2, <2>3, <2>4
<1>2. AdvancesInv'
  BY <1>1, IInvIs, RestingAdvances DEF vars, LinesKept
<1> QED
  BY <1>1, <1>2, IInvIsPrimed

(* The books of the salaries are as they should be: the payment of the     *)
(* runs, their totals and the advances, with all that their proof needs.   *)
THEOREM Safety == Spec => []IInv
<1>1. IInv /\ [Next]_vars => IInv'
  BY IInvIs, IInvIsPrimed, TypedNext, SumsNext, MarksNext, PaymentsNext,
     AdvancesNext, Stuttering
<1> QED
  BY <1>1, InitIInv, PTL DEF Spec

(* A run is PAID exactly while one expense of its total is in the books,   *)
(* whatever employees, periods and shops there are and however many users  *)
(* work on the runs, but for the disturbances of payPayroll that torn      *)
(* remembers.                                                              *)
THEOREM PaidRuns == Spec => []PaidRunsAreExpensed
<1>1. IInv => PaidRunsAreExpensed
  BY DEF IInv
<1> QED
  BY <1>1, Safety, PTL

(* The total of a run is the sum of its lines, and the salary histories of *)
(* the employees over all time (employeeHistory) add up to the summaries   *)
(* of all months (payrollSummary), unless two corrections crossed          *)
(* (updateLine).                                                           *)
THEOREM Totals == Spec => []TotalsAreSums
<1>1. IInv => TotalsAreSums
  BY DEF IInv
<1> QED
  BY <1>1, Safety, PTL

(* What was handed out to an employee is owed or stands on the lines of    *)
(* runs, once, and what is owed is never negative, unless two generations  *)
(* of payroll overlapped or the advance of a line was edited.              *)
THEOREM Advances == Spec => []AdvancesRecoveredOnce
<1>1. IInv => AdvancesRecoveredOnce
  BY DEF IInv
<1> QED
  BY <1>1, Safety, PTL
=============================================================================

--------------------------- MODULE TxnRowsProofs ---------------------------
(***************************************************************************)
(* Proofs about TxnRows, for any number of clients, documents, shops and   *)
(* parties, and any requests that Legal lets through.                      *)
(*                                                                         *)
(* First the scripts: which statement of a handler stands where, that what *)
(* is still to come does not depend on what a statement at hand reads, and *)
(* which rows are written.  Then the database: a transaction keeps its     *)
(* rows, what it has written is what its script says (Buffers), and no two *)
(* keep one row (Apart).  On that rest the conversions (Papers), the       *)
(* numbers and what a commit changes in stock and in the shops' levels: a  *)
(* column that is added to changes by what the statements add, and one     *)
(* that is written back from a read has its row locked before that read.   *)
(* TxnRowsBooksProofs goes on with money, the books and the locks.         *)
(***************************************************************************)
EXTENDS TxnRows, FiniteSetTheorems, TLAPS

(***************************************************************************)
(* Sums over finite sets: SumFunctionOnSet of the community module         *)
(* Functions.  The fold under a sum is a recursive function on the subsets *)
(* of the set.  That it exists and what it returns is proved from the      *)
(* well-founded order of the finite subsets: a set of subsets stands for   *)
(* the induction hypothesis (FiniteSubsetInduction), so that no operator   *)
(* parameter has to be instantiated.                                       *)
(***************************************************************************)

LEMMA FiniteSubsetInduction ==
    ASSUME NEW S, IsFiniteSet(S), NEW G, {} \in G,
           ASSUME NEW T \in SUBSET S, T # {}, \A x \in T : T \ {x} \in G
           PROVE  T \in G
    PROVE  \A T \in SUBSET S : T \in G
<1> DEFINE B == {T \in SUBSET S : T \notin G}
<1>1. SUFFICES ASSUME B # {} PROVE FALSE
  OBVIOUS
<1>2. IsWellFoundedOn(StrictSubsetOrdering(S), SUBSET S)
  BY FS_StrictSubsetOrderingWellFounded, FS_FiniteSubsetsOfFinite
<1>3. PICK T \in B : \A U \in B : ~ (<<U, T>> \in StrictSubsetOrdering(S))
  <2>1. B \subseteq SUBSET S
    OBVIOUS
  <2> HIDE DEF B
  <2> QED
    BY <1>1, <1>2, <2>1, WFMin
<1>4. ASSUME NEW x \in T
      PROVE  T \ {x} \in G
  <2> DEFINE U == T \ {x}
  <2>1. <<U, T>> \in (SUBSET S) \X (SUBSET S) /\ U \subseteq T /\ U # T
    OBVIOUS
  <2> HIDE DEF U
  <2>2. <<U, T>> \in StrictSubsetOrdering(S)
    BY <2>1 DEF StrictSubsetOrdering
  <2>3. U \notin B /\ U \in SUBSET S
    BY <1>3, <2>1, <2>2
  <2> QED
    BY <2>3 DEF U
<1>5. T # {}
  OBVIOUS
<1> QED
  BY <1>4, <1>5

Chosen(s) == CHOOSE x \in s : TRUE

Unfolded(f, g, s) == IF s = {} THEN 0 ELSE f[Chosen(s)] + g[s \ {Chosen(s)}]

Sums(f, g, S) == g = [s \in SUBSET S |-> Unfolded(f, g, s)]

LEMMA SumIsChosen ==
    ASSUME NEW f, NEW S
    PROVE  SumFunctionOnSet(f, S) = (CHOOSE g : Sums(f, g, S))[S]
BY DEF SumFunctionOnSet, FoldFunctionOnSet, MapThenFoldSet, Sums, Unfolded, Chosen

(* Two such functions agree wherever both are defined. *)
LEMMA SumsAgree ==
    ASSUME NEW f, NEW g, NEW h, NEW A, NEW C, Sums(f, g, A), Sums(f, h, C),
           NEW S, IsFiniteSet(S), S \in SUBSET A, S \in SUBSET C
    PROVE  g[S] = h[S]
<1> DEFINE G == {T \in SUBSET S : g[T] = h[T]}
<1>1. ASSUME NEW T \in SUBSET S
      PROVE  g[T] = Unfolded(f, g, T) /\ h[T] = Unfolded(f, h, T)
  BY DEF Sums
<1>2. {} \in G
  BY <1>1 DEF Unfolded
<1>3. ASSUME NEW T \in SUBSET S, T # {}, \A x \in T : T \ {x} \in G
      PROVE  T \in G
  <2>1. Chosen(T) \in T
    BY <1>3 DEF Chosen
  <2>2. g[T \ {Chosen(T)}] = h[T \ {Chosen(T)}]
    BY <1>3, <2>1
  <2> QED
    BY <1>1, <1>3, <2>2 DEF Unfolded
<1> HIDE DEF G
<1>4. \A T \in SUBSET S : T \in G
  BY <1>2, <1>3, FiniteSubsetInduction
<1> QED
  BY <1>4 DEF G

LEMMA SumsExists ==
    ASSUME NEW f, NEW S, IsFiniteSet(S)
    PROVE  \E g : Sums(f, g, S)
<1> DEFINE G == {T \in SUBSET S : \A U \in SUBSET T : \E g : Sums(f, g, U)}
           Of(U) == CHOOSE g : Sums(f, g, U)
<1>1. {} \in G
  <2>1. Sums(f, [s \in SUBSET {} |-> 0], {})
    BY DEF Sums, Unfolded
  <2> QED
    BY <2>1
<1>2. ASSUME NEW T \in SUBSET S, T # {}, \A x \in T : T \ {x} \in G
      PROVE  T \in G
  <2> DEFINE v(U) == IF U = T THEN f[Chosen(T)] + Of(T \ {Chosen(T)})[T \ {Chosen(T)}]
                     ELSE Of(U)[U]
             h == [U \in SUBSET T |-> v(U)]
  <2>1. ASSUME NEW U \in SUBSET T, U # T
        PROVE  Sums(f, Of(U), U)
    <3>1. PICK x \in T : x \notin U
      BY <2>1
    <3>2. T \ {x} \in G /\ U \in SUBSET (T \ {x})
      BY <1>2, <3>1
    <3>3. \E g : Sums(f, g, U)
      BY <3>2
    <3> QED
      BY <3>3
  <2> HIDE DEF Of
  <2>2. ASSUME NEW U \in SUBSET T
        PROVE  v(U) = Unfolded(f, h, U)
    <3>1. CASE U = {}
      <4>1. Of(U)[U] = Unfolded(f, Of(U), U)
        BY <1>2, <2>1, <3>1 DEF Sums
      <4> QED
        BY <1>2, <3>1, <4>1 DEF Unfolded
    <3>2. CASE U # {}
      <4> DEFINE P == U \ {Chosen(U)}
      <4>1. Chosen(U) \in U
        BY <3>2 DEF Chosen
      <4>2. P \in SUBSET T /\ P # T /\ P \in SUBSET U /\ IsFiniteSet(P)
        BY <4>1, FS_Subset
      <4> HIDE DEF P
      <4>3. h[P] = Of(P)[P]
        BY <4>2
      <4>4. CASE U = T
        BY <3>2, <4>3, <4>4 DEF Unfolded, P
      <4>5. CASE U # T
        <5>1. Sums(f, Of(U), U) /\ Sums(f, Of(P), P)
          BY <2>1, <4>2, <4>5
        <5>2. Of(U)[P] = Of(P)[P]
          BY <4>2, <5>1, SumsAgree
        <5>3. Of(U)[U] = f[Chosen(U)] + Of(U)[P]
          BY <3>2, <5>1 DEF Sums, Unfolded, P
        <5> QED
          BY <3>2, <4>3, <4>5, <5>2, <5>3 DEF Unfolded, P
      <4> QED
        BY <4>4, <4>5
    <3> QED
      BY <3>1, <3>2
  <2> HIDE DEF v
  <2>3. Sums(f, h, T)
    BY <2>2 DEF Sums
  <2>4. \A U \in SUBSET T : U # T => \E g : Sums(f, g, U)
    BY <2>1
  <2> QED
    BY <2>3, <2>4
<1> HIDE DEF G
<1>3. \A T \in SUBSET S : T \in G
  BY <1>1, <1>2, FiniteSubsetInduction
<1>4. S \in G
  BY <1>3
<1> QED
  BY <1>4 DEF G

LEMMA SumEmpty ==
    ASSUME NEW f
    PROVE  SumFunctionOnSet(f, {}) = 0
<1>1. Sums(f, CHOOSE g : Sums(f, g, {}), {})
  BY SumsExists, FS_EmptySet
<1> QED
  BY <1>1, SumIsChosen DEF Sums, Unfolded

LEMMA SumUnfolds ==
    ASSUME NEW f, NEW S, IsFiniteSet(S), S # {}
    PROVE  /\ Chosen(S) \in S
           /\ SumFunctionOnSet(f, S)
                = f[Chosen(S)] + SumFunctionOnSet(f, S \ {Chosen(S)})
<1> DEFINE x == Chosen(S)
           P == S \ {x}
           g == CHOOSE q : Sums(f, q, S)
           h == CHOOSE q : Sums(f, q, P)
<1>1. x \in S
  BY DEF Chosen
<1>2. IsFiniteSet(P) /\ P \in SUBSET S
  BY FS_Subset
<1>3. Sums(f, g, S) /\ SumFunctionOnSet(f, S) = g[S]
  BY SumsExists, SumIsChosen
<1> HIDE DEF P
<1>4. Sums(f, h, P) /\ SumFunctionOnSet(f, P) = h[P]
  BY <1>2, SumsExists, SumIsChosen
<1> HIDE DEF g, h
<1>5. g[P] = h[P]
  BY <1>2, <1>3, <1>4, SumsAgree
<1>6. g[S] = f[x] + g[P]
  BY <1>3 DEF Sums, Unfolded, P
<1> QED
  BY <1>1, <1>3, <1>4, <1>5, <1>6 DEF P

(* A set of numbers that has 0 and is closed under addition has the sums   *)
(* of its members: Int, Nat, {0}.                                          *)
LEMMA SumClosed ==
    ASSUME NEW Type, 0 \in Type, \A a, b \in Type : a + b \in Type,
           NEW f, NEW S, IsFiniteSet(S), \A x \in S : f[x] \in Type
    PROVE  SumFunctionOnSet(f, S) \in Type
<1> DEFINE G == {T \in SUBSET S : SumFunctionOnSet(f, T) \in Type}
<1>1. {} \in G
  BY SumEmpty
<1>2. ASSUME NEW T \in SUBSET S, T # {}, \A x \in T : T \ {x} \in G
      PROVE  T \in G
  <2>1. IsFiniteSet(T)
    BY FS_Subset
  <2>2. /\ Chosen(T) \in T
        /\ SumFunctionOnSet(f, T)
             = f[Chosen(T)] + SumFunctionOnSet(f, T \ {Chosen(T)})
    BY <1>2, <2>1, SumUnfolds
  <2>3. SumFunctionOnSet(f, T \ {Chosen(T)}) \in Type /\ f[Chosen(T)] \in Type
    BY <1>2, <2>2
  <2> QED
    BY <2>2, <2>3
<1> HIDE DEF G
<1>3. \A T \in SUBSET S : T \in G
  BY <1>1, <1>2, FiniteSubsetInduction
<1> QED
  BY <1>3 DEF G

LEMMA SumInt ==
    ASSUME NEW f, NEW S, IsFiniteSet(S), \A x \in S : f[x] \in Int
    PROVE  SumFunctionOnSet(f, S) \in Int
<1>1. 0 \in Int /\ \A a, b \in Int : a + b \in Int
  OBVIOUS
<1> QED
  BY <1>1, SumClosed

LEMMA SumZero ==
    ASSUME NEW f, NEW S, IsFiniteSet(S), \A x \in S : f[x] = 0
    PROVE  SumFunctionOnSet(f, S) = 0
<1>1. \A a, b \in {0} : a + b \in {0}
  OBVIOUS
<1>2. SumFunctionOnSet(f, S) \in {0}
  BY <1>1, SumClosed
<1> QED
  BY <1>2

(* Only the values on the set count. *)
LEMMA SumCongruent ==
    ASSUME NEW f, NEW g, NEW S, IsFiniteSet(S), \A x \in S : f[x] = g[x]
    PROVE  SumFunctionOnSet(f, S) = SumFunctionOnSet(g, S)
<1> DEFINE G == {T \in SUBSET S : SumFunctionOnSet(f, T) = SumFunctionOnSet(g, T)}
<1>1. {} \in G
  BY SumEmpty
<1>2. ASSUME NEW T \in SUBSET S, T # {}, \A x \in T : T \ {x} \in G
      PROVE  T \in G
  <2>1. IsFiniteSet(T)
    BY FS_Subset
  <2>2. /\ Chosen(T) \in T
        /\ SumFunctionOnSet(f, T)
             = f[Chosen(T)] + SumFunctionOnSet(f, T \ {Chosen(T)})
        /\ SumFunctionOnSet(g, T)
             = g[Chosen(T)] + SumFunctionOnSet(g, T \ {Chosen(T)})
    BY <1>2, <2>1, SumUnfolds
  <2> QED
    BY <1>2, <2>2
<1> HIDE DEF G
<1>3. \A T \in SUBSET S : T \in G
  BY <1>1, <1>2, FiniteSubsetInduction
<1> QED
  BY <1>3 DEF G

(* The members may be taken in any order. *)
LEMMA SumRemove ==
    ASSUME NEW f, NEW S, IsFiniteSet(S), \A x \in S : f[x] \in Int, NEW y \in S
    PROVE  SumFunctionOnSet(f, S) = f[y] + SumFunctionOnSet(f, S \ {y})
<1> DEFINE Out(T, x) == SumFunctionOnSet(f, T) = f[x] + SumFunctionOnSet(f, T \ {x})
           G == {T \in SUBSET S : \A x \in T : Out(T, x)}
<1>1. {} \in G
  OBVIOUS
<1>2. ASSUME NEW T \in SUBSET S, T # {}, \A x \in T : T \ {x} \in G
      PROVE  T \in G
  <2>1. SUFFICES ASSUME NEW x \in T PROVE Out(T, x)
    OBVIOUS
  <2> DEFINE c == Chosen(T)
             U == (T \ {c}) \ {x}
  <2>2. IsFiniteSet(T)
    BY FS_Subset
  <2>3. c \in T /\ Out(T, c)
    BY <1>2, <2>2, SumUnfolds
  <2> HIDE DEF c
  <2>4. CASE x = c
    BY <2>3, <2>4
  <2>5. CASE x # c
    <3>1. T \ {c} \in G /\ T \ {x} \in G
      BY <1>2, <2>3
    <3>2. x \in T \ {c} /\ c \in T \ {x}
      BY <2>3, <2>5
    <3>3. Out(T \ {c}, x) /\ Out(T \ {x}, c)
      BY <3>1, <3>2
    <3>4. (T \ {x}) \ {c} = U
      OBVIOUS
    <3>5. IsFiniteSet(U) /\ U \in SUBSET S
      BY FS_Subset
    <3> HIDE DEF U
    <3>6. SumFunctionOnSet(f, U) \in Int
      BY <3>5, SumInt
    <3>7. /\ SumFunctionOnSet(f, T) = f[c] + SumFunctionOnSet(f, T \ {c})
          /\ SumFunctionOnSet(f, T \ {c}) = f[x] + SumFunctionOnSet(f, U)
          /\ SumFunctionOnSet(f, T \ {x}) = f[c] + SumFunctionOnSet(f, U)
      BY <2>3, <3>3, <3>4 DEF U
    <3>8. f[c] \in Int /\ f[x] \in Int
      BY <2>3
    <3> QED
      BY <3>6, <3>7, <3>8
  <2> QED
    BY <2>4, <2>5
<1> HIDE DEF G
<1>3. \A T \in SUBSET S : T \in G
  BY <1>1, <1>2, FiniteSubsetInduction
<1>4. S \in G
  BY <1>3
<1> QED
  BY <1>4 DEF G

(* Members that count nothing may be left out. *)
LEMMA SumExtend ==
    ASSUME NEW f, NEW g, NEW S, IsFiniteSet(S), NEW R \in SUBSET S,
           \A x \in R : f[x] = g[x], \A x \in S \ R : g[x] = 0,
           \A x \in S : g[x] \in Int
    PROVE  SumFunctionOnSet(f, R) = SumFunctionOnSet(g, S)
<1> DEFINE G == {T \in SUBSET S : SumFunctionOnSet(g, T) = SumFunctionOnSet(g, T \cap R)}
<1>1. {} \in G
  <2>1. {} \cap R = {}
    OBVIOUS
  <2> QED
    BY <2>1
<1>2. ASSUME NEW T \in SUBSET S, T # {}, \A x \in T : T \ {x} \in G
      PROVE  T \in G
  <2>1. CASE T \subseteq R
    <3>1. T \cap R = T
      BY <2>1
    <3> QED
      BY <3>1
  <2>2. CASE ~(T \subseteq R)
    <3>1. PICK x \in T : x \notin R
      BY <2>2
    <3>2. T \ {x} \in G /\ (T \ {x}) \cap R = T \cap R
      BY <1>2, <3>1
    <3>3. IsFiniteSet(T) /\ IsFiniteSet(T \ {x}) /\ T \ {x} \in SUBSET S
      BY FS_Subset
    <3>4. SumFunctionOnSet(g, T) = g[x] + SumFunctionOnSet(g, T \ {x})
      BY <3>3, SumRemove
    <3>5. SumFunctionOnSet(g, T \ {x}) \in Int /\ g[x] = 0
      BY <3>1, <3>3, SumInt
    <3>6. SumFunctionOnSet(g, T) = SumFunctionOnSet(g, T \ {x})
      BY <3>4, <3>5
    <3>7. SumFunctionOnSet(g, T \ {x}) = SumFunctionOnSet(g, (T \ {x}) \cap R)
      BY <3>2
    <3> QED
      BY <3>2, <3>6, <3>7
  <2> QED
    BY <2>1, <2>2
<1> HIDE DEF G
<1>3. S \in G
  BY <1>1, <1>2, FiniteSubsetInduction
<1>4. SumFunctionOnSet(g, S) = SumFunctionOnSet(g, S \cap R) /\ S \cap R = R
  BY <1>3 DEF G
<1>5. IsFiniteSet(R)
  BY FS_Subset
<1>6. SumFunctionOnSet(f, R) = SumFunctionOnSet(g, R)
  BY <1>5, SumCongruent
<1> QED
  BY <1>4, <1>6

LEMMA SumPlus ==
    ASSUME NEW f, NEW g, NEW h, NEW S, IsFiniteSet(S),
           \A x \in S : f[x] \in Int /\ g[x] \in Int /\ h[x] = f[x] + g[x]
    PROVE  SumFunctionOnSet(h, S) = SumFunctionOnSet(f, S) + SumFunctionOnSet(g, S)
<1> DEFINE G == {T \in SUBSET S : SumFunctionOnSet(h, T)
                                    = SumFunctionOnSet(f, T) + SumFunctionOnSet(g, T)}
<1>1. {} \in G
  BY SumEmpty
<1>2. ASSUME NEW T \in SUBSET S, T # {}, \A x \in T : T \ {x} \in G
      PROVE  T \in G
  <2>1. PICK x \in T : TRUE
    BY <1>2
  <2> DEFINE U == T \ {x}
  <2>2. IsFiniteSet(T) /\ IsFiniteSet(U) /\ U \in SUBSET S
    BY FS_Subset
  <2>3. /\ SumFunctionOnSet(f, T) = f[x] + SumFunctionOnSet(f, U)
        /\ SumFunctionOnSet(g, T) = g[x] + SumFunctionOnSet(g, U)
    BY <2>2, SumRemove
  <2>4. SumFunctionOnSet(h, T) = h[x] + SumFunctionOnSet(h, U)
    <3>1. \A y \in T : h[y] \in Int
      OBVIOUS
    <3> QED
      BY <2>2, <3>1, SumRemove
  <2>5. U \in G
    BY <1>2
  <2> HIDE DEF U
  <2>6. SumFunctionOnSet(f, U) \in Int /\ SumFunctionOnSet(g, U) \in Int
    BY <2>2, SumInt
  <2>7. f[x] \in Int /\ g[x] \in Int /\ h[x] = f[x] + g[x]
    OBVIOUS
  <2> QED
    BY <2>3, <2>4, <2>5, <2>6, <2>7
<1> HIDE DEF G
<1>3. \A T \in SUBSET S : T \in G
  BY <1>1, <1>2, FiniteSubsetInduction
<1> QED
  BY <1>3 DEF G

LEMMA SumMinus ==
    ASSUME NEW f, NEW g, NEW h, NEW S, IsFiniteSet(S),
           \A x \in S : f[x] \in Int /\ g[x] \in Int /\ h[x] = f[x] - g[x]
    PROVE  SumFunctionOnSet(h, S) = SumFunctionOnSet(f, S) - SumFunctionOnSet(g, S)
<1>1. \A x \in S : h[x] \in Int /\ g[x] \in Int /\ f[x] = h[x] + g[x]
  OBVIOUS
<1>2. SumFunctionOnSet(f, S) = SumFunctionOnSet(h, S) + SumFunctionOnSet(g, S)
  BY <1>1, SumPlus
<1>3. SumFunctionOnSet(h, S) \in Int /\ SumFunctionOnSet(g, S) \in Int
  BY <1>1, SumInt
<1> QED
  BY <1>2, <1>3

(* At most one member counts. *)
LEMMA SumPoint ==
    ASSUME NEW f, NEW S, IsFiniteSet(S), NEW y, \A x \in S \ {y} : f[x] = 0,
           y \in S => f[y] \in Int
    PROVE  SumFunctionOnSet(f, S) = IF y \in S THEN f[y] ELSE 0
<1>1. CASE y \in S
  <2>1. IsFiniteSet(S \ {y})
    BY FS_Subset
  <2>2. SumFunctionOnSet(f, S \ {y}) = 0
    BY <2>1, SumZero
  <2>3. \A x \in S : f[x] \in Int
    BY <1>1
  <2>4. SumFunctionOnSet(f, S) = f[y] + SumFunctionOnSet(f, S \ {y})
    BY <1>1, <2>3, SumRemove
  <2> QED
    BY <1>1, <2>2, <2>3, <2>4
<1>2. CASE y \notin S
  <2>1. \A x \in S : f[x] = 0
    BY <1>2
  <2> QED
    BY <1>2, <2>1, SumZero
<1> QED
  BY <1>1, <1>2

(***************************************************************************)
(* Sequences.                                                              *)
(***************************************************************************)

IsSeq(s) == \E S : s \in Seq(S)

LEMMA LiteralSeqs ==
  /\ IsSeq(<<>>)
  /\ \A a : IsSeq(<<a>>)
  /\ \A a, b : IsSeq(<<a, b>>)
  /\ \A a, b, c : IsSeq(<<a, b, c>>)
  /\ \A a, b, c, d : IsSeq(<<a, b, c, d>>)
  /\ \A a, b, c, d, e : IsSeq(<<a, b, c, d, e>>)
  /\ \A a, b, c, d, e, f : IsSeq(<<a, b, c, d, e, f>>)
<1>1. <<>> \in Seq({})
  OBVIOUS
<1>2. \A a : <<a>> \in Seq({a})
  OBVIOUS
<1>3. \A a, b : <<a, b>> \in Seq({a, b})
  OBVIOUS
<1>4. \A a, b, c : <<a, b, c>> \in Seq({a, b, c})
  OBVIOUS
<1>5. \A a, b, c, d : <<a, b, c, d>> \in Seq({a, b, c, d})
  OBVIOUS
<1>6. \A a, b, c, d, e : <<a, b, c, d, e>> \in Seq({a, b, c, d, e})
  OBVIOUS
<1>7. \A a, b, c, d, e, f : <<a, b, c, d, e, f>> \in Seq({a, b, c, d, e, f})
  OBVIOUS
<1> QED
  BY <1>1, <1>2, <1>3, <1>4, <1>5, <1>6, <1>7 DEF IsSeq

LEMMA Joined ==
  ASSUME NEW s, NEW t, IsSeq(s), IsSeq(t)
  PROVE  /\ IsSeq(s \o t)
         /\ Len(s) \in Nat /\ Len(t) \in Nat
         /\ Len(s \o t) = Len(s) + Len(t)
         /\ \A k \in 1 .. Len(s) : (s \o t)[k] = s[k]
         /\ \A k \in Len(s) + 1 .. Len(s) + Len(t) : (s \o t)[k] = t[k - Len(s)]
<1>1. PICK S : s \in Seq(S)
  BY DEF IsSeq
<1>2. PICK T : t \in Seq(T)
  BY DEF IsSeq
<1>3. s \in Seq(S \cup T) /\ t \in Seq(S \cup T)
  BY <1>1, <1>2
<1>4. Len(s) \in Nat /\ Len(t) \in Nat
  BY <1>1, <1>2
<1>5. /\ s \o t \in Seq(S \cup T)
      /\ Len(s \o t) = Len(s) + Len(t)
      /\ \A i \in 1 .. Len(s) + Len(t) :
           (s \o t)[i] = IF i <= Len(s) THEN s[i] ELSE t[i - Len(s)]
  BY <1>3
<1> QED
  BY <1>4, <1>5 DEF IsSeq

(***************************************************************************)
(* The parts of postEffects.                                               *)
(***************************************************************************)

LEMMA StockPart ==
  ASSUME NEW v, NEW t, NEW inv \in BOOLEAN
  PROVE  LET n == Signed(OnStock(t), inv)
             s == ApplyStock(v, t, inv)
             e == IF ~inv /\ n < 0 THEN 1 ELSE 0
         IN  /\ IsSeq(s)
             /\ n = 0 => Len(s) = 0
             /\ n # 0 => /\ Len(s) = e + 3
                         /\ e = 1 => s[1] = Enough(Stock, n)
                         /\ s[e + 1] = Add(Stock, n)
                         /\ s[e + 2] = Read(Level(t.shop))
                         /\ s[e + 3] = Put(Level(t.shop), Seen(v, Level(t.shop)) + n)
<1> DEFINE n == Signed(OnStock(t), inv)
           f == IF ~inv /\ n < 0 THEN <<Enough(Stock, n)>> ELSE <<>>
           g == <<Add(Stock, n), Read(Level(t.shop)),
                  Put(Level(t.shop), Seen(v, Level(t.shop)) + n)>>
<1>1. CASE n = 0
  BY <1>1, LiteralSeqs DEF ApplyStock
<1>2. CASE n # 0
  <2>1. ApplyStock(v, t, inv) = f \o g
    BY <1>2 DEF ApplyStock
  <2>2. IsSeq(f) /\ IsSeq(g)
    BY LiteralSeqs
  <2> HIDE DEF n
  <2>3. /\ Len(f) = IF ~inv /\ n < 0 THEN 1 ELSE 0
        /\ (~inv /\ n < 0) => f[1] = Enough(Stock, n)
        /\ Len(g) = 3 /\ g[1] = Add(Stock, n) /\ g[2] = Read(Level(t.shop))
        /\ g[3] = Put(Level(t.shop), Seen(v, Level(t.shop)) + n)
    OBVIOUS
  <2> HIDE DEF f, g
  <2>4. /\ IsSeq(f \o g) /\ Len(f \o g) = Len(f) + Len(g)
        /\ \A k \in 1 .. Len(f) : (f \o g)[k] = f[k]
        /\ \A k \in Len(f) + 1 .. Len(f) + Len(g) : (f \o g)[k] = g[k - Len(f)]
    BY <2>2, Joined
  <2> QED
    BY <1>2, <2>1, <2>3, <2>4 DEF n
<1> QED
  BY <1>1, <1>2

LEMMA PartyPart ==
  ASSUME NEW t, NEW inv \in BOOLEAN
  PROVE  LET s == ApplyPartyBalance(t, inv)
         IN  /\ IsSeq(s)
             /\ OnParty(t) = 0 => Len(s) = 0
             /\ OnParty(t) # 0 => /\ Len(s) = 1
                                  /\ s[1] = Add(Party(t.party), Signed(OnParty(t), inv))
BY LiteralSeqs DEF ApplyPartyBalance

LEMMA MoneyPart ==
  ASSUME NEW v, NEW d, NEW t, NEW inv \in BOOLEAN
  PROVE  LET s == ApplyPayments(v, d, t, inv)
             paid == Add(Money(t.shop), Signed(OnMoney(t), inv))
         IN  /\ IsSeq(s)
             /\ t.own = 0 => Len(s) = 0
             /\ (t.own # 0 /\ ~t.cheque) => (Len(s) = 1 /\ s[1] = paid)
             /\ (t.own # 0 /\ t.cheque /\ ~inv) => (Len(s) = 1 /\ s[1] = Put(Cheque(d), "OPEN"))
             /\ (t.own # 0 /\ t.cheque /\ inv /\ Seen(v, Cheque(d)) # "CLOSED") =>
                  (Len(s) = 2 /\ s[1] = Read(Cheque(d)) /\ s[2] = Put(Cheque(d), "NONE"))
             /\ (t.own # 0 /\ t.cheque /\ inv /\ Seen(v, Cheque(d)) = "CLOSED") =>
                  (Len(s) = 3 /\ s[1] = Read(Cheque(d)) /\ s[2] = paid
                   /\ s[3] = Put(Cheque(d), "NONE"))
<1> DEFINE f == <<Read(Cheque(d))>>
           g == IF Seen(v, Cheque(d)) = "CLOSED"
                THEN <<Add(Money(t.shop), Signed(OnMoney(t), TRUE))>> ELSE <<>>
           h == <<Put(Cheque(d), "NONE")>>
<1>1. CASE t.own = 0
  BY <1>1, LiteralSeqs DEF ApplyPayments
<1>2. CASE t.own # 0 /\ ~t.cheque
  BY <1>2, LiteralSeqs DEF ApplyPayments
<1>3. CASE t.own # 0 /\ t.cheque /\ ~inv
  BY <1>3, LiteralSeqs DEF ApplyPayments
<1>4. CASE t.own # 0 /\ t.cheque /\ inv
  <2>1. ApplyPayments(v, d, t, inv) = (f \o g) \o h
    BY <1>4 DEF ApplyPayments
  <2>2. IsSeq(f) /\ IsSeq(g) /\ IsSeq(h)
    BY LiteralSeqs
  <2>3. /\ Len(f) = 1 /\ f[1] = Read(Cheque(d))
        /\ Len(h) = 1 /\ h[1] = Put(Cheque(d), "NONE")
        /\ Seen(v, Cheque(d)) # "CLOSED" => Len(g) = 0
        /\ Seen(v, Cheque(d)) = "CLOSED" =>
             Len(g) = 1 /\ g[1] = Add(Money(t.shop), Signed(OnMoney(t), TRUE))
    OBVIOUS
  <2> HIDE DEF f, g, h
  <2>4. /\ IsSeq(f \o g) /\ Len(f \o g) = Len(f) + Len(g)
        /\ \A k \in 1 .. Len(f) : (f \o g)[k] = f[k]
        /\ \A k \in Len(f) + 1 .. Len(f) + Len(g) : (f \o g)[k] = g[k - Len(f)]
    BY <2>2, Joined
  <2> DEFINE fg == f \o g
  <2> HIDE DEF fg
  <2>5. /\ IsSeq(fg \o h) /\ Len(fg \o h) = Len(fg) + Len(h)
        /\ \A k \in 1 .. Len(fg) : (fg \o h)[k] = fg[k]
        /\ \A k \in Len(fg) + 1 .. Len(fg) + Len(h) : (fg \o h)[k] = h[k - Len(fg)]
    BY <2>2, <2>4, Joined DEF fg
  <2>6. Signed(OnMoney(t), inv) = Signed(OnMoney(t), TRUE)
    BY <1>4 DEF Signed
  <2>7. /\ Len(fg \o h) = 1 + Len(g) + 1
        /\ (fg \o h)[1] = f[1]
        /\ \A k \in 2 .. 1 + Len(g) : (fg \o h)[k] = g[k - 1]
        /\ (fg \o h)[Len(g) + 2] = h[1]
    BY <2>3, <2>4, <2>5 DEF fg
  <2>8. IsSeq(ApplyPayments(v, d, t, inv)) /\ fg \o h = ApplyPayments(v, d, t, inv)
    BY <2>1, <2>5 DEF fg
  <2> DEFINE q == ApplyPayments(v, d, t, inv)
  <2>9. /\ q[1] = Read(Cheque(d))
        /\ Seen(v, Cheque(d)) # "CLOSED" => Len(q) = 2 /\ q[2] = Put(Cheque(d), "NONE")
        /\ Seen(v, Cheque(d)) = "CLOSED" =>
             /\ Len(q) = 3 /\ q[3] = Put(Cheque(d), "NONE")
             /\ q[2] = Add(Money(t.shop), Signed(OnMoney(t), inv))
    <3> HIDE DEF q
    <3>1. q = fg \o h
      BY <2>8 DEF q
    <3>2. CASE Seen(v, Cheque(d)) # "CLOSED"
      BY <2>3, <2>7, <3>1, <3>2
    <3>3. CASE Seen(v, Cheque(d)) = "CLOSED"
      <4>1. Len(g) = 1 /\ g[1] = Add(Money(t.shop), Signed(OnMoney(t), inv))
        BY <2>3, <2>6, <3>3
      <4>2. q[2] = g[1] /\ q[3] = h[1] /\ Len(q) = 3 /\ q[1] = f[1]
        BY <2>7, <3>1, <4>1
      <4> QED
        BY <2>3, <3>3, <4>1, <4>2
    <3> QED
      BY <3>2, <3>3
  <2> HIDE DEF q
  <2>10. IsSeq(q)
    BY <2>8 DEF q
  <2> QED
    BY <1>4, <2>9, <2>10, Zenon DEF q
<1> QED
  BY <1>1, <1>2, <1>3, <1>4

LEMMA AllocationPart ==
  ASSUME NEW v, NEW t, NEW amount, NEW inv \in BOOLEAN
  PROVE  LET s == ApplyAllocations(v, t, amount, inv)
             paid == Seen(v, Paid(t.pays)) + Signed(amount, inv)
         IN  /\ IsSeq(s)
             /\ (t.pays = None \/ amount = 0) => Len(s) = 0
             /\ (t.pays # None /\ amount # 0) =>
                  /\ Len(s) = 3 /\ s[1] = Read(Paid(t.pays))
                  /\ s[2] = Put(Paid(t.pays), paid)
                  /\ s[3] = Put(Status(t.pays), Settlement(Given[t.pays].is.total, paid))
BY LiteralSeqs DEF ApplyAllocations

LEMMA EffectsPart ==
  ASSUME NEW v, NEW d, NEW t, NEW amount, NEW inv \in BOOLEAN
  PROVE  LET q == PostEffects(v, d, t, amount, inv)
             s == ApplyStock(v, t, inv)
             p == ApplyPartyBalance(t, inv)
             m == ApplyPayments(v, d, t, inv)
             a == ApplyAllocations(v, t, amount, inv)
         IN  /\ IsSeq(q)
             /\ Len(s) \in Nat /\ Len(p) \in Nat /\ Len(m) \in Nat /\ Len(a) \in Nat
             /\ Len(q) = Len(s) + Len(p) + Len(m) + Len(a)
             /\ \A k \in 1 .. Len(s) : q[k] = s[k]
             /\ \A k \in Len(s) + 1 .. Len(s) + Len(p) : q[k] = p[k - Len(s)]
             /\ \A k \in Len(s) + Len(p) + 1 .. Len(s) + Len(p) + Len(m) :
                  q[k] = m[k - (Len(s) + Len(p))]
             /\ \A k \in Len(s) + Len(p) + Len(m) + 1 .. Len(q) :
                  q[k] = a[k - (Len(s) + Len(p) + Len(m))]
<1> DEFINE s == ApplyStock(v, t, inv)
           p == ApplyPartyBalance(t, inv)
           m == ApplyPayments(v, d, t, inv)
           a == ApplyAllocations(v, t, amount, inv)
           sp == s \o p
           spm == sp \o m
           q == spm \o a
<1>1. IsSeq(s) /\ IsSeq(p) /\ IsSeq(m) /\ IsSeq(a)
  BY StockPart, PartyPart, MoneyPart, AllocationPart
<1>2. PostEffects(v, d, t, amount, inv) = q
  BY DEF PostEffects
<1> HIDE DEF s, p, m, a
<1>3. /\ IsSeq(sp) /\ Len(s) \in Nat /\ Len(p) \in Nat
      /\ Len(sp) = Len(s) + Len(p)
      /\ \A k \in 1 .. Len(s) : sp[k] = s[k]
      /\ \A k \in Len(s) + 1 .. Len(s) + Len(p) : sp[k] = p[k - Len(s)]
  BY <1>1, Joined
<1> HIDE DEF sp
<1>4. /\ IsSeq(spm) /\ Len(m) \in Nat
      /\ Len(spm) = Len(sp) + Len(m)
      /\ \A k \in 1 .. Len(sp) : spm[k] = sp[k]
      /\ \A k \in Len(sp) + 1 .. Len(sp) + Len(m) : spm[k] = m[k - Len(sp)]
  BY <1>1, <1>3, Joined
<1> HIDE DEF spm
<1>5. /\ IsSeq(q) /\ Len(a) \in Nat
      /\ Len(q) = Len(spm) + Len(a)
      /\ \A k \in 1 .. Len(spm) : q[k] = spm[k]
      /\ \A k \in Len(spm) + 1 .. Len(spm) + Len(a) : q[k] = a[k - Len(spm)]
  BY <1>1, <1>4, Joined
<1> HIDE DEF q
<1>6. Len(q) = Len(s) + Len(p) + Len(m) + Len(a)
  BY <1>3, <1>4, <1>5
<1>7. \A k \in 1 .. Len(s) : q[k] = s[k]
  BY <1>3, <1>4, <1>5
<1>8. \A k \in Len(s) + 1 .. Len(s) + Len(p) : q[k] = p[k - Len(s)]
  BY <1>3, <1>4, <1>5
<1>9. \A k \in Len(s) + Len(p) + 1 .. Len(s) + Len(p) + Len(m) :
         q[k] = m[k - (Len(s) + Len(p))]
  BY <1>3, <1>4, <1>5
<1>10. \A k \in Len(s) + Len(p) + Len(m) + 1 .. Len(q) :
         q[k] = a[k - (Len(s) + Len(p) + Len(m))]
  BY <1>3, <1>4, <1>5
<1> QED
  BY <1>2, <1>3, <1>4, <1>5, <1>6, <1>7, <1>8, <1>9, <1>10 DEF s, p, m, a

(***************************************************************************)
(* The handlers.  Those that post have a front of Base statements, the     *)
(* effects, and a tail.                                                    *)
(***************************************************************************)

PostingOps == {"create", "resume", "delete", "restore", "refund", "convert"}

DocOf(c, r) == IF r.op \in Makers THEN c ELSE r.doc

TextOf(r) == IF r.op \in Makers THEN Made(r) ELSE Given[r.doc].is

Undoes(r) == r.op = "delete"

AmountOf(r, v) ==
  LET owed == Seen(v, <<"owed", r.in.pays>>)
  IN  IF r.op = "create" /\ r.in.pays # None
      THEN IF owed < 0 THEN 0 ELSE IF owed < r.in.total THEN owed ELSE r.in.total
      ELSE IF r.op \in {"delete", "restore"} THEN Seen(v, Allocated(r.doc)) ELSE 0

Posts(r, v) == r.op \in {"delete", "restore"} => Seen(v, Status(r.doc)) # "HELD"

Effects(c, r, v) ==
  IF Posts(r, v) THEN PostEffects(v, DocOf(c, r), TextOf(r), AmountOf(r, v), Undoes(r))
  ELSE <<>>

Base(r) ==
  CASE r.op = "create" -> IF r.in.pays = None THEN 5 ELSE 8
    [] r.op = "resume" -> 6
    [] r.op = "delete" -> 5
    [] r.op = "restore" -> 4
    [] r.op \in {"refund", "convert"} -> 8

Marks(r, v) == r.qty >= Given[r.doc].is.qty - Seen(v, <<"returned", r.doc>>)

LEMMA EffectsSeq ==
  ASSUME NEW c, NEW r, NEW v
  PROVE  IsSeq(Effects(c, r, v)) /\ Len(Effects(c, r, v)) \in Nat
<1>1. Undoes(r) \in BOOLEAN
  BY DEF Undoes
<1>2. IsSeq(Effects(c, r, v))
  BY <1>1, EffectsPart, LiteralSeqs DEF Effects
<1> QED
  BY <1>2, Joined, LiteralSeqs

CreateTxnLaid(q, e, c, t, amount) ==
  /\ IsSeq(q) /\ IsSeq(e) /\ Len(e) \in Nat
  /\ Len(q) = Len(e) + 6
  /\ q[1] = Begin /\ q[2] = Add(Seq_(t.shop, t.type), 1)
  /\ q[3] = Put(Status(c), FirstStatus(t)) /\ q[4] = Put(Paid(c), t.own)
  /\ q[5] = Put(Allocated(c), amount)
  /\ \A k \in 6 .. 5 + Len(e) : q[k] = e[k - 5]
  /\ q[Len(e) + 6] = Commit

LEMMA CreateTxnPart ==
  ASSUME NEW v, NEW c, NEW t, NEW amount
  PROVE  CreateTxnLaid(CreateTxn(v, c, t, amount), PostEffects(v, c, t, amount, FALSE),
                       c, t, amount)
<1> DEFINE f == <<Begin, Add(Seq_(t.shop, t.type), 1), Put(Status(c), FirstStatus(t)),
                  Put(Paid(c), t.own), Put(Allocated(c), amount)>>
           e == PostEffects(v, c, t, amount, FALSE)
           g == <<Commit>>
           fe == f \o e
           q == fe \o g
<1>1. CreateTxn(v, c, t, amount) = q
  BY DEF CreateTxn
<1>2. IsSeq(f) /\ IsSeq(e) /\ IsSeq(g)
  BY LiteralSeqs, EffectsPart
<1>3. /\ Len(f) = 5 /\ Len(g) = 1 /\ g[1] = Commit
      /\ f[1] = Begin /\ f[2] = Add(Seq_(t.shop, t.type), 1)
      /\ f[3] = Put(Status(c), FirstStatus(t)) /\ f[4] = Put(Paid(c), t.own)
      /\ f[5] = Put(Allocated(c), amount)
  OBVIOUS
<1> HIDE DEF f, e, g
<1>4. /\ IsSeq(fe) /\ Len(e) \in Nat /\ Len(fe) = Len(f) + Len(e)
      /\ \A k \in 1 .. Len(f) : fe[k] = f[k]
      /\ \A k \in Len(f) + 1 .. Len(f) + Len(e) : fe[k] = e[k - Len(f)]
  BY <1>2, Joined
<1> HIDE DEF fe
<1>5. /\ IsSeq(q) /\ Len(q) = Len(fe) + Len(g)
      /\ \A k \in 1 .. Len(fe) : q[k] = fe[k]
      /\ \A k \in Len(fe) + 1 .. Len(fe) + Len(g) : q[k] = g[k - Len(fe)]
  BY <1>2, <1>4, Joined
<1> HIDE DEF q
<1>6. Len(q) = Len(e) + 6 /\ q[Len(e) + 6] = g[1]
  BY <1>3, <1>4, <1>5
<1>7. \A k \in 1 .. 5 : q[k] = f[k]
  BY <1>3, <1>4, <1>5
<1>8. \A k \in 6 .. 5 + Len(e) : q[k] = e[k - 5]
  BY <1>3, <1>4, <1>5
<1>9. q[1] = f[1] /\ q[2] = f[2] /\ q[3] = f[3] /\ q[4] = f[4] /\ q[5] = f[5]
  BY <1>7
<1>10. CreateTxn(v, c, t, amount) = q
  BY <1>1
<1> QED
  BY <1>10, <1>2, <1>3, <1>4, <1>5, <1>6, <1>8, <1>9, Zenon DEF e, CreateTxnLaid

(* A handler that makes a document, behind a front of three statements. *)
ThreeLaid(q, f, e, c, t, amount) ==
  /\ IsSeq(q) /\ IsSeq(e) /\ Len(e) \in Nat
  /\ Len(q) = Len(e) + 9
  /\ q[1] = f[1] /\ q[2] = f[2] /\ q[3] = f[3]
  /\ q[4] = Begin /\ q[5] = Add(Seq_(t.shop, t.type), 1)
  /\ q[6] = Put(Status(c), FirstStatus(t)) /\ q[7] = Put(Paid(c), t.own)
  /\ q[8] = Put(Allocated(c), amount)
  /\ \A k \in 9 .. 8 + Len(e) : q[k] = e[k - 8]
  /\ q[Len(e) + 9] = Commit

LEMMA AfterThree ==
  ASSUME NEW f, IsSeq(f), Len(f) = 3, NEW v, NEW c, NEW t, NEW amount
  PROVE  ThreeLaid(f \o CreateTxn(v, c, t, amount), f, PostEffects(v, c, t, amount, FALSE),
                   c, t, amount)
<1> DEFINE g == CreateTxn(v, c, t, amount)
           e == PostEffects(v, c, t, amount, FALSE)
           q == f \o g
<1>1. CreateTxnLaid(g, e, c, t, amount)
  BY CreateTxnPart
<1> HIDE DEF g, e
<1>2. /\ IsSeq(q) /\ Len(q) = Len(f) + Len(g)
      /\ \A k \in 1 .. Len(f) : q[k] = f[k]
      /\ \A k \in Len(f) + 1 .. Len(f) + Len(g) : q[k] = g[k - Len(f)]
  BY <1>1, Joined, Zenon DEF CreateTxnLaid
<1> HIDE DEF q
<1>3. /\ q[4] = g[1] /\ q[5] = g[2] /\ q[6] = g[3] /\ q[7] = g[4] /\ q[8] = g[5]
      /\ q[Len(e) + 9] = g[Len(e) + 6]
  BY <1>1, <1>2 DEF CreateTxnLaid
<1>4. \A k \in 9 .. 8 + Len(e) : q[k] = e[k - 8]
  <2> TAKE k \in 9 .. 8 + Len(e)
  <2>1. q[k] = g[k - 3]
    BY <1>1, <1>2 DEF CreateTxnLaid
  <2>2. k - 3 \in 6 .. 5 + Len(e) /\ (k - 3) - 5 = k - 8
    BY <1>1 DEF CreateTxnLaid
  <2> QED
    BY <1>1, <2>1, <2>2 DEF CreateTxnLaid
<1>5. Len(q) = Len(e) + 9 /\ q[1] = f[1] /\ q[2] = f[2] /\ q[3] = f[3]
  BY <1>1, <1>2 DEF CreateTxnLaid
<1> QED
  BY <1>1, <1>2, <1>3, <1>4, <1>5, Zenon DEF q, g, e, CreateTxnLaid, ThreeLaid

(* Where a handler that makes a document has its transaction. *)
MadeLaid(q, e, b, c, t, amount) ==
  /\ q[b - 4] = Begin /\ q[b - 3] = Add(Seq_(t.shop, t.type), 1)
  /\ q[b - 2] = Put(Status(c), FirstStatus(t)) /\ q[b - 1] = Put(Paid(c), t.own)
  /\ q[b] = Put(Allocated(c), amount)
  /\ q[b + Len(e) + 1] = Commit

OpLaid(q, e, c, r, v) ==
  LET t == TextOf(r)
      d == r.doc
      n == Len(e)
  IN  CASE r.op = "create" ->
             /\ MadeLaid(q, e, Base(r), c, t, AmountOf(r, v)) /\ Len(q) = Base(r) + n + 1
             /\ t.pays # None =>
                  /\ q[1] = Check(Status(t.pays), {"OPEN", "PARTIAL"})
                  /\ q[2] = Check(Deleted(t.pays), {FALSE})
                  /\ q[3] = Read(<<"owed", t.pays>>)
        [] r.op = "resume" ->
             /\ q[1] = Check(Deleted(d), {FALSE}) /\ q[2] = Check(Status(d), {"HELD"})
             /\ q[3] = Begin /\ q[4] = Claim(Status(d), "HELD", "OPEN")
             /\ q[5] = Put(Status(d), FirstStatus(t)) /\ q[6] = Put(Paid(d), t.own)
             /\ q[n + 7] = Commit /\ Len(q) = n + 7
        [] r.op = "delete" ->
             /\ q[1] = Check(Deleted(d), {FALSE}) /\ q[2] = Check(<<"linked", d>>, {FALSE})
             /\ q[3] = Read(Status(d)) /\ q[4] = Read(Allocated(d)) /\ q[5] = Begin
             /\ t.source = None =>
                  q[n + 6] = Put(Deleted(d), TRUE) /\ q[n + 7] = Commit /\ Len(q) = n + 7
             /\ t.source # None =>
                  /\ q[n + 6] = Put(Status(t.source), "ORDER_OPEN")
                  /\ q[n + 7] = Put(Deleted(d), TRUE) /\ q[n + 8] = Commit /\ Len(q) = n + 8
        [] r.op = "restore" ->
             /\ q[1] = Check(Deleted(d), {TRUE})
             /\ q[2] = Read(Status(d)) /\ q[3] = Read(Allocated(d)) /\ q[4] = Begin
             /\ q[n + 5] = Put(Deleted(d), FALSE) /\ q[n + 6] = Commit /\ Len(q) = n + 6
        [] r.op = "refund" ->
             /\ MadeLaid(q, e, 8, c, t, 0)
             /\ q[1] = Check(Status(d), {"OPEN", "PARTIAL", "PAID", "REFUNDED"})
             /\ q[2] = Check(Deleted(d), {FALSE})
             /\ q[3] = Check(<<"returned", d>>, 0 .. (Given[d].is.qty - r.qty))
             /\ Marks(r, v) => Len(q) = n + 10 /\ q[n + 10] = Put(Status(d), "REFUNDED")
             /\ ~Marks(r, v) => Len(q) = n + 9
        [] r.op = "convert" ->
             /\ MadeLaid(q, e, 8, c, t, 0) /\ Len(q) = n + 9
             /\ q[1] = Check(Status(d), Open) /\ q[2] = Read(<<"received", d>>)
             /\ q[3] = Claim(Status(d), Seen(v, Status(d)), StatusAfter(v, r))

HandlerLaid(q, e, c, r, v) ==
  /\ IsSeq(q) /\ IsSeq(e) /\ Len(e) \in Nat
  /\ \A k \in Base(r) + 1 .. Base(r) + Len(e) : q[k] = e[k - Base(r)]
  /\ OpLaid(q, e, c, r, v)

LEMMA CreateHandler ==
  ASSUME NEW c, NEW r, r.op = "create", NEW v
  PROVE  HandlerLaid(Handler(c, r, v), Effects(c, r, v), c, r, v)
<1> DEFINE q == Handler(c, r, v)
           e == Effects(c, r, v)
           t == r.in
           amount == AmountOf(r, v)
           ee == PostEffects(v, c, t, amount, FALSE)
<1>1. /\ TextOf(r) = t /\ e = ee
      /\ Base(r) = IF t.pays = None THEN 5 ELSE 8
  BY DEF TextOf, Effects, Posts, DocOf, Undoes, Makers, Base, Made
<1>2. q = Create(v, c, t)
  BY DEF Handler
<1>3. CASE t.pays = None
  <2>1. q = CreateTxn(v, c, t, 0)
    BY <1>2, <1>3 DEF Create
  <2>2. amount = 0
    BY <1>3 DEF AmountOf
  <2> HIDE DEF q, amount, e, ee
  <2>3. CreateTxnLaid(q, ee, c, t, 0)
    BY <2>1, <2>2, CreateTxnPart DEF ee
  <2>4. HandlerLaid(q, ee, c, r, v)
    BY <2>2, <2>3, <1>1, <1>3 DEF CreateTxnLaid, HandlerLaid, OpLaid, MadeLaid, amount
  <2> QED
    BY <1>1, <2>4 DEF q, e
<1>4. CASE t.pays # None
  <2> DEFINE f == <<Check(Status(t.pays), {"OPEN", "PARTIAL"}), Check(Deleted(t.pays), {FALSE}),
                    Read(<<"owed", t.pays>>)>>
  <2>1. q = f \o CreateTxn(v, c, t, amount)
    BY <1>2, <1>4 DEF Create, AmountOf
  <2>2. /\ IsSeq(f) /\ Len(f) = 3
        /\ f[1] = Check(Status(t.pays), {"OPEN", "PARTIAL"})
        /\ f[2] = Check(Deleted(t.pays), {FALSE}) /\ f[3] = Read(<<"owed", t.pays>>)
    BY LiteralSeqs
  <2> HIDE DEF q, amount, e, ee, f
  <2>3. ThreeLaid(q, f, ee, c, t, amount)
    BY <2>1, <2>2, AfterThree DEF ee
  <2>4. HandlerLaid(q, ee, c, r, v)
    BY <2>2, <2>3, <1>1, <1>4 DEF ThreeLaid, HandlerLaid, OpLaid, MadeLaid, amount
  <2> QED
    BY <1>1, <2>4 DEF q, e
<1> QED
  BY <1>3, <1>4

LEMMA Framed ==
  ASSUME NEW f, NEW e, NEW g, IsSeq(f), IsSeq(e), IsSeq(g)
  PROVE  LET q == (f \o e) \o g
         IN  /\ IsSeq(q) /\ Len(f) \in Nat /\ Len(e) \in Nat /\ Len(g) \in Nat
             /\ Len(q) = Len(f) + Len(e) + Len(g)
             /\ \A k \in 1 .. Len(f) : q[k] = f[k]
             /\ \A k \in Len(f) + 1 .. Len(f) + Len(e) : q[k] = e[k - Len(f)]
             /\ \A k \in Len(f) + Len(e) + 1 .. Len(q) : q[k] = g[k - (Len(f) + Len(e))]
<1> DEFINE fe == f \o e
           q == fe \o g
<1>1. /\ IsSeq(fe) /\ Len(f) \in Nat /\ Len(e) \in Nat /\ Len(fe) = Len(f) + Len(e)
      /\ \A k \in 1 .. Len(f) : fe[k] = f[k]
      /\ \A k \in Len(f) + 1 .. Len(f) + Len(e) : fe[k] = e[k - Len(f)]
  BY Joined
<1> HIDE DEF fe
<1>2. /\ IsSeq(q) /\ Len(g) \in Nat /\ Len(q) = Len(fe) + Len(g)
      /\ \A k \in 1 .. Len(fe) : q[k] = fe[k]
      /\ \A k \in Len(fe) + 1 .. Len(fe) + Len(g) : q[k] = g[k - Len(fe)]
  BY <1>1, Joined
<1> HIDE DEF q
<1>3. \A k \in 1 .. Len(f) : q[k] = f[k]
  BY <1>1, <1>2
<1>4. \A k \in Len(f) + 1 .. Len(f) + Len(e) : q[k] = e[k - Len(f)]
  BY <1>1, <1>2
<1>5. \A k \in Len(f) + Len(e) + 1 .. Len(q) : q[k] = g[k - (Len(f) + Len(e))]
  BY <1>1, <1>2
<1>6. Len(q) = Len(f) + Len(e) + Len(g)
  BY <1>1, <1>2
<1> QED
  BY <1>1, <1>2, <1>3, <1>4, <1>5, <1>6, Zenon DEF q, fe

LEMMA ResumeHandler ==
  ASSUME NEW c, NEW r, r.op = "resume", NEW v
  PROVE  HandlerLaid(Handler(c, r, v), Effects(c, r, v), c, r, v)
<1> DEFINE q == Handler(c, r, v)
           d == r.doc
           t == Given[d].is
           e == PostEffects(v, d, t, 0, FALSE)
           f == <<Check(Deleted(d), {FALSE}), Check(Status(d), {"HELD"}), Begin,
                  Claim(Status(d), "HELD", "OPEN"),
                  Put(Status(d), FirstStatus(t)), Put(Paid(d), t.own)>>
           g == <<Commit>>
<1>1. Effects(c, r, v) = e /\ TextOf(r) = t /\ Base(r) = 6
  BY DEF TextOf, Effects, Posts, DocOf, Undoes, Makers, Base, AmountOf
<1>2. q = (f \o e) \o g
  BY DEF Handler, Resume
<1>3. /\ Len(f) = 6 /\ Len(g) = 1 /\ g[1] = Commit
      /\ f[1] = Check(Deleted(d), {FALSE}) /\ f[2] = Check(Status(d), {"HELD"})
      /\ f[3] = Begin /\ f[4] = Claim(Status(d), "HELD", "OPEN")
      /\ f[5] = Put(Status(d), FirstStatus(t)) /\ f[6] = Put(Paid(d), t.own)
  OBVIOUS
<1>4. IsSeq(f) /\ IsSeq(e) /\ IsSeq(g)
  BY LiteralSeqs, EffectsPart
<1> HIDE DEF q, e, f, g
<1>5. /\ IsSeq(q) /\ Len(e) \in Nat
      /\ Len(q) = Len(f) + Len(e) + Len(g)
      /\ \A k \in 1 .. Len(f) : q[k] = f[k]
      /\ \A k \in Len(f) + 1 .. Len(f) + Len(e) : q[k] = e[k - Len(f)]
      /\ \A k \in Len(f) + Len(e) + 1 .. Len(q) : q[k] = g[k - (Len(f) + Len(e))]
  BY <1>2, <1>4, Framed
<1>6. HandlerLaid(q, e, c, r, v)
  BY <1>1, <1>3, <1>4, <1>5 DEF HandlerLaid, OpLaid
<1> QED
  BY <1>1, <1>6 DEF q

LEMMA RestoreHandler ==
  ASSUME NEW c, NEW r, r.op = "restore", NEW v
  PROVE  HandlerLaid(Handler(c, r, v), Effects(c, r, v), c, r, v)
<1> DEFINE q == Handler(c, r, v)
           d == r.doc
           t == Given[d].is
           e == IF Seen(v, Status(d)) = "HELD" THEN <<>>
                ELSE PostEffects(v, d, t, Seen(v, Allocated(d)), FALSE)
           f == <<Check(Deleted(d), {TRUE}), Read(Status(d)), Read(Allocated(d)), Begin>>
           g == <<Put(Deleted(d), FALSE), Commit>>
<1>1. Effects(c, r, v) = e /\ TextOf(r) = t /\ Base(r) = 4
  BY DEF TextOf, Effects, Posts, DocOf, Undoes, Makers, Base, AmountOf
<1>2. q = (f \o e) \o g
  BY DEF Handler, Restore
<1>3. /\ Len(f) = 4 /\ Len(g) = 2 /\ g[1] = Put(Deleted(d), FALSE) /\ g[2] = Commit
      /\ f[1] = Check(Deleted(d), {TRUE}) /\ f[2] = Read(Status(d))
      /\ f[3] = Read(Allocated(d)) /\ f[4] = Begin
  OBVIOUS
<1>4. IsSeq(f) /\ IsSeq(e) /\ IsSeq(g)
  BY LiteralSeqs, EffectsPart
<1> HIDE DEF q, e, f, g
<1>5. /\ IsSeq(q) /\ Len(e) \in Nat
      /\ Len(q) = Len(f) + Len(e) + Len(g)
      /\ \A k \in 1 .. Len(f) : q[k] = f[k]
      /\ \A k \in Len(f) + 1 .. Len(f) + Len(e) : q[k] = e[k - Len(f)]
      /\ \A k \in Len(f) + Len(e) + 1 .. Len(q) : q[k] = g[k - (Len(f) + Len(e))]
  BY <1>2, <1>4, Framed
<1>6. q[1] = f[1] /\ q[2] = f[2] /\ q[3] = f[3] /\ q[4] = f[4]
  BY <1>3, <1>5
<1>7. Len(q) = Len(e) + 6 /\ q[Len(e) + 5] = g[1] /\ q[Len(e) + 6] = g[2]
  <2>1. Len(q) = Len(e) + 6
    BY <1>3, <1>5
  <2>2. \A k \in Len(e) + 5 .. Len(e) + 6 : q[k] = g[k - (4 + Len(e))]
    BY <1>3, <1>5, <2>1
  <2>3. (Len(e) + 5) - (4 + Len(e)) = 1 /\ (Len(e) + 6) - (4 + Len(e)) = 2
    BY <1>5
  <2> QED
    BY <1>5, <2>1, <2>2, <2>3
<1>8. OpLaid(q, e, c, r, v)
  BY <1>1, <1>3, <1>6, <1>7 DEF OpLaid
<1>9. HandlerLaid(q, e, c, r, v)
  BY <1>1, <1>3, <1>4, <1>5, <1>8 DEF HandlerLaid
<1> QED
  BY <1>1, <1>9 DEF q

LEMMA DeleteHandler ==
  ASSUME NEW c, NEW r, r.op = "delete", NEW v
  PROVE  HandlerLaid(Handler(c, r, v), Effects(c, r, v), c, r, v)
<1> DEFINE q == Handler(c, r, v)
           d == r.doc
           t == Given[d].is
           e == IF Seen(v, Status(d)) = "HELD" THEN <<>>
                ELSE PostEffects(v, d, t, Seen(v, Allocated(d)), TRUE)
           f == <<Check(Deleted(d), {FALSE}), Check(<<"linked", d>>, {FALSE}),
                  Read(Status(d)), Read(Allocated(d)), Begin>>
           o == IF t.source = None THEN <<>> ELSE <<Put(Status(t.source), "ORDER_OPEN")>>
           g == <<Put(Deleted(d), TRUE), Commit>>
           p == (f \o e) \o o
<1>1. Effects(c, r, v) = e /\ TextOf(r) = t /\ Base(r) = 5
  BY Zenon DEF TextOf, Effects, Posts, DocOf, Undoes, Makers, Base, AmountOf
<1>2. q = p \o g
  BY Zenon DEF Handler, Delete
<1>3. /\ Len(f) = 5 /\ Len(g) = 2 /\ g[1] = Put(Deleted(d), TRUE) /\ g[2] = Commit
      /\ f[1] = Check(Deleted(d), {FALSE}) /\ f[2] = Check(<<"linked", d>>, {FALSE})
      /\ f[3] = Read(Status(d)) /\ f[4] = Read(Allocated(d)) /\ f[5] = Begin
      /\ t.source = None => Len(o) = 0
      /\ t.source # None => Len(o) = 1 /\ o[1] = Put(Status(t.source), "ORDER_OPEN")
  OBVIOUS
<1>4. IsSeq(f) /\ IsSeq(e) /\ IsSeq(o) /\ IsSeq(g)
  BY LiteralSeqs, EffectsPart
<1> HIDE DEF q, e, f, g, o
<1>5. /\ IsSeq(p) /\ Len(e) \in Nat /\ Len(o) \in Nat
      /\ Len(p) = Len(f) + Len(e) + Len(o)
      /\ \A k \in 1 .. Len(f) : p[k] = f[k]
      /\ \A k \in Len(f) + 1 .. Len(f) + Len(e) : p[k] = e[k - Len(f)]
      /\ \A k \in Len(f) + Len(e) + 1 .. Len(p) : p[k] = o[k - (Len(f) + Len(e))]
  BY <1>4, Framed
<1> HIDE DEF p
<1>6. /\ IsSeq(q) /\ Len(q) = Len(p) + Len(g)
      /\ \A k \in 1 .. Len(p) : q[k] = p[k]
      /\ \A k \in Len(p) + 1 .. Len(p) + Len(g) : q[k] = g[k - Len(p)]
  BY <1>2, <1>4, <1>5, Joined, Zenon
<1>7. /\ Len(q) = Len(e) + Len(o) + 7
      /\ q[1] = f[1] /\ q[2] = f[2] /\ q[3] = f[3] /\ q[4] = f[4] /\ q[5] = f[5]
      /\ q[Len(e) + Len(o) + 6] = g[1] /\ q[Len(e) + Len(o) + 7] = g[2]
  <2>1. Len(p) = Len(e) + Len(o) + 5 /\ Len(q) = Len(e) + Len(o) + 7
    BY <1>3, <1>5, <1>6
  <2>2. \A k \in 1 .. 5 : q[k] = f[k]
    BY <1>3, <1>5, <1>6, <2>1
  <2>3. q[Len(p) + 1] = g[1] /\ q[Len(p) + 2] = g[2]
    <3>1. (Len(p) + 1) - Len(p) = 1 /\ (Len(p) + 2) - Len(p) = 2
      BY <1>5, <2>1
    <3>2. \A k \in Len(p) + 1 .. Len(p) + 2 : q[k] = g[k - Len(p)]
      BY <1>3, <1>6
    <3>3. Len(p) \in Nat
      BY <1>5, <2>1
    <3>4. Len(p) + 1 \in Len(p) + 1 .. Len(p) + 2 /\ Len(p) + 2 \in Len(p) + 1 .. Len(p) + 2
      BY <3>3
    <3>5. q[Len(p) + 1] = g[(Len(p) + 1) - Len(p)] /\ q[Len(p) + 2] = g[(Len(p) + 2) - Len(p)]
      BY <3>2, <3>4
    <3> QED
      BY <3>1, <3>5
  <2> QED
    BY <2>1, <2>2, <2>3
<1>8. \A k \in 6 .. 5 + Len(e) : q[k] = e[k - 5]
  BY <1>3, <1>5, <1>6
<1>9. t.source # None => q[Len(e) + 6] = o[1]
  BY <1>3, <1>5, <1>6
<1>10. OpLaid(q, e, c, r, v)
  <2>0. Len(e) \in Nat /\ Len(o) \in Nat
    BY <1>5
  <2>1. t.source = None => /\ q[Len(e) + 6] = Put(Deleted(d), TRUE)
                           /\ q[Len(e) + 7] = Commit /\ Len(q) = Len(e) + 7
    <3> SUFFICES ASSUME t.source = None
                 PROVE  /\ q[Len(e) + 6] = Put(Deleted(d), TRUE)
                        /\ q[Len(e) + 7] = Commit /\ Len(q) = Len(e) + 7
      OBVIOUS
    <3>1. Len(o) = 0
      BY <1>3
    <3>2. Len(e) + Len(o) + 6 = Len(e) + 6 /\ Len(e) + Len(o) + 7 = Len(e) + 7
      BY <2>0, <3>1
    <3> QED
      BY <1>3, <1>7, <3>2
  <2>2. t.source # None => /\ q[Len(e) + 6] = Put(Status(t.source), "ORDER_OPEN")
                           /\ q[Len(e) + 7] = Put(Deleted(d), TRUE)
                           /\ q[Len(e) + 8] = Commit /\ Len(q) = Len(e) + 8
    <3> SUFFICES ASSUME t.source # None
                 PROVE  /\ q[Len(e) + 6] = Put(Status(t.source), "ORDER_OPEN")
                        /\ q[Len(e) + 7] = Put(Deleted(d), TRUE)
                        /\ q[Len(e) + 8] = Commit /\ Len(q) = Len(e) + 8
      OBVIOUS
    <3>1. Len(o) = 1
      BY <1>3
    <3>2. Len(e) + Len(o) + 6 = Len(e) + 7 /\ Len(e) + Len(o) + 7 = Len(e) + 8
      BY <2>0, <3>1
    <3> QED
      BY <1>3, <1>7, <1>9, <3>2
  <2> QED
    BY <1>1, <1>3, <1>7, <2>1, <2>2 DEF OpLaid
<1>11. HandlerLaid(q, e, c, r, v)
  BY <1>1, <1>4, <1>5, <1>6, <1>8, <1>10 DEF HandlerLaid
<1> QED
  BY <1>1, <1>11 DEF q

LEMMA ConvertHandler ==
  ASSUME NEW c, NEW r, r.op = "convert", NEW v
  PROVE  HandlerLaid(Handler(c, r, v), Effects(c, r, v), c, r, v)
<1> DEFINE q == Handler(c, r, v)
           d == r.doc
           t == Made(r)
           e == PostEffects(v, c, t, 0, FALSE)
           f == <<Check(Status(d), Open), Read(<<"received", d>>),
                  Claim(Status(d), Seen(v, Status(d)), StatusAfter(v, r))>>
<1>1. Effects(c, r, v) = e /\ TextOf(r) = t /\ Base(r) = 8
  BY DEF TextOf, Effects, Posts, DocOf, Undoes, Makers, Base, AmountOf
<1>2. q = f \o CreateTxn(v, c, t, 0)
  BY DEF Handler, Convert
<1>3. /\ Len(f) = 3 /\ f[1] = Check(Status(d), Open) /\ f[2] = Read(<<"received", d>>)
      /\ f[3] = Claim(Status(d), Seen(v, Status(d)), StatusAfter(v, r))
      /\ IsSeq(f)
  BY LiteralSeqs
<1> HIDE DEF q, e, f, t
<1>4. ThreeLaid(q, f, e, c, t, 0)
  BY <1>2, <1>3, AfterThree DEF e
<1>5. HandlerLaid(q, e, c, r, v)
  BY <1>1, <1>3, <1>4 DEF HandlerLaid, OpLaid, ThreeLaid, MadeLaid
<1> QED
  BY <1>1, <1>5 DEF q

LEMMA RefundHandler ==
  ASSUME NEW c, NEW r, r.op = "refund", NEW v
  PROVE  HandlerLaid(Handler(c, r, v), Effects(c, r, v), c, r, v)
<1> DEFINE q == Handler(c, r, v)
           d == r.doc
           t == Made(r)
           sold == Given[d].is.qty
           e == PostEffects(v, c, t, 0, FALSE)
           f == <<Check(Status(d), {"OPEN", "PARTIAL", "PAID", "REFUNDED"}),
                  Check(Deleted(d), {FALSE}), Check(<<"returned", d>>, 0 .. (sold - r.qty))>>
           p == f \o CreateTxn(v, c, t, 0)
           g == IF Marks(r, v) THEN <<Put(Status(d), "REFUNDED")>> ELSE <<>>
<1>1. Effects(c, r, v) = e /\ TextOf(r) = t /\ Base(r) = 8
  BY DEF TextOf, Effects, Posts, DocOf, Undoes, Makers, Base, AmountOf
<1>2. q = p \o g
  BY DEF Handler, Refund, Marks
<1>3. /\ Len(f) = 3 /\ IsSeq(f)
      /\ f[1] = Check(Status(d), {"OPEN", "PARTIAL", "PAID", "REFUNDED"})
      /\ f[2] = Check(Deleted(d), {FALSE})
      /\ f[3] = Check(<<"returned", d>>, 0 .. (sold - r.qty))
  BY LiteralSeqs
<1>4. /\ IsSeq(g)
      /\ Marks(r, v) => Len(g) = 1 /\ g[1] = Put(Status(d), "REFUNDED")
      /\ ~Marks(r, v) => Len(g) = 0
  BY LiteralSeqs
<1> HIDE DEF q, e, f, g, t
<1>5. ThreeLaid(p, f, e, c, t, 0)
  BY <1>3, AfterThree DEF e
<1> HIDE DEF p
<1>6. /\ IsSeq(q) /\ Len(q) = Len(p) + Len(g)
      /\ \A k \in 1 .. Len(p) : q[k] = p[k]
      /\ \A k \in Len(p) + 1 .. Len(p) + Len(g) : q[k] = g[k - Len(p)]
  <2>1. IsSeq(p) /\ IsSeq(g)
    BY <1>4, <1>5 DEF ThreeLaid
  <2> QED
    BY <1>2, <2>1, Joined
<1>7. /\ q[1] = p[1] /\ q[2] = p[2] /\ q[3] = p[3] /\ q[4] = p[4] /\ q[5] = p[5]
      /\ q[6] = p[6] /\ q[7] = p[7] /\ q[8] = p[8] /\ q[Len(e) + 9] = p[Len(e) + 9]
      /\ \A k \in 9 .. 8 + Len(e) : q[k] = p[k]
      /\ Len(g) > 0 => q[Len(e) + 10] = g[1]
  <2>1. Len(p) = Len(e) + 9 /\ Len(e) \in Nat
    BY <1>5 DEF ThreeLaid
  <2>2. \A k \in 1 .. Len(e) + 9 : q[k] = p[k]
    BY <1>6, <2>1
  <2>3. Len(g) > 0 => q[Len(e) + 10] = g[1]
    BY <1>4, <1>6, <2>1
  <2> QED
    BY <2>1, <2>2, <2>3
<1>8. MadeLaid(q, e, 8, c, t, 0)
  BY <1>5, <1>7 DEF ThreeLaid, MadeLaid
<1>9. OpLaid(q, e, c, r, v)
  BY <1>1, <1>3, <1>4, <1>5, <1>6, <1>7, <1>8 DEF ThreeLaid, OpLaid
<1>10. HandlerLaid(q, e, c, r, v)
  BY <1>1, <1>5, <1>6, <1>7, <1>9 DEF HandlerLaid, ThreeLaid
<1> QED
  BY <1>1, <1>10 DEF q

LEMMA PostingHandler ==
  ASSUME NEW c, NEW r, r.op \in PostingOps, NEW v
  PROVE  HandlerLaid(Handler(c, r, v), Effects(c, r, v), c, r, v)
BY CreateHandler, ResumeHandler, DeleteHandler, RestoreHandler, RefundHandler,
   ConvertHandler DEF PostingOps

(* Where the parts of the effects lie. *)
Units(r) == Signed(OnStock(TextOf(r)), Undoes(r))

Tests(r) == IF ~Undoes(r) /\ Units(r) < 0 THEN 1 ELSE 0

StockLen(r) == IF Units(r) = 0 THEN 0 ELSE Tests(r) + 3

PartyLen(r) == IF OnParty(TextOf(r)) = 0 THEN 0 ELSE 1

MoneyLen(r, v) ==
  IF TextOf(r).own = 0 THEN 0
  ELSE IF ~TextOf(r).cheque \/ ~Undoes(r) THEN 1
  ELSE IF Seen(v, Cheque(r.doc)) = "CLOSED" THEN 3 ELSE 2

AllotLen(r, v) == IF TextOf(r).pays = None \/ AmountOf(r, v) = 0 THEN 0 ELSE 3

MoneyFrom(r) == StockLen(r) + PartyLen(r)

AllotFrom(r, v) == MoneyFrom(r) + MoneyLen(r, v)

Cashed(r) == Add(Money(TextOf(r).shop), Signed(OnMoney(TextOf(r)), Undoes(r)))

PaidThen(r, v) == Seen(v, Paid(TextOf(r).pays)) + Signed(AmountOf(r, v), Undoes(r))

StockLaid(e, r, v) ==
  LET t == TextOf(r)
      s == Tests(r)
  IN  Units(r) # 0 =>
        /\ s = 1 => e[1] = Enough(Stock, Units(r))
        /\ e[s + 1] = Add(Stock, Units(r))
        /\ e[s + 2] = Read(Level(t.shop))
        /\ e[s + 3] = Put(Level(t.shop), Seen(v, Level(t.shop)) + Units(r))

MoneyLaid(e, c, r, v) ==
  LET t == TextOf(r)
      d == DocOf(c, r)
      m == MoneyFrom(r)
  IN  t.own # 0 =>
        /\ ~t.cheque => e[m + 1] = Cashed(r)
        /\ t.cheque /\ ~Undoes(r) => e[m + 1] = Put(Cheque(d), "OPEN")
        /\ t.cheque /\ Undoes(r) => e[m + 1] = Read(Cheque(d))
        /\ t.cheque /\ Undoes(r) /\ Seen(v, Cheque(d)) # "CLOSED" =>
             e[m + 2] = Put(Cheque(d), "NONE")
        /\ t.cheque /\ Undoes(r) /\ Seen(v, Cheque(d)) = "CLOSED" =>
             e[m + 2] = Cashed(r) /\ e[m + 3] = Put(Cheque(d), "NONE")

AllotLaid(e, r, v) ==
  LET t == TextOf(r)
      a == AllotFrom(r, v)
  IN  (t.pays # None /\ AmountOf(r, v) # 0) =>
        /\ e[a + 1] = Read(Paid(t.pays))
        /\ e[a + 2] = Put(Paid(t.pays), PaidThen(r, v))
        /\ e[a + 3] = Put(Status(t.pays), Settlement(Given[t.pays].is.total, PaidThen(r, v)))

EffectsLaid(e, c, r, v) ==
  /\ Len(e) = AllotFrom(r, v) + AllotLen(r, v)
  /\ StockLaid(e, r, v)
  /\ OnParty(TextOf(r)) # 0 =>
       e[StockLen(r) + 1] = Add(Party(TextOf(r).party), Signed(OnParty(TextOf(r)), Undoes(r)))
  /\ MoneyLaid(e, c, r, v)
  /\ AllotLaid(e, r, v)

LEMMA Lengths ==
  ASSUME NEW r, NEW v
  PROVE  /\ Tests(r) \in {0, 1} /\ StockLen(r) \in {0, 3, 4} /\ PartyLen(r) \in {0, 1}
         /\ MoneyLen(r, v) \in {0, 1, 2, 3} /\ AllotLen(r, v) \in {0, 3}
         /\ MoneyFrom(r) \in Nat /\ AllotFrom(r, v) \in Nat
BY DEF Tests, StockLen, PartyLen, MoneyLen, AllotLen, MoneyFrom, AllotFrom

LEMMA EffectsAre ==
  ASSUME NEW c, NEW r, NEW v, Posts(r, v)
  PROVE  EffectsLaid(Effects(c, r, v), c, r, v)
<1> DEFINE e == Effects(c, r, v)
           t == TextOf(r)
           d == DocOf(c, r)
           inv == Undoes(r)
           amount == AmountOf(r, v)
           s == ApplyStock(v, t, inv)
           p == ApplyPartyBalance(t, inv)
           m == ApplyPayments(v, d, t, inv)
           a == ApplyAllocations(v, t, amount, inv)
<1>1. inv \in BOOLEAN
  BY DEF Undoes
<1>2. e = PostEffects(v, d, t, amount, inv)
  BY DEF Effects
<1>3. /\ Len(s) \in Nat /\ Len(p) \in Nat /\ Len(m) \in Nat /\ Len(a) \in Nat
      /\ Len(e) = Len(s) + Len(p) + Len(m) + Len(a)
      /\ \A k \in 1 .. Len(s) : e[k] = s[k]
      /\ \A k \in Len(s) + 1 .. Len(s) + Len(p) : e[k] = p[k - Len(s)]
      /\ \A k \in Len(s) + Len(p) + 1 .. Len(s) + Len(p) + Len(m) :
           e[k] = m[k - (Len(s) + Len(p))]
      /\ \A k \in Len(s) + Len(p) + Len(m) + 1 .. Len(e) :
           e[k] = a[k - (Len(s) + Len(p) + Len(m))]
  BY <1>1, <1>2, EffectsPart
<1>4. /\ Len(s) = StockLen(r)
      /\ Units(r) # 0 => /\ Tests(r) = 1 => s[1] = Enough(Stock, Units(r))
                         /\ s[Tests(r) + 1] = Add(Stock, Units(r))
                         /\ s[Tests(r) + 2] = Read(Level(t.shop))
                         /\ s[Tests(r) + 3] = Put(Level(t.shop),
                                                  Seen(v, Level(t.shop)) + Units(r))
  BY <1>1, StockPart DEF StockLen, Units, Tests
<1>5. /\ Len(p) = PartyLen(r)
      /\ OnParty(t) # 0 => p[1] = Add(Party(t.party), Signed(OnParty(t), inv))
  BY <1>1, PartyPart DEF PartyLen
<1>6. inv => d = r.doc
  BY DEF Undoes, DocOf, Makers
<1>7. Len(m) = MoneyLen(r, v)
  BY <1>1, <1>6, MoneyPart DEF MoneyLen
<1>8. Len(a) = AllotLen(r, v)
  BY <1>1, AllocationPart DEF AllotLen
<1>9. StockLaid(e, r, v)
  <2> SUFFICES ASSUME Units(r) # 0
               PROVE  /\ Tests(r) = 1 => e[1] = s[1]
                      /\ e[Tests(r) + 1] = s[Tests(r) + 1]
                      /\ e[Tests(r) + 2] = s[Tests(r) + 2]
                      /\ e[Tests(r) + 3] = s[Tests(r) + 3]
    BY <1>4 DEF StockLaid
  <2>1. Len(s) = Tests(r) + 3
    BY <1>4 DEF StockLen
  <2>2. Tests(r) \in {0, 1}
    BY Lengths
  <2> HIDE DEF e, s
  <2>3. /\ Tests(r) = 1 => 1 \in 1 .. Len(s)
        /\ Tests(r) + 1 \in 1 .. Len(s) /\ Tests(r) + 2 \in 1 .. Len(s)
        /\ Tests(r) + 3 \in 1 .. Len(s)
    BY <2>1, <2>2
  <2> QED
    BY <1>3, <2>3
<1>10. OnParty(t) # 0 => e[StockLen(r) + 1] = p[1]
  <2> SUFFICES ASSUME OnParty(t) # 0
               PROVE  e[StockLen(r) + 1] = p[1]
    OBVIOUS
  <2>1. Len(p) = 1
    BY <1>5 DEF PartyLen
  <2> HIDE DEF e, s, p, m, a, t
  <2>2. /\ StockLen(r) + 1 \in Len(s) + 1 .. Len(s) + Len(p)
        /\ (StockLen(r) + 1) - Len(s) = 1
    BY <1>3, <1>4, <2>1
  <2> QED
    BY <1>3, <2>2
<1>11. \A k \in 1 .. Len(m) : e[MoneyFrom(r) + k] = m[k]
  <2> TAKE k \in 1 .. Len(m)
  <2> HIDE DEF e, s, p, m, a
  <2>1. MoneyFrom(r) = Len(s) + Len(p)
    BY <1>4, <1>5 DEF MoneyFrom
  <2>2. /\ MoneyFrom(r) + k \in Len(s) + Len(p) + 1 .. Len(s) + Len(p) + Len(m)
        /\ (MoneyFrom(r) + k) - (Len(s) + Len(p)) = k
    BY <1>3, <2>1
  <2> QED
    BY <1>3, <2>2
<1>12. \A k \in 1 .. Len(a) : e[AllotFrom(r, v) + k] = a[k]
  <2> TAKE k \in 1 .. Len(a)
  <2> HIDE DEF e, s, p, m, a
  <2>1. AllotFrom(r, v) = Len(s) + Len(p) + Len(m)
    BY <1>4, <1>5, <1>7 DEF MoneyFrom, AllotFrom
  <2>2. /\ AllotFrom(r, v) + k \in Len(s) + Len(p) + Len(m) + 1 .. Len(e)
        /\ (AllotFrom(r, v) + k) - (Len(s) + Len(p) + Len(m)) = k
    BY <1>3, <2>1
  <2> QED
    BY <1>3, <2>2
<1>13. MoneyLaid(e, c, r, v)
  <2> SUFFICES ASSUME t.own # 0
               PROVE  /\ ~t.cheque => e[MoneyFrom(r) + 1] = m[1]
                      /\ t.cheque /\ ~inv => e[MoneyFrom(r) + 1] = m[1]
                      /\ t.cheque /\ inv => e[MoneyFrom(r) + 1] = m[1]
                      /\ t.cheque /\ inv /\ Seen(v, Cheque(d)) # "CLOSED" =>
                           e[MoneyFrom(r) + 2] = m[2]
                      /\ t.cheque /\ inv /\ Seen(v, Cheque(d)) = "CLOSED" =>
                           e[MoneyFrom(r) + 2] = m[2] /\ e[MoneyFrom(r) + 3] = m[3]
    BY <1>1, MoneyPart DEF MoneyLaid, Cashed
  <2>1. MoneyLen(r, v) >= 1
    BY DEF MoneyLen
  <2>2. t.cheque /\ inv => MoneyLen(r, v) >= 2
    BY DEF MoneyLen
  <2>3. t.cheque /\ inv /\ Seen(v, Cheque(d)) = "CLOSED" => MoneyLen(r, v) = 3
    BY <1>6 DEF MoneyLen
  <2> HIDE DEF e, m, t, d, inv
  <2> QED
    BY <1>3, <1>7, <1>11, <2>1, <2>2, <2>3
<1>14. AllotLaid(e, r, v)
  <2> SUFFICES ASSUME t.pays # None, amount # 0
               PROVE  /\ e[AllotFrom(r, v) + 1] = a[1] /\ e[AllotFrom(r, v) + 2] = a[2]
                      /\ e[AllotFrom(r, v) + 3] = a[3]
    BY <1>1, AllocationPart DEF AllotLaid, PaidThen
  <2>1. Len(a) = 3
    BY <1>8 DEF AllotLen
  <2> HIDE DEF e, a
  <2> QED
    BY <1>12, <2>1
<1>15. Len(e) = AllotFrom(r, v) + AllotLen(r, v)
  <2> HIDE DEF e, s, p, m, a
  <2> QED
    BY <1>3, <1>4, <1>5, <1>7, <1>8 DEF AllotFrom, MoneyFrom
<1> HIDE DEF e
<1>16. EffectsLaid(e, c, r, v)
  BY <1>5, <1>9, <1>10, <1>13, <1>14, <1>15 DEF EffectsLaid
<1> QED
  BY <1>16 DEF e

(* What the statements of the effects are. *)
IsEffect(s, c, r, v) ==
  LET t == TextOf(r)
      d == DocOf(c, r)
      n == Units(r)
  IN  \/ n # 0 /\ \/ ~Undoes(r) /\ n < 0 /\ s = Enough(Stock, n)
                  \/ s = Add(Stock, n)
                  \/ s = Read(Level(t.shop))
                  \/ s = Put(Level(t.shop), Seen(v, Level(t.shop)) + n)
      \/ OnParty(t) # 0 /\ s = Add(Party(t.party), Signed(OnParty(t), Undoes(r)))
      \/ t.own # 0 /\ \/ s = Cashed(r)
                      \/ t.cheque /\ s = Read(Cheque(d))
                      \/ t.cheque /\ \E x \in {"OPEN", "NONE"} : s = Put(Cheque(d), x)
      \/ t.pays # None /\ \/ s = Read(Paid(t.pays))
                          \/ s = Put(Paid(t.pays), PaidThen(r, v))
                          \/ s = Put(Status(t.pays),
                                     Settlement(Given[t.pays].is.total, PaidThen(r, v)))

(* Which statement of the effects stands where. *)
EffectPlace(k, r, v) ==
  LET t == TextOf(r)
      s == Tests(r)
      m == MoneyFrom(r)
      a == AllotFrom(r, v)
  IN  \/ Units(r) # 0 /\ \/ s = 1 /\ ~Undoes(r) /\ Units(r) < 0 /\ k = 1
                         \/ k = s + 1 \/ k = s + 2 \/ k = s + 3
      \/ OnParty(t) # 0 /\ k = StockLen(r) + 1
      \/ t.own # 0 /\ ~(t.cheque /\ Undoes(r)) /\ k = m + 1
      \/ /\ t.own # 0 /\ t.cheque /\ Undoes(r)
         /\ k = m + 1 \/ k = m + 2 \/ (k = m + 3 /\ Seen(v, Cheque(r.doc)) = "CLOSED")
      \/ /\ t.pays # None /\ AmountOf(r, v) # 0
         /\ k = a + 1 \/ k = a + 2 \/ k = a + 3

LEMMA EffectPlaces ==
  ASSUME NEW r, NEW v, NEW k \in 1 .. AllotFrom(r, v) + AllotLen(r, v)
  PROVE  EffectPlace(k, r, v)
<1>1. CASE k <= StockLen(r)
  <2>1. /\ StockLen(r) = Tests(r) + 3 /\ Units(r) # 0
        /\ Tests(r) = 1 => ~Undoes(r) /\ Units(r) < 0
    BY <1>1 DEF StockLen, Tests
  <2>2. Tests(r) \in {0, 1}
    BY Lengths
  <2>3. (k = 1 /\ Tests(r) = 1) \/ k = Tests(r) + 1 \/ k = Tests(r) + 2 \/ k = Tests(r) + 3
    BY <1>1, <2>1, <2>2
  <2> QED
    BY <2>1, <2>3 DEF EffectPlace
<1>2. CASE k > StockLen(r) /\ k <= MoneyFrom(r)
  <2>1. OnParty(TextOf(r)) # 0 /\ k = StockLen(r) + 1
    BY <1>2, Lengths DEF MoneyFrom, PartyLen
  <2> QED
    BY <2>1 DEF EffectPlace
<1>3. CASE k > MoneyFrom(r) /\ k <= AllotFrom(r, v)
  <2>1. k - MoneyFrom(r) \in 1 .. MoneyLen(r, v)
    BY <1>3, Lengths DEF AllotFrom
  <2>2. TextOf(r).own # 0
    BY <2>1 DEF MoneyLen
  <2>3. /\ ~(TextOf(r).cheque /\ Undoes(r)) => MoneyLen(r, v) = 1
        /\ TextOf(r).cheque /\ Undoes(r) /\ Seen(v, Cheque(r.doc)) = "CLOSED" =>
             MoneyLen(r, v) = 3
        /\ TextOf(r).cheque /\ Undoes(r) /\ Seen(v, Cheque(r.doc)) # "CLOSED" =>
             MoneyLen(r, v) = 2
    BY <2>2 DEF MoneyLen
  <2>4. MoneyFrom(r) \in Nat
    BY Lengths
  <2>5. /\ MoneyLen(r, v) = 1 => k = MoneyFrom(r) + 1
        /\ MoneyLen(r, v) = 2 => k = MoneyFrom(r) + 1 \/ k = MoneyFrom(r) + 2
        /\ MoneyLen(r, v) = 3 => \/ k = MoneyFrom(r) + 1 \/ k = MoneyFrom(r) + 2
                                 \/ k = MoneyFrom(r) + 3
    BY <2>1, <2>4
  <2> QED
    BY <2>2, <2>3, <2>5 DEF EffectPlace
<1>4. CASE k > AllotFrom(r, v)
  <2>1. k - AllotFrom(r, v) \in 1 .. AllotLen(r, v)
    BY <1>4, Lengths
  <2>2. TextOf(r).pays # None /\ AmountOf(r, v) # 0 /\ AllotLen(r, v) = 3
    BY <2>1 DEF AllotLen
  <2>3. k = AllotFrom(r, v) + 1 \/ k = AllotFrom(r, v) + 2 \/ k = AllotFrom(r, v) + 3
    BY <2>1, <2>2, Lengths
  <2> QED
    BY <2>2, <2>3 DEF EffectPlace
<1>5. StockLen(r) \in Nat /\ MoneyFrom(r) \in Nat /\ AllotFrom(r, v) \in Nat
  BY Lengths
<1> QED
  BY <1>1, <1>2, <1>3, <1>4, <1>5

LEMMA EffectStatements ==
  ASSUME NEW c, NEW r, NEW v, Posts(r, v), NEW k \in 1 .. Len(Effects(c, r, v))
  PROVE  IsEffect(Effects(c, r, v)[k], c, r, v)
<1> DEFINE e == Effects(c, r, v)
<1>1. EffectsLaid(e, c, r, v)
  BY EffectsAre
<1> HIDE DEF e
<1>2. EffectPlace(k, r, v)
  BY <1>1, EffectPlaces DEF EffectsLaid, e
<1>3. Undoes(r) => DocOf(c, r) = r.doc
  BY DEF Undoes, DocOf, Makers
<1>4. IsEffect(e[k], c, r, v)
  BY <1>1, <1>2, <1>3
     DEF EffectsLaid, StockLaid, MoneyLaid, AllotLaid, IsEffect, EffectPlace
<1> QED
  BY <1>4 DEF e

(* What documents say. *)
LEMMA GivenSound ==
  ASSUME NEW d \in GivenDocs
  PROVE  AtRest(d) /\ Sound(Given[d].is)
BY GivenAssumption DEF AtRest

LEMMA TextSound ==
  ASSUME NEW r, Legal(r), r.op \in PostingOps
  PROVE  /\ Sound(TextOf(r))
         /\ r.op # "create" => r.doc \in GivenDocs
         /\ r.op \in {"refund", "convert"} => TextOf(r).pays = None
<1>1. CASE r.op = "create"
  BY <1>1 DEF Legal, TextOf, Makers, Made
<1>2. CASE r.op \in {"resume", "delete", "restore"}
  BY <1>2, GivenSound DEF Legal, TextOf, Makers
<1>3. CASE r.op = "refund"
  <2> DEFINE g == Given[r.doc].is
  <2>1. r.doc \in GivenDocs /\ g.type = "SALE_INVOICE" /\ r.qty \in Nat
    BY <1>3 DEF Legal
  <2>2. Sound(g)
    BY <2>1, GivenSound
  <2>3. g.pays = None
    BY <2>1, <2>2 DEF Sound, PaymentTypes
  <2>4. TextOf(r) = [g EXCEPT !.type = "CREDIT_NOTE", !.qty = r.qty, !.total = r.qty,
                              !.own = r.qty, !.cheque = FALSE, !.source = None,
                              !.against = r.doc]
    BY <1>3, <2>1, <2>2 DEF TextOf, Makers, Made, Sound, Content
  <2> QED
    BY <1>3, <2>1, <2>2, <2>3, <2>4 DEF Sound, Content, TxnTypes, LineTypes
<1>4. CASE r.op = "convert"
  <2> DEFINE g == Given[r.doc].is
  <2>1. r.doc \in GivenDocs /\ g.type \in OrderTypes /\ r.qty \in Nat
    BY <1>4 DEF Legal
  <2>2. Sound(g)
    BY <2>1, GivenSound
  <2>3. g.pays = None
    BY <2>1, <2>2 DEF Sound, PaymentTypes, OrderTypes
  <2>4. TextOf(r) = [g EXCEPT !.type = IF g.type = "PURCHASE_ORDER" THEN "PURCHASE_BILL"
                                       ELSE "SALE_INVOICE",
                              !.qty = r.qty, !.total = r.qty, !.own = 0, !.cheque = FALSE,
                              !.source = r.doc, !.against = None]
    BY <1>4, <2>1, <2>2 DEF TextOf, Makers, Made, Sound, Content
  <2> DEFINE type == IF g.type = "PURCHASE_ORDER" THEN "PURCHASE_BILL" ELSE "SALE_INVOICE"
  <2>5. type \in {"SALE_INVOICE", "PURCHASE_BILL"} /\ type \in TxnTypes
    BY DEF TxnTypes, LineTypes
  <2> HIDE DEF type
  <2>6. TextOf(r) = [g EXCEPT !.type = type, !.qty = r.qty, !.total = r.qty, !.own = 0,
                              !.cheque = FALSE, !.source = r.doc, !.against = None]
    BY <2>4 DEF type
  <2>7. /\ TextOf(r) \in Content
        /\ TextOf(r).item = g.item /\ TextOf(r).shop = g.shop /\ TextOf(r).pays = g.pays
        /\ TextOf(r).source = r.doc /\ TextOf(r).type = type
    <3>1. g \in Content /\ r.doc \in GivenDocs \cup {None} /\ type \in TxnTypes /\ r.qty \in Nat
      BY <2>1, <2>2, <2>5 DEF Sound
    <3> HIDE DEF g
    <3>2. [g EXCEPT !.type = type, !.qty = r.qty, !.total = r.qty, !.own = 0, !.cheque = FALSE,
                    !.source = r.doc, !.against = None] \in Content
      BY <3>1 DEF Content
    <3>3. /\ TextOf(r).item = g.item /\ TextOf(r).shop = g.shop /\ TextOf(r).pays = g.pays
          /\ TextOf(r).source = r.doc
      BY <2>6, <3>1 DEF Content
    <3>4. TextOf(r).type = type
      BY <2>6, <3>1 DEF Content
    <3> QED
      BY <2>6, <3>2, <3>3, <3>4
  <2> QED
    BY <1>4, <2>1, <2>2, <2>3, <2>5, <2>7 DEF Sound
<1> QED
  BY <1>1, <1>2, <1>3, <1>4 DEF PostingOps

(* Where a transaction begins and commits; inventory's count has none. *)
BeginAt(r) ==
  CASE r.op \in Makers -> Base(r) - 4
    [] r.op = "resume" -> 3
    [] r.op = "delete" -> 5
    [] r.op \in {"restore", "move"} -> 4
    [] r.op \in {"deposit", "reopen"} -> 2
    [] r.op \in {"adjust", "transfer"} \cup LoanOps -> 1
    [] r.op = "count" -> 0

CommitAt(c, r, v) ==
  CASE r.op = "refund" -> Len(Effects(c, r, v)) + 9
    [] r.op = "count" -> 0
    [] r.op \notin {"refund", "count"} -> Len(Handler(c, r, v))

Reads == {"read", "check", "enough"}

(* One statement of a handler in its place, k. *)
Placed(s, k, c, r, v) ==
  /\ s.op \in {"begin", "commit"} \cup Reads \cup Writes
  /\ s.op = "begin" <=> k = BeginAt(r)
  /\ s.op = "commit" <=> k = CommitAt(c, r, v)
  /\ s.op \in Writes => s.row \in Rows
  /\ s.op \in Reads => k < CommitAt(c, r, v)
  /\ s.op \in Writes /\ k < BeginAt(r) => r.op = "convert" /\ k = 3
  /\ s.op \in Writes /\ k > CommitAt(c, r, v) =>
       \/ r.op = "count"
       \/ r.op = "refund" /\ k = CommitAt(c, r, v) + 1 /\ k = Len(Handler(c, r, v))

WellPlaced(q, c, r, v) ==
  /\ Len(q) \in Nat \ {0} /\ BeginAt(r) \in Nat /\ CommitAt(c, r, v) \in Nat
  /\ CommitAt(c, r, v) <= Len(q)
  /\ r.op # "count" => 0 < BeginAt(r) /\ BeginAt(r) < CommitAt(c, r, v)
  /\ r.op = "count" => BeginAt(r) = 0 /\ CommitAt(c, r, v) = 0
  /\ \A k \in 1 .. Len(q) : Placed(q[k], k, c, r, v)

LEMMA RowsAre ==
  /\ Stock \in Rows
  /\ \A s \in Shops : Level(s) \in Rows /\ Money(s) \in Rows
  /\ \A s \in Shops, t \in Numbered : Seq_(s, t) \in Rows
  /\ \A p \in Parties : Party(p) \in Rows
  /\ \A l \in Clients \cup {None} : Loan(l) \in Rows
  /\ \A d \in DocIds : /\ Status(d) \in Rows /\ Deleted(d) \in Rows /\ Paid(d) \in Rows
                       /\ Allocated(d) \in Rows /\ Cheque(d) \in Rows
BY DEF Rows

LEMMA EffectRows ==
  ASSUME NEW c \in Clients, NEW r, Legal(r), r.op \in PostingOps, NEW v, NEW s,
         IsEffect(s, c, r, v)
  PROVE  /\ s.op \in Reads \cup {"add", "put"}
         /\ s.op \in {"add", "put"} => s.row \in Rows
<1> DEFINE t == TextOf(r)
<1>1. Sound(t) /\ t.shop \in Shops /\ t.party \in Parties \cup {None} /\ DocOf(c, r) \in DocIds
  BY TextSound DEF Sound, Content, DocOf, DocIds, Makers, PostingOps
<1>2. t.pays # None => t.pays \in GivenDocs /\ t.pays \in DocIds
  BY <1>1 DEF Sound, Content, DocIds
<1>3. OnParty(t) # 0 => t.party \in Parties
  BY <1>1 DEF OnParty
<1> HIDE DEF t
<1> QED
  BY <1>1, <1>2, <1>3, RowsAre
     DEF IsEffect, Reads, Enough, Add, Read, Put, Cashed, t

LEMMA PostingPlaced ==
  ASSUME NEW c \in Clients, NEW r, Legal(r), r.op \in PostingOps, NEW v,
         r.op = "create" => r \in Requests
  PROVE  WellPlaced(Handler(c, r, v), c, r, v)
<1> DEFINE q == Handler(c, r, v)
           e == Effects(c, r, v)
           t == TextOf(r)
           d == r.doc
           n == Len(e)
           z == CommitAt(c, r, v)
<1>1. HandlerLaid(q, e, c, r, v)
  BY PostingHandler
<1>2. \A k \in 1 .. n : /\ e[k].op \in Reads \cup {"add", "put"}
                        /\ e[k].op \in {"add", "put"} => e[k].row \in Rows
  <2> TAKE k \in 1 .. n
  <2>1. CASE Posts(r, v)
    BY <2>1, EffectStatements, EffectRows
  <2>2. CASE ~Posts(r, v)
    BY <2>2 DEF Effects
  <2> QED
    BY <2>1, <2>2
<1>3. /\ Sound(t) /\ t.shop \in Shops /\ c \in DocIds
      /\ r.op # "create" => d \in DocIds /\ d \in GivenDocs
      /\ t.pays # None => t.pays \in DocIds
      /\ t.source # None => t.source \in DocIds
  BY TextSound DEF Sound, Content, DocIds
<1>4. r.op \in Makers => t.type \in Numbered
  BY DEF TextOf, Makers, Made, Numbered
<1>5. z = IF r.op = "refund" THEN n + 9 ELSE Len(q)
  BY DEF CommitAt, PostingOps
<1>6. IsSeq(q) /\ n \in Nat /\ Len(q) \in Nat /\ z \in Nat
  <2>1. IsSeq(q) /\ n \in Nat
    BY <1>1 DEF HandlerLaid
  <2>2. Len(q) \in Nat
    BY <2>1, Joined, LiteralSeqs
  <2> HIDE DEF q, e, z
  <2> QED
    BY <2>1, <2>2, <1>5
<1>7. \A k \in Base(r) + 1 .. Base(r) + n : q[k] = e[k - Base(r)]
  BY <1>1 DEF HandlerLaid
<1> DEFINE Inside(k) == k \in Base(r) + 1 .. Base(r) + n
           Good(k) == Placed(q[k], k, c, r, v)
<1>8. Base(r) \in 4 .. 8 /\ BeginAt(r) \in Nat /\ 0 < BeginAt(r) /\ BeginAt(r) <= Base(r)
  BY DEF Base, BeginAt, Makers, LoanOps, PostingOps
<1>9. \A k : Inside(k) /\ z > Base(r) + n => Good(k)
  <2> SUFFICES ASSUME NEW k, Inside(k), z > Base(r) + n
               PROVE  Good(k)
    OBVIOUS
  <2>1. q[k] = e[k - Base(r)] /\ k - Base(r) \in 1 .. n
    BY <1>6, <1>7, <1>8
  <2>2. /\ q[k].op \in Reads \cup {"add", "put"}
        /\ q[k].op \in {"add", "put"} => q[k].row \in Rows
    BY <1>2, <2>1
  <2>3. k # BeginAt(r) /\ k < z /\ ~(k < BeginAt(r)) /\ ~(k > z)
    BY <1>6, <1>8
  <2> QED
    BY <2>2, <2>3 DEF Placed, Reads, Writes, z
<1> HIDE DEF q, e, z, t
<1> USE DEF Begin, Commit, Read, Check, Enough, Add, Put, Claim, Reads, Writes
<1>10. CASE r.op = "create"
  <2>1. MadeLaid(q, e, Base(r), c, t, AmountOf(r, v)) /\ Len(q) = Base(r) + n + 1
        /\ (t.pays # None => /\ q[1] = Check(Status(t.pays), {"OPEN", "PARTIAL"})
                             /\ q[2] = Check(Deleted(t.pays), {FALSE})
                             /\ q[3] = Read(<<"owed", t.pays>>))
    BY <1>1, <1>10 DEF HandlerLaid, OpLaid, t
  <2>2. BeginAt(r) = Base(r) - 4 /\ z = Base(r) + n + 1 /\ z = Len(q)
        /\ Base(r) = (IF t.pays = None THEN 5 ELSE 8)
    BY <1>5, <1>10, <2>1 DEF BeginAt, Makers, LoanOps, Base, TextOf, Made, t
  <2>3. \A k \in 1 .. Len(q) : Inside(k) => Good(k)
    BY <1>6, <1>8, <1>9, <2>2
  <2>4. Good(Base(r) - 4) /\ Good(Base(r) - 3) /\ Good(Base(r) - 2) /\ Good(Base(r) - 1)
        /\ Good(Base(r)) /\ Good(Base(r) + n + 1)
    BY <1>3, <1>4, <1>6, <1>8, <1>10, <2>1, <2>2, RowsAre DEF MadeLaid, Placed, Makers, z
  <2>5. Base(r) = 8 => Good(1) /\ Good(2) /\ Good(3)
    BY <1>6, <2>1, <2>2 DEF Placed, z
  <2> QED
    BY <1>6, <1>8, <1>10, <2>2, <2>3, <2>4, <2>5 DEF WellPlaced, q, z
<1>11. CASE r.op = "resume"
  <2>1. /\ q[1] = Check(Deleted(d), {FALSE}) /\ q[2] = Check(Status(d), {"HELD"})
        /\ q[3] = Begin /\ q[4] = Claim(Status(d), "HELD", "OPEN")
        /\ q[5] = Put(Status(d), FirstStatus(t)) /\ q[6] = Put(Paid(d), t.own)
        /\ q[n + 7] = Commit /\ Len(q) = n + 7
    BY <1>1, <1>11 DEF HandlerLaid, OpLaid, t
  <2>2. BeginAt(r) = 3 /\ z = n + 7 /\ Base(r) = 6
    BY <1>5, <1>11, <2>1 DEF BeginAt, Makers, LoanOps, Base
  <2>3. \A k \in 1 .. Len(q) : Inside(k) => Good(k)
    BY <1>6, <1>8, <1>9, <2>2
  <2>4. Good(1) /\ Good(2) /\ Good(3) /\ Good(4) /\ Good(5) /\ Good(6) /\ Good(n + 7)
    BY <1>3, <1>6, <1>11, <2>1, <2>2, RowsAre DEF Placed, z
  <2> QED
    BY <1>6, <1>11, <2>1, <2>2, <2>3, <2>4 DEF WellPlaced, q, z
<1>12. CASE r.op = "restore"
  <2>1. /\ q[1] = Check(Deleted(d), {TRUE})
        /\ q[2] = Read(Status(d)) /\ q[3] = Read(Allocated(d)) /\ q[4] = Begin
        /\ q[n + 5] = Put(Deleted(d), FALSE) /\ q[n + 6] = Commit /\ Len(q) = n + 6
    BY <1>1, <1>12 DEF HandlerLaid, OpLaid, t
  <2>2. BeginAt(r) = 4 /\ z = n + 6 /\ Base(r) = 4
    BY <1>5, <1>12, <2>1 DEF BeginAt, Makers, LoanOps, Base
  <2>3. \A k \in 1 .. Len(q) : Inside(k) => Good(k)
    BY <1>6, <1>8, <1>9, <2>2
  <2>4. Good(1) /\ Good(2) /\ Good(3) /\ Good(4) /\ Good(n + 5) /\ Good(n + 6)
    BY <1>3, <1>6, <1>12, <2>1, <2>2, RowsAre DEF Placed, z
  <2> QED
    BY <1>6, <1>12, <2>1, <2>2, <2>3, <2>4 DEF WellPlaced, q, z
<1>13. CASE r.op = "delete"
  <2>1. /\ q[1] = Check(Deleted(d), {FALSE}) /\ q[2] = Check(<<"linked", d>>, {FALSE})
        /\ q[3] = Read(Status(d)) /\ q[4] = Read(Allocated(d)) /\ q[5] = Begin
        /\ t.source = None =>
             q[n + 6] = Put(Deleted(d), TRUE) /\ q[n + 7] = Commit /\ Len(q) = n + 7
        /\ t.source # None =>
             /\ q[n + 6] = Put(Status(t.source), "ORDER_OPEN")
             /\ q[n + 7] = Put(Deleted(d), TRUE) /\ q[n + 8] = Commit /\ Len(q) = n + 8
    BY <1>1, <1>13 DEF HandlerLaid, OpLaid, t
  <2>2. BeginAt(r) = 5 /\ z = Len(q) /\ Base(r) = 5
    BY <1>5, <1>13 DEF BeginAt, Makers, LoanOps, Base
  <2>7. z = IF t.source = None THEN n + 7 ELSE n + 8
    BY <2>1, <2>2
  <2>3. \A k \in 1 .. Len(q) : Inside(k) => Good(k)
    <3>1. z > Base(r) + n
      BY <1>6, <2>2, <2>7
    <3> QED
      BY <1>9, <3>1
  <2>4. Good(1) /\ Good(2) /\ Good(3) /\ Good(4) /\ Good(5)
    <3>1. z \in Nat /\ z > 5
      BY <1>6, <2>7
    <3>2. /\ q[1] = Check(Deleted(d), {FALSE}) /\ q[2] = Check(<<"linked", d>>, {FALSE})
          /\ q[3] = Read(Status(d)) /\ q[4] = Read(Allocated(d)) /\ q[5] = Begin
      BY <2>1
    <3>3. BeginAt(r) = 5
      BY <2>2
    <3>4. Good(1) /\ Good(2) /\ Good(3)
      BY <1>13, <3>1, <3>2, <3>3 DEF Placed, z
    <3>5. Good(4) /\ Good(5)
      BY <1>13, <3>1, <3>2, <3>3 DEF Placed, z
    <3> QED
      BY <3>4, <3>5
  <2>5. Good(n + 6) /\ Good(n + 7)
    BY <1>3, <1>6, <1>13, <2>1, <2>2, <2>7, RowsAre DEF Placed, z
  <2>6. t.source # None => Good(n + 8)
    BY <1>3, <1>6, <1>13, <2>1, <2>2, <2>7, RowsAre DEF Placed, z
  <2>8. \A k \in 1 .. Len(q) : Good(k)
    <3> TAKE k \in 1 .. Len(q)
    <3>1. \/ k \in 1 .. 5 \/ Inside(k) \/ k = n + 6 \/ k = n + 7 \/ (t.source # None /\ k = n + 8)
      BY <1>6, <2>2, <2>7
    <3>2. CASE k \in 1 .. 5
      <4>1. k = 1 \/ k = 2 \/ k = 3 \/ k = 4 \/ k = 5
        BY <3>2
      <4> QED
        BY <2>4, <4>1
    <3> QED
      BY <2>3, <2>5, <2>6, <3>1, <3>2
  <2>9. z > 5 /\ Len(q) \in Nat \ {0}
    BY <1>6, <2>2, <2>7
  <2> QED
    BY <1>6, <1>13, <2>2, <2>8, <2>9 DEF WellPlaced, q, z
<1>14. CASE r.op = "refund"
  <2>1. /\ MadeLaid(q, e, 8, c, t, 0)
        /\ q[1] = Check(Status(d), {"OPEN", "PARTIAL", "PAID", "REFUNDED"})
        /\ q[2] = Check(Deleted(d), {FALSE})
        /\ q[3] = Check(<<"returned", d>>, 0 .. (Given[d].is.qty - r.qty))
        /\ Marks(r, v) => Len(q) = n + 10 /\ q[n + 10] = Put(Status(d), "REFUNDED")
        /\ ~Marks(r, v) => Len(q) = n + 9
    BY <1>1, <1>14 DEF HandlerLaid, OpLaid, t
  <2>2. BeginAt(r) = 4 /\ z = n + 9 /\ Base(r) = 8
    BY <1>5, <1>14 DEF BeginAt, Makers, LoanOps, Base
  <2>3. \A k \in 1 .. Len(q) : Inside(k) => Good(k)
    BY <1>6, <1>8, <1>9, <2>1, <2>2
  <2>4. Good(1) /\ Good(2) /\ Good(3)
    BY <1>3, <1>6, <1>14, <2>1, <2>2 DEF Placed, z
  <2>5. /\ q[4] = Begin /\ q[5] = Add(Seq_(t.shop, t.type), 1)
        /\ q[6] = Put(Status(c), FirstStatus(t)) /\ q[7] = Put(Paid(c), t.own)
        /\ q[8] = Put(Allocated(c), 0) /\ q[n + 9] = Commit
    BY <1>6, <2>1 DEF MadeLaid
  <2>6. Good(4) /\ Good(5) /\ Good(6) /\ Good(7) /\ Good(8) /\ Good(n + 9)
    BY <1>3, <1>4, <1>6, <1>14, <2>2, <2>5, RowsAre DEF Placed, Makers, z
  <2>7. Marks(r, v) => Good(n + 10)
    BY <1>3, <1>6, <1>14, <2>1, <2>2, RowsAre DEF Placed, q, z
  <2>8. \A k \in 1 .. Len(q) : Good(k)
    <3> TAKE k \in 1 .. Len(q)
    <3>1. \/ k \in 1 .. 8 \/ Inside(k) \/ k = n + 9 \/ (Marks(r, v) /\ k = n + 10)
      BY <1>6, <2>1, <2>2
    <3>2. CASE k \in 1 .. 8
      <4>1. k = 1 \/ k = 2 \/ k = 3 \/ k = 4 \/ k = 5 \/ k = 6 \/ k = 7 \/ k = 8
        BY <3>2
      <4> QED
        BY <2>4, <2>6, <4>1
    <3> QED
      BY <2>3, <2>6, <2>7, <3>1, <3>2
  <2>9. z <= Len(q) /\ z > 4 /\ Len(q) \in Nat \ {0}
    BY <1>6, <2>1, <2>2
  <2> QED
    BY <1>6, <1>14, <2>2, <2>8, <2>9 DEF WellPlaced, q, z
<1>15. CASE r.op = "convert"
  <2>1. /\ MadeLaid(q, e, 8, c, t, 0) /\ Len(q) = n + 9
        /\ q[1] = Check(Status(d), Open) /\ q[2] = Read(<<"received", d>>)
        /\ q[3] = Claim(Status(d), Seen(v, Status(d)), StatusAfter(v, r))
    BY <1>1, <1>15 DEF HandlerLaid, OpLaid, t
  <2>2. BeginAt(r) = 4 /\ z = n + 9 /\ Base(r) = 8
    BY <1>5, <1>15, <2>1 DEF BeginAt, Makers, LoanOps, Base
  <2>3. \A k \in 1 .. Len(q) : Inside(k) => Good(k)
    BY <1>6, <1>8, <1>9, <2>1, <2>2
  <2>4. Good(1) /\ Good(2) /\ Good(3)
    BY <1>3, <1>6, <1>15, <2>1, <2>2, RowsAre DEF Placed, z
  <2>5. /\ q[4] = Begin /\ q[5] = Add(Seq_(t.shop, t.type), 1)
        /\ q[6] = Put(Status(c), FirstStatus(t)) /\ q[7] = Put(Paid(c), t.own)
        /\ q[8] = Put(Allocated(c), 0) /\ q[n + 9] = Commit
    BY <1>6, <2>1 DEF MadeLaid
  <2>6. Good(4) /\ Good(5) /\ Good(6) /\ Good(7) /\ Good(8) /\ Good(n + 9)
    BY <1>3, <1>4, <1>6, <1>15, <2>2, <2>5, RowsAre DEF Placed, Makers, z
  <2>8. \A k \in 1 .. Len(q) : Good(k)
    <3> TAKE k \in 1 .. Len(q)
    <3>1. k \in 1 .. 8 \/ Inside(k) \/ k = n + 9
      BY <1>6, <2>1, <2>2
    <3>2. CASE k \in 1 .. 8
      <4>1. k = 1 \/ k = 2 \/ k = 3 \/ k = 4 \/ k = 5 \/ k = 6 \/ k = 7 \/ k = 8
        BY <3>2
      <4> QED
        BY <2>4, <2>6, <4>1
    <3> QED
      BY <2>3, <2>6, <3>1, <3>2
  <2>9. z <= Len(q) /\ z > 4 /\ Len(q) \in Nat \ {0}
    BY <1>6, <2>1, <2>2
  <2> QED
    BY <1>6, <1>15, <2>2, <2>8, <2>9 DEF WellPlaced, q, z
<1> QED
  BY <1>10, <1>11, <1>12, <1>13, <1>14, <1>15 DEF PostingOps

OtherOps ==
  {"deposit", "reopen", "adjust", "count", "move", "transfer",
   "borrow", "openLoan", "loan", "loanEntry"}

LEMMA OtherPlaced ==
  ASSUME NEW c \in Clients, NEW r, Legal(r), r.op \in OtherOps, NEW v
  PROVE  WellPlaced(Handler(c, r, v), c, r, v)
<1> DEFINE q == Handler(c, r, v)
<1> USE RowsAre DEF Begin, Commit, Read, Check, Enough, Add, Put, Claim, Reads, Writes
<1>1. CASE r.op \in {"deposit", "reopen"}
  <2> DEFINE d == r.doc
             t == Given[d].is
  <2>1. d \in DocIds /\ t.shop \in Shops
    BY <1>1, GivenSound DEF Legal, DocIds, Sound, Content
  <2>2. \E from, to, n : q = <<Check(Cheque(d), {from}), Begin, Claim(Cheque(d), from, to),
                               Add(Money(t.shop), n), Commit>>
    BY <1>1 DEF Handler, Deposit
  <2>3. BeginAt(r) = 2 /\ CommitAt(c, r, v) = Len(q)
    BY <1>1 DEF BeginAt, CommitAt, Makers, LoanOps
  <2> QED
    BY <1>1, <2>1, <2>2, <2>3 DEF WellPlaced, Placed
<1>2. CASE r.op = "adjust"
  <2>1. r.shop \in Shops
    BY DEF Legal
  <2>2. \E x : q = <<Begin, Add(Stock, r.qty), Read(Level(r.shop)), Put(Level(r.shop), x), Commit>>
    BY <1>2 DEF Handler, Adjust
  <2>3. BeginAt(r) = 1 /\ CommitAt(c, r, v) = Len(q)
    BY <1>2 DEF BeginAt, CommitAt, Makers, LoanOps
  <2> QED
    BY <1>2, <2>1, <2>2, <2>3 DEF WellPlaced, Placed
<1>3. CASE r.op = "count"
  <2>1. r.shop \in Shops
    BY DEF Legal
  <2>2. q = <<Add(Level(r.shop), r.qty), Add(Stock, r.qty)>>
    BY <1>3 DEF Handler, Count
  <2>3. BeginAt(r) = 0 /\ CommitAt(c, r, v) = 0
    BY <1>3 DEF BeginAt, CommitAt, Makers, LoanOps
  <2> QED
    BY <1>3, <2>1, <2>2, <2>3 DEF WellPlaced, Placed
<1>4. CASE r.op = "move"
  <2>1. r.shop \in Shops /\ r.to \in Shops
    BY <1>4 DEF Legal
  <2>2. \E x, y, n : q = <<Enough(Level(r.shop), n), Read(Level(r.shop)), Read(Level(r.to)), Begin,
                           Put(Level(r.shop), x), Put(Level(r.to), y), Commit>>
    BY <1>4 DEF Handler, Move
  <2>3. BeginAt(r) = 4 /\ CommitAt(c, r, v) = Len(q)
    BY <1>4 DEF BeginAt, CommitAt, Makers, LoanOps
  <2> QED
    BY <1>4, <2>1, <2>2, <2>3 DEF WellPlaced, Placed
<1>5. CASE r.op = "transfer"
  <2>1. r.shop \in Shops /\ r.to \in Shops
    BY <1>5 DEF Legal
  <2>2. \E m, n : q = <<Begin, Add(Money(r.shop), m), Add(Money(r.to), n), Commit>>
    BY <1>5 DEF Handler, Transfer
  <2>3. BeginAt(r) = 1 /\ CommitAt(c, r, v) = Len(q)
    BY <1>5 DEF BeginAt, CommitAt, Makers, LoanOps
  <2> QED
    BY <1>5, <2>1, <2>2, <2>3 DEF WellPlaced, Placed
<1>6. CASE r.op = "borrow"
  <2>1. r.shop \in Shops
    BY <1>6 DEF Legal
  <2>2. \E m, n : q = <<Begin, Put(Loan(c), m), Add(Money(r.shop), n), Commit>>
    BY <1>6 DEF Handler, Borrow
  <2>3. BeginAt(r) = 1 /\ CommitAt(c, r, v) = Len(q)
    BY <1>6 DEF BeginAt, CommitAt, Makers, LoanOps
  <2> QED
    BY <1>6, <2>1, <2>2, <2>3 DEF WellPlaced, Placed
<1>7. CASE r.op = "loan"
  <2>1. r.shop \in Shops
    BY <1>7 DEF Legal
  <2>2. \E m, n : q = <<Begin, Add(Money(r.shop), m), Add(Loan(None), n), Commit>>
    BY <1>7 DEF Handler, LoanTxn
  <2>3. BeginAt(r) = 1 /\ CommitAt(c, r, v) = Len(q)
    BY <1>7 DEF BeginAt, CommitAt, Makers, LoanOps
  <2> QED
    BY <1>7, <2>1, <2>2, <2>3 DEF WellPlaced, Placed
<1>8. CASE r.op = "openLoan"
  <2>1. \E m : q = <<Begin, Put(Loan(c), m), Commit>>
    BY <1>8 DEF Handler, OpenLoan
  <2>2. BeginAt(r) = 1 /\ CommitAt(c, r, v) = Len(q)
    BY <1>8 DEF BeginAt, CommitAt, Makers, LoanOps
  <2> QED
    BY <1>8, <2>1, <2>2 DEF WellPlaced, Placed
<1>9. CASE r.op = "loanEntry"
  <2>1. \E m : q = <<Begin, Add(Loan(None), m), Commit>>
    BY <1>9 DEF Handler, LoanEntry
  <2>2. BeginAt(r) = 1 /\ CommitAt(c, r, v) = Len(q)
    BY <1>9 DEF BeginAt, CommitAt, Makers, LoanOps
  <2> QED
    BY <1>9, <2>1, <2>2 DEF WellPlaced, Placed
<1> QED
  BY <1>1, <1>2, <1>3, <1>4, <1>5, <1>6, <1>7, <1>8, <1>9
     DEF OtherOps

LEMMA HandlersPlaced ==
  ASSUME NEW c \in Clients, NEW r \in Requests, NEW v
  PROVE  WellPlaced(Handler(c, r, v), c, r, v)
<1>1. Legal(r) /\ r.op \in PostingOps \cup OtherOps
  BY RequestsAssumption DEF Legal, Ops, PostingOps, OtherOps
<1> QED
  BY <1>1, PostingPlaced, OtherPlaced

(***************************************************************************)
(* A script up to the statement at hand stays as it is when that statement *)
(* reads a row.                                                            *)
(***************************************************************************)

LEMMA SeenWith ==
  ASSUME NEW v, NEW row, NEW x, NEW other
  PROVE  Seen(With(v, row, x), other) = IF other = row THEN x ELSE Seen(v, other)
BY DEF Seen, With

LEMMA EffectReads ==
  ASSUME NEW c, NEW r, NEW v, Posts(r, v), NEW k \in 1 .. Len(Effects(c, r, v)),
         Effects(c, r, v)[k].op \in Reads
  PROVE  LET t == TextOf(r)
             s == Effects(c, r, v)[k]
         IN  \/ Units(r) # 0 /\ Tests(r) = 1 /\ k = 1 /\ s = Enough(Stock, Units(r))
             \/ Units(r) # 0 /\ k = Tests(r) + 2 /\ s = Read(Level(t.shop))
             \/ /\ t.own # 0 /\ t.cheque /\ Undoes(r)
                /\ k = MoneyFrom(r) + 1 /\ s = Read(Cheque(r.doc))
             \/ /\ t.pays # None /\ AmountOf(r, v) # 0
                /\ k = AllotFrom(r, v) + 1 /\ s = Read(Paid(t.pays))
<1> DEFINE e == Effects(c, r, v)
<1>1. EffectsLaid(e, c, r, v)
  BY EffectsAre
<1> HIDE DEF e
<1>2. EffectPlace(k, r, v)
  BY <1>1, EffectPlaces DEF EffectsLaid, e
<1>3. Undoes(r) => DocOf(c, r) = r.doc
  BY DEF Undoes, DocOf, Makers
<1>4. e[k].op \in Reads
  BY DEF e
<1>5. /\ Units(r) # 0 /\ k = Tests(r) + 1 => e[k].op = "add"
      /\ Units(r) # 0 /\ k = Tests(r) + 3 => e[k].op = "put"
      /\ OnParty(TextOf(r)) # 0 /\ k = StockLen(r) + 1 => e[k].op = "add"
  BY <1>1 DEF EffectsLaid, StockLaid, Add, Put
<1>6. /\ TextOf(r).own # 0 /\ ~(TextOf(r).cheque /\ Undoes(r)) /\ k = MoneyFrom(r) + 1 =>
           e[k].op \in {"add", "put"}
      /\ TextOf(r).own # 0 /\ TextOf(r).cheque /\ Undoes(r) =>
           /\ k = MoneyFrom(r) + 2 => e[k].op \in {"add", "put"}
           /\ (k = MoneyFrom(r) + 3 /\ Seen(v, Cheque(r.doc)) = "CLOSED") => e[k].op = "put"
  BY <1>1, <1>3 DEF EffectsLaid, MoneyLaid, Add, Put, Cashed
<1>7. TextOf(r).pays # None /\ AmountOf(r, v) # 0 =>
        /\ k = AllotFrom(r, v) + 2 => e[k].op = "put"
        /\ k = AllotFrom(r, v) + 3 => e[k].op = "put"
  BY <1>1 DEF EffectsLaid, AllotLaid, Put
<1>8. "add" \notin Reads /\ "put" \notin Reads
  BY DEF Reads
<1>9. \/ Units(r) # 0 /\ Tests(r) = 1 /\ k = 1
      \/ Units(r) # 0 /\ k = Tests(r) + 2
      \/ TextOf(r).own # 0 /\ TextOf(r).cheque /\ Undoes(r) /\ k = MoneyFrom(r) + 1
      \/ TextOf(r).pays # None /\ AmountOf(r, v) # 0 /\ k = AllotFrom(r, v) + 1
  BY <1>2, <1>4, <1>5, <1>6, <1>7, <1>8 DEF EffectPlace
<1> QED
  BY <1>1, <1>3, <1>9 DEF EffectsLaid, StockLaid, MoneyLaid, AllotLaid, e

EffectsKept(c, r, v, w, k) ==
  /\ Posts(r, w) /\ AmountOf(r, w) = AmountOf(r, v)
  /\ Len(Effects(c, r, w)) >= k
  /\ \A j \in 1 .. k : Effects(c, r, w)[j] = Effects(c, r, v)[j]
  /\ \A d : Seen(w, Status(d)) = Seen(v, Status(d))
  /\ \A d : Seen(w, <<"received", d>>) = Seen(v, <<"received", d>>)

LEMMA EffectsStable ==
  ASSUME NEW c, NEW r, NEW v, Posts(r, v), NEW k \in 1 .. Len(Effects(c, r, v)),
         Effects(c, r, v)[k].op \in Reads, NEW x
  PROVE  EffectsKept(c, r, v, With(v, Effects(c, r, v)[k].row, x), k)
<1> DEFINE e == Effects(c, r, v)
           row == e[k].row
           w == With(v, row, x)
           f == Effects(c, r, w)
           t == TextOf(r)
<1> USE DEF EffectsKept
<1>1. \/ Units(r) # 0 /\ Tests(r) = 1 /\ k = 1 /\ row = Stock
      \/ Units(r) # 0 /\ k = Tests(r) + 2 /\ row = Level(t.shop)
      \/ /\ t.own # 0 /\ t.cheque /\ Undoes(r)
         /\ k = MoneyFrom(r) + 1 /\ row = Cheque(r.doc)
      \/ /\ t.pays # None /\ AmountOf(r, v) # 0
         /\ k = AllotFrom(r, v) + 1 /\ row = Paid(t.pays)
  <2> HIDE DEF e, t
  <2>1. \/ Units(r) # 0 /\ Tests(r) = 1 /\ k = 1 /\ e[k] = Enough(Stock, Units(r))
        \/ Units(r) # 0 /\ k = Tests(r) + 2 /\ e[k] = Read(Level(t.shop))
        \/ /\ t.own # 0 /\ t.cheque /\ Undoes(r)
           /\ k = MoneyFrom(r) + 1 /\ e[k] = Read(Cheque(r.doc))
        \/ /\ t.pays # None /\ AmountOf(r, v) # 0
           /\ k = AllotFrom(r, v) + 1 /\ e[k] = Read(Paid(t.pays))
    BY EffectReads, Zenon DEF e, t
  <2> QED
    BY <2>1 DEF Enough, Read
<1> HIDE DEF row
<1>2. \A d : /\ row # Status(d) /\ row # Allocated(d) /\ row # <<"owed", d>>
             /\ row # <<"received", d>>
  BY <1>1 DEF Stock, Level, Cheque, Paid, Status, Allocated
<1>3. /\ Posts(r, w) /\ AmountOf(r, w) = AmountOf(r, v)
      /\ \A d : Seen(w, Status(d)) = Seen(v, Status(d))
      /\ \A d : Seen(w, <<"received", d>>) = Seen(v, <<"received", d>>)
  BY <1>2, SeenWith DEF Posts, AmountOf
<1>4. EffectsLaid(e, c, r, v) /\ EffectsLaid(f, c, r, w)
  BY <1>3, EffectsAre
<1>5. k \in 1 .. Len(e)
  OBVIOUS
<1>6. \A j \in 1 .. k : EffectPlace(j, r, v)
  BY <1>4, EffectPlaces, Lengths DEF EffectsLaid
<1>7. \A l : row # Level(l) => Seen(w, Level(l)) = Seen(v, Level(l))
  BY SeenWith
<1>8. \A d : row # Cheque(d) => Seen(w, Cheque(d)) = Seen(v, Cheque(d))
  BY SeenWith
<1>9. /\ Tests(r) \in {0, 1}
      /\ Units(r) # 0 => StockLen(r) = Tests(r) + 3
      /\ StockLen(r) \in Nat /\ MoneyFrom(r) \in Nat
      /\ MoneyFrom(r) = StockLen(r) + PartyLen(r) /\ PartyLen(r) \in {0, 1}
      /\ AllotFrom(r, v) = MoneyFrom(r) + MoneyLen(r, v) /\ MoneyLen(r, v) \in Nat
      /\ AllotFrom(r, w) = MoneyFrom(r) + MoneyLen(r, w) /\ MoneyLen(r, w) \in Nat
      /\ AllotLen(r, v) \in {0, 3} /\ AllotLen(r, w) = AllotLen(r, v)
  BY <1>3, Lengths DEF StockLen, MoneyFrom, AllotFrom, AllotLen
<1>10. /\ Len(e) = AllotFrom(r, v) + AllotLen(r, v)
       /\ Len(f) = AllotFrom(r, w) + AllotLen(r, w)
  BY <1>4 DEF EffectsLaid
<1> HIDE DEF e, f, w, t
<1>11. CASE Units(r) # 0 /\ Tests(r) = 1 /\ k = 1 /\ row = Stock
  <2>1. f[1] = e[1]
    BY <1>4, <1>11 DEF EffectsLaid, StockLaid
  <2>2. Len(f) >= 1
    <3>1. StockLen(r) = 4
      BY <1>9, <1>11
    <3>2. AllotFrom(r, w) \in Nat /\ AllotFrom(r, w) >= 4 /\ AllotLen(r, w) \in {0, 3}
      BY <1>9, <3>1
    <3> QED
      BY <1>10, <3>2
  <2> QED
    BY <1>3, <1>11, <2>1, <2>2 DEF e, f, w, row
<1>12. CASE Units(r) # 0 /\ k = Tests(r) + 2 /\ row = Level(t.shop)
  <2>1. \A j \in 1 .. k : (j = 1 /\ Tests(r) = 1) \/ j = Tests(r) + 1 \/ j = Tests(r) + 2
    BY <1>9, <1>12
  <2>2. \A j \in 1 .. k : f[j] = e[j]
    BY <1>4, <1>12, <2>1 DEF EffectsLaid, StockLaid, t
  <2>3. Len(f) >= k
    BY <1>9, <1>10, <1>12
  <2> QED
    BY <1>3, <2>2, <2>3 DEF e, f, w, row
<1>13. ASSUME row # Level(t.shop)
       PROVE  /\ Units(r) # 0 => /\ Tests(r) = 1 => f[1] = e[1]
                                 /\ f[Tests(r) + 1] = e[Tests(r) + 1]
                                 /\ f[Tests(r) + 2] = e[Tests(r) + 2]
                                 /\ f[Tests(r) + 3] = e[Tests(r) + 3]
              /\ OnParty(t) # 0 => f[StockLen(r) + 1] = e[StockLen(r) + 1]
  BY <1>4, <1>7, <1>13 DEF EffectsLaid, StockLaid, t
<1>14. CASE /\ t.own # 0 /\ t.cheque /\ Undoes(r)
            /\ k = MoneyFrom(r) + 1 /\ row = Cheque(r.doc)
  <2>1. row # Level(t.shop)
    BY <1>14 DEF Cheque, Level
  <2>2. Undoes(r) => DocOf(c, r) = r.doc
    BY DEF Undoes, DocOf, Makers
  <2>3. f[k] = e[k]
    BY <1>4, <1>14, <2>2 DEF EffectsLaid, MoneyLaid, t
  <2>4. MoneyLen(r, v) >= 1 /\ MoneyLen(r, w) >= 1
    BY <1>14 DEF MoneyLen, t
  <2>5. \A j \in 1 .. k : f[j] = e[j]
    <3> SUFFICES ASSUME NEW j \in 1 .. k, j < k PROVE f[j] = e[j]
      BY <2>3, <1>5
    <3>1. EffectPlace(j, r, v)
      BY <1>6
    <3>2. j < MoneyFrom(r) + 1 /\ j < AllotFrom(r, v) + 1
      BY <1>9, <1>14
    <3>3. \/ Units(r) # 0 /\ \/ Tests(r) = 1 /\ j = 1
                             \/ j = Tests(r) + 1 \/ j = Tests(r) + 2 \/ j = Tests(r) + 3
          \/ OnParty(t) # 0 /\ j = StockLen(r) + 1
      <4>1. MoneyFrom(r) \in Nat /\ AllotFrom(r, v) \in Nat
        BY <1>9
      <4>2. \A n \in 1 .. 3 : j # MoneyFrom(r) + n /\ j # AllotFrom(r, v) + n
        BY <3>2, <4>1
      <4>3. /\ j # MoneyFrom(r) + 1 /\ j # MoneyFrom(r) + 2 /\ j # MoneyFrom(r) + 3
            /\ j # AllotFrom(r, v) + 1 /\ j # AllotFrom(r, v) + 2 /\ j # AllotFrom(r, v) + 3
        BY <4>2
      <4> QED
        BY <3>1, <4>3, Zenon DEF EffectPlace, t
    <3> QED
      BY <1>13, <2>1, <3>3
  <2>6. Len(f) >= k
    BY <1>9, <1>10, <1>14, <2>4
  <2> QED
    BY <1>3, <2>5, <2>6 DEF e, f, w, row
<1>15. CASE /\ t.pays # None /\ AmountOf(r, v) # 0
            /\ k = AllotFrom(r, v) + 1 /\ row = Paid(t.pays)
  <2>1. row # Level(t.shop) /\ \A d : row # Cheque(d)
    BY <1>15 DEF Cheque, Level, Paid
  <2>2. MoneyLen(r, w) = MoneyLen(r, v) /\ AllotFrom(r, w) = AllotFrom(r, v)
    BY <1>8, <2>1 DEF MoneyLen, AllotFrom
  <2>3. f[k] = e[k]
    BY <1>3, <1>4, <1>15, <2>2 DEF EffectsLaid, AllotLaid, t
  <2>4. t.own # 0 => /\ ~(t.cheque /\ Undoes(r)) => f[MoneyFrom(r) + 1] = e[MoneyFrom(r) + 1]
                     /\ t.cheque /\ Undoes(r) =>
                          /\ f[MoneyFrom(r) + 1] = e[MoneyFrom(r) + 1]
                          /\ f[MoneyFrom(r) + 2] = e[MoneyFrom(r) + 2]
                          /\ Seen(v, Cheque(r.doc)) = "CLOSED" =>
                               f[MoneyFrom(r) + 3] = e[MoneyFrom(r) + 3]
    <3>1. Undoes(r) => DocOf(c, r) = r.doc
      BY DEF Undoes, DocOf, Makers
    <3>2. Seen(w, Cheque(DocOf(c, r))) = Seen(v, Cheque(DocOf(c, r)))
      BY <1>8, <2>1
    <3>3. MoneyLaid(e, c, r, v) /\ MoneyLaid(f, c, r, w)
      BY <1>4 DEF EffectsLaid
    <3> QED
      BY <3>1, <3>2, <3>3 DEF MoneyLaid, t
  <2>5. \A j \in 1 .. k : f[j] = e[j]
    <3> SUFFICES ASSUME NEW j \in 1 .. k, j < k PROVE f[j] = e[j]
      BY <2>3, <1>5
    <3>1. EffectPlace(j, r, v)
      BY <1>6
    <3>2. j < AllotFrom(r, v) + 1
      BY <1>15
    <3>3. \/ Units(r) # 0 /\ \/ Tests(r) = 1 /\ j = 1
                             \/ j = Tests(r) + 1 \/ j = Tests(r) + 2 \/ j = Tests(r) + 3
          \/ OnParty(t) # 0 /\ j = StockLen(r) + 1
          \/ t.own # 0 /\ ~(t.cheque /\ Undoes(r)) /\ j = MoneyFrom(r) + 1
          \/ /\ t.own # 0 /\ t.cheque /\ Undoes(r)
             /\ \/ j = MoneyFrom(r) + 1 \/ j = MoneyFrom(r) + 2
                \/ j = MoneyFrom(r) + 3 /\ Seen(v, Cheque(r.doc)) = "CLOSED"
      <4>1. AllotFrom(r, v) \in Nat
        BY <1>9
      <4>2. \A n \in 1 .. 3 : j # AllotFrom(r, v) + n
        BY <3>2, <4>1
      <4>3. /\ j # AllotFrom(r, v) + 1 /\ j # AllotFrom(r, v) + 2 /\ j # AllotFrom(r, v) + 3
        BY <4>2
      <4> QED
        BY <3>1, <4>3, Zenon DEF EffectPlace, t
    <3> QED
      BY <1>13, <2>1, <2>4, <3>3
  <2>6. Len(f) >= k
    BY <1>9, <1>10, <1>15, <2>2, <1>5
  <2> QED
    BY <1>3, <2>5, <2>6 DEF e, f, w, row
<1> QED
  BY <1>1, <1>11, <1>12, <1>14, <1>15 DEF t

(* The statements that a handler that posts reads before its transaction. *)
FrontReads(r) ==
  CASE r.op = "create" -> IF r.in.pays = None THEN 0 ELSE 3
    [] r.op = "delete" -> 4
    [] r.op \in {"restore", "refund"} -> 3
    [] r.op \in {"resume", "convert"} -> 2

(* What stands around the effects, n of them, after those reads. *)
Frame(s, k, n, c, r, v) ==
  LET t == TextOf(r)
      d == r.doc
      b == Base(r)
  IN  \/ r.op \in Makers /\ \/ k = b - 4 /\ s = Begin
                            \/ k = b - 3 /\ s = Add(Seq_(t.shop, t.type), 1)
                            \/ k = b - 2 /\ s = Put(Status(c), FirstStatus(t))
                            \/ k = b - 1 /\ s = Put(Paid(c), t.own)
                            \/ k = b /\ s = Put(Allocated(c), AmountOf(r, v))
                            \/ k = b + n + 1 /\ s = Commit
      \/ r.op = "refund" /\ k = b + n + 2 /\ s = Put(Status(d), "REFUNDED")
      \/ r.op = "convert" /\ k = 3 /\ s = Claim(Status(d), Seen(v, Status(d)), StatusAfter(v, r))
      \/ r.op = "resume" /\ \/ k = 3 /\ s = Begin
                            \/ k = 4 /\ s = Claim(Status(d), "HELD", "OPEN")
                            \/ k = 5 /\ s = Put(Status(d), FirstStatus(t))
                            \/ k = 6 /\ s = Put(Paid(d), t.own)
                            \/ k = b + n + 1 /\ s = Commit
      \/ r.op = "restore" /\ \/ k = 4 /\ s = Begin
                             \/ k = b + n + 1 /\ s = Put(Deleted(d), FALSE)
                             \/ k = b + n + 2 /\ s = Commit
      \/ r.op = "delete" /\ \/ k = 5 /\ s = Begin
                            \/ /\ t.source # None
                               /\ k = b + n + 1 /\ s = Put(Status(t.source), "ORDER_OPEN")
                            \/ /\ k = IF t.source = None THEN b + n + 1 ELSE b + n + 2
                               /\ s = Put(Deleted(d), TRUE)
                            \/ /\ k = IF t.source = None THEN b + n + 2 ELSE b + n + 3
                               /\ s = Commit

LEMMA FrameStatements ==
  ASSUME NEW c, NEW r, r.op \in PostingOps, NEW v,
         NEW k \in 1 .. Len(Handler(c, r, v)), k > FrontReads(r),
         k \notin Base(r) + 1 .. Base(r) + Len(Effects(c, r, v))
  PROVE  Frame(Handler(c, r, v)[k], k, Len(Effects(c, r, v)), c, r, v)
<1> DEFINE q == Handler(c, r, v)
           e == Effects(c, r, v)
           n == Len(e)
           t == TextOf(r)
           d == r.doc
<1>1. HandlerLaid(q, e, c, r, v)
  BY PostingHandler
<1>2. n \in Nat
  BY EffectsSeq
<1>3. k \in 1 .. Len(q)
  OBVIOUS
<1>4. r.op \in {"refund", "convert"} => AmountOf(r, v) = 0
  BY DEF AmountOf
<1> HIDE DEF q, e, n, t, d
<1>5. IsSeq(q) /\ OpLaid(q, e, c, r, v)
  BY <1>1 DEF HandlerLaid
<1>6. Len(q) \in Nat
  BY <1>5, Joined, LiteralSeqs
<1>7. k \in Nat /\ k > FrontReads(r) /\ (k <= Base(r) \/ k > Base(r) + n) /\ k <= Len(q)
  <2>1. Base(r) \in 4 .. 8
    BY DEF Base, PostingOps
  <2>2. k > FrontReads(r) /\ k \notin Base(r) + 1 .. Base(r) + n
    BY DEF n, e
  <2> QED
    BY <1>2, <1>3, <1>6, <2>1, <2>2
<1>8. CASE r.op = "create"
  <2>1. MadeLaid(q, e, Base(r), c, t, AmountOf(r, v)) /\ Len(q) = Base(r) + n + 1
    BY <1>5, <1>8 DEF OpLaid, n, t
  <2>2. Base(r) = FrontReads(r) + 5 /\ FrontReads(r) \in {0, 3}
    BY <1>8 DEF Base, FrontReads
  <2>3. \/ k = Base(r) - 4 \/ k = Base(r) - 3 \/ k = Base(r) - 2 \/ k = Base(r) - 1
        \/ k = Base(r) \/ k = Base(r) + n + 1
    <3>1. Len(q) = Base(r) + n + 1
      BY <2>1
    <3> QED
      BY <1>2, <1>7, <2>2, <3>1
  <2> QED
    BY <1>8, <2>1, <2>3 DEF MadeLaid, n, q, e, t, Frame, Makers
<1>9. CASE r.op = "resume"
  <2>1. /\ q[3] = Begin /\ q[4] = Claim(Status(d), "HELD", "OPEN")
        /\ q[5] = Put(Status(d), FirstStatus(t)) /\ q[6] = Put(Paid(d), t.own)
        /\ q[n + 7] = Commit /\ Len(q) = n + 7
    BY <1>5, <1>9 DEF OpLaid, n, t, d
  <2>2. Base(r) = 6 /\ FrontReads(r) = 2
    BY <1>9 DEF Base, FrontReads
  <2>3. k = 3 \/ k = 4 \/ k = 5 \/ k = 6 \/ k = n + 7
    BY <1>2, <1>7, <2>1, <2>2
  <2>4. n + 7 = Base(r) + n + 1
    BY <1>2, <2>2
  <2> QED
    BY <1>9, <2>1, <2>3, <2>4 DEF Frame, q, n, e, t, d
<1>10. CASE r.op = "restore"
  <2>1. /\ q[4] = Begin
        /\ q[n + 5] = Put(Deleted(d), FALSE) /\ q[n + 6] = Commit /\ Len(q) = n + 6
    BY <1>5, <1>10 DEF OpLaid, n, t, d
  <2>2. Base(r) = 4 /\ FrontReads(r) = 3
    BY <1>10 DEF Base, FrontReads
  <2>3. k = 4 \/ k = n + 5 \/ k = n + 6
    <3>1. Len(q) = n + 6
      BY <2>1
    <3> QED
      BY <1>2, <1>7, <2>2, <3>1
  <2>4. n + 5 = Base(r) + n + 1 /\ n + 6 = Base(r) + n + 2
    BY <1>2, <2>2
  <2> QED
    BY <1>10, <2>1, <2>3, <2>4 DEF Frame, q, n, e, d
<1>11. CASE r.op = "delete"
  <2>1. /\ q[5] = Begin
        /\ t.source = None =>
             q[n + 6] = Put(Deleted(d), TRUE) /\ q[n + 7] = Commit /\ Len(q) = n + 7
        /\ t.source # None =>
             /\ q[n + 6] = Put(Status(t.source), "ORDER_OPEN")
             /\ q[n + 7] = Put(Deleted(d), TRUE) /\ q[n + 8] = Commit /\ Len(q) = n + 8
    BY <1>5, <1>11 DEF OpLaid, n, t, d
  <2>2. Base(r) = 5 /\ FrontReads(r) = 4
    BY <1>11 DEF Base, FrontReads
  <2>3. k = 5 \/ k = n + 6 \/ k = n + 7 \/ (t.source # None /\ k = n + 8)
    <3>1. Len(q) = n + 7 \/ (t.source # None /\ Len(q) = n + 8)
      BY <2>1
    <3> QED
      BY <1>2, <1>7, <2>2, <3>1
  <2>4. n + 6 = Base(r) + n + 1 /\ n + 7 = Base(r) + n + 2 /\ n + 8 = Base(r) + n + 3
    BY <1>2, <2>2
  <2> QED
    BY <1>11, <2>1, <2>3, <2>4 DEF Frame, q, n, e, t, d
<1>12. CASE r.op = "refund"
  <2>1. /\ MadeLaid(q, e, 8, c, t, 0)
        /\ Marks(r, v) => Len(q) = n + 10 /\ q[n + 10] = Put(Status(d), "REFUNDED")
        /\ ~Marks(r, v) => Len(q) = n + 9
    BY <1>5, <1>12 DEF OpLaid, n, t, d
  <2>2. Base(r) = 8 /\ FrontReads(r) = 3
    BY <1>12 DEF Base, FrontReads
  <2>3. \/ k = 8 - 4 \/ k = 8 - 3 \/ k = 8 - 2 \/ k = 8 - 1 \/ k = 8 \/ k = 8 + n + 1
        \/ (Marks(r, v) /\ k = n + 10)
    <3>1. (Marks(r, v) /\ Len(q) = n + 10) \/ Len(q) = n + 9
      BY <2>1
    <3>2. k \in Nat /\ k > 3 /\ (k <= 8 \/ k > 8 + n) /\ k <= Len(q)
      BY <1>7, <2>2
    <3>3. k <= 8 => k = 4 \/ k = 5 \/ k = 6 \/ k = 7 \/ k = 8
      BY <3>2
    <3>4. k > 8 => k = n + 9 \/ (Marks(r, v) /\ k = n + 10)
      BY <1>2, <3>1, <3>2
    <3> QED
      BY <1>2, <3>2, <3>3, <3>4
  <2>4. n + 10 = Base(r) + n + 2
    BY <1>2, <2>2
  <2> QED
    BY <1>4, <1>12, <2>1, <2>2, <2>3, <2>4 DEF MadeLaid, n, q, e, t, d, Frame, Makers
<1>13. CASE r.op = "convert"
  <2>1. /\ MadeLaid(q, e, 8, c, t, 0) /\ Len(q) = n + 9
        /\ q[3] = Claim(Status(d), Seen(v, Status(d)), StatusAfter(v, r))
    BY <1>5, <1>13 DEF OpLaid, n, t, d
  <2>2. Base(r) = 8 /\ FrontReads(r) = 2
    BY <1>13 DEF Base, FrontReads
  <2>3. k = 3 \/ k = 8 - 4 \/ k = 8 - 3 \/ k = 8 - 2 \/ k = 8 - 1 \/ k = 8 \/ k = 8 + n + 1
    <3>1. Len(q) = n + 9
      BY <2>1
    <3> QED
      BY <1>2, <1>7, <2>2, <3>1
  <2> QED
    BY <1>4, <1>13, <2>1, <2>2, <2>3 DEF MadeLaid, n, q, e, t, d, Frame, Makers
<1> QED
  BY <1>8, <1>9, <1>10, <1>11, <1>12, <1>13 DEF PostingOps

LEMMA PostingReads ==
  ASSUME NEW c, NEW r, r.op \in PostingOps, NEW v,
         NEW k \in 1 .. Len(Handler(c, r, v)), Handler(c, r, v)[k].op \in Reads
  PROVE  k <= FrontReads(r) \/ k \in Base(r) + 1 .. Base(r) + Len(Effects(c, r, v))
<1>1. FrontReads(r) \in 0 .. 4
  BY DEF FrontReads, PostingOps
<1>2. SUFFICES ASSUME k > FrontReads(r),
                      k \notin Base(r) + 1 .. Base(r) + Len(Effects(c, r, v))
               PROVE  Handler(c, r, v)[k].op \notin Reads
  BY <1>1
<1> DEFINE s == Handler(c, r, v)[k]
<1>3. Frame(s, k, Len(Effects(c, r, v)), c, r, v)
  BY <1>2, FrameStatements
<1> HIDE DEF s
<1>4. s.op \in {"begin", "commit"} \cup Writes
  BY <1>3 DEF Frame, Begin, Commit, Add, Put, Claim, Writes
<1> QED
  BY <1>4 DEF s, Writes, Reads

LEMMA FrontStatic ==
  ASSUME NEW c, NEW r, r.op \in PostingOps, NEW v, NEW w, NEW j \in 1 .. FrontReads(r)
  PROVE  Handler(c, r, v)[j] = Handler(c, r, w)[j]
<1>1. OpLaid(Handler(c, r, v), Effects(c, r, v), c, r, v)
  BY PostingHandler DEF HandlerLaid
<1>2. OpLaid(Handler(c, r, w), Effects(c, r, w), c, r, w)
  BY PostingHandler DEF HandlerLaid
<1>3. r.op = "create" => TextOf(r) = r.in
  BY DEF TextOf, Made, Makers
<1>4. FrontReads(r) \in 0 .. 4
  BY DEF FrontReads, PostingOps
<1>5. j = 1 \/ j = 2 \/ j = 3 \/ (j = 4 /\ r.op = "delete")
  BY <1>4 DEF FrontReads, PostingOps
<1>6. j = 3 => r.op \notin {"resume", "convert"}
  BY DEF FrontReads
<1>7. r.op = "create" => r.in.pays # None
  BY DEF FrontReads
<1> DEFINE p == Handler(c, r, v)
           q == Handler(c, r, w)
<1> HIDE DEF p, q
<1>8. CASE r.op = "create"
  <2>1. p[1] = q[1] /\ p[2] = q[2] /\ p[3] = q[3]
    BY <1>1, <1>2, <1>3, <1>7, <1>8 DEF OpLaid, p, q
  <2> QED
    BY <1>5, <1>8, <2>1 DEF p, q
<1>9. CASE r.op \in {"resume", "convert"}
  <2>1. p[1] = q[1] /\ p[2] = q[2]
    <3>1. CASE r.op = "resume"
      BY <1>1, <1>2, <3>1 DEF OpLaid, p, q
    <3>2. CASE r.op = "convert"
      BY <1>1, <1>2, <3>2 DEF OpLaid, p, q
    <3> QED
      BY <1>9, <3>1, <3>2
  <2> QED
    BY <1>5, <1>6, <1>9, <2>1 DEF p, q
<1>10. CASE r.op = "delete"
  <2>1. p[1] = q[1] /\ p[2] = q[2] /\ p[3] = q[3] /\ p[4] = q[4]
    BY <1>1, <1>2, <1>10 DEF OpLaid, p, q
  <2> QED
    BY <1>5, <2>1 DEF p, q
<1>11. CASE r.op \in {"restore", "refund"}
  <2>1. p[1] = q[1] /\ p[2] = q[2] /\ p[3] = q[3]
    <3>1. CASE r.op = "restore"
      BY <1>1, <1>2, <3>1 DEF OpLaid, p, q
    <3>2. CASE r.op = "refund"
      BY <1>1, <1>2, <3>2 DEF OpLaid, p, q
    <3> QED
      BY <1>11, <3>1, <3>2
  <2> QED
    BY <1>5, <1>11, <2>1 DEF p, q
<1> QED
  BY <1>8, <1>9, <1>10, <1>11 DEF PostingOps

LEMMA BaseStatic ==
  ASSUME NEW c, NEW r, r.op \in PostingOps, NEW v, NEW w,
         AmountOf(r, w) = AmountOf(r, v),
         \A d : Seen(w, Status(d)) = Seen(v, Status(d)),
         \A d : Seen(w, <<"received", d>>) = Seen(v, <<"received", d>>),
         NEW j \in 1 .. Base(r)
  PROVE  Handler(c, r, v)[j] = Handler(c, r, w)[j]
<1> DEFINE p == Handler(c, r, v)
           q == Handler(c, r, w)
           t == TextOf(r)
<1>1. CASE j <= FrontReads(r)
  BY <1>1, FrontStatic
<1>2. OpLaid(p, Effects(c, r, v), c, r, v) /\ OpLaid(q, Effects(c, r, w), c, r, w)
  BY PostingHandler DEF HandlerLaid
<1>3. StatusAfter(w, r) = StatusAfter(v, r)
  BY DEF StatusAfter
<1> HIDE DEF p, q
<1>4. CASE j > FrontReads(r)
  <2>1. CASE r.op = "create"
    <3>1. /\ MadeLaid(p, Effects(c, r, v), Base(r), c, t, AmountOf(r, v))
          /\ MadeLaid(q, Effects(c, r, w), Base(r), c, t, AmountOf(r, v))
      BY <1>2, <2>1 DEF OpLaid, t
    <3>2. Base(r) = FrontReads(r) + 5 /\ FrontReads(r) \in {0, 3}
      BY <2>1 DEF Base, FrontReads
    <3>3. \/ j = Base(r) - 4 \/ j = Base(r) - 3 \/ j = Base(r) - 2 \/ j = Base(r) - 1
          \/ j = Base(r)
      BY <1>4, <3>2
    <3> QED
      BY <3>1, <3>3 DEF MadeLaid, p, q
  <2>2. CASE r.op = "resume"
    <3>1. j = 3 \/ j = 4 \/ j = 5 \/ j = 6
      BY <1>4, <2>2 DEF Base, FrontReads
    <3> QED
      BY <1>2, <2>2, <3>1 DEF OpLaid, p, q
  <2>3. CASE r.op \in {"delete", "restore"}
    <3>1. (j = 4 /\ r.op = "restore") \/ (j = 5 /\ r.op = "delete")
      BY <1>4, <2>3 DEF Base, FrontReads
    <3>2. r.op = "restore" => p[4] = q[4]
      BY <1>2 DEF OpLaid
    <3>3. r.op = "delete" => p[5] = q[5]
      BY <1>2 DEF OpLaid
    <3> QED
      BY <3>1, <3>2, <3>3 DEF p, q
  <2>4. CASE r.op \in {"refund", "convert"}
    <3>3. /\ MadeLaid(p, Effects(c, r, v), 8, c, t, 0)
          /\ MadeLaid(q, Effects(c, r, w), 8, c, t, 0)
      BY <1>2, <2>4 DEF OpLaid, t
    <3>4. r.op = "convert" =>
            /\ p[3] = Claim(Status(r.doc), Seen(v, Status(r.doc)), StatusAfter(v, r))
            /\ q[3] = Claim(Status(r.doc), Seen(w, Status(r.doc)), StatusAfter(w, r))
      BY <1>2 DEF OpLaid
    <3>5. Seen(w, Status(r.doc)) = Seen(v, Status(r.doc))
      OBVIOUS
    <3>1. /\ MadeLaid(p, Effects(c, r, v), 8, c, t, 0)
          /\ MadeLaid(q, Effects(c, r, w), 8, c, t, 0)
          /\ r.op = "convert" => p[3] = q[3]
      BY <1>3, <3>3, <3>4, <3>5, Zenon
    <3>2. \/ (j = 3 /\ r.op = "convert")
          \/ j = 8 - 4 \/ j = 8 - 3 \/ j = 8 - 2 \/ j = 8 - 1 \/ j = 8
      BY <1>4, <2>4 DEF Base, FrontReads
    <3> QED
      BY <3>1, <3>2 DEF MadeLaid, p, q
  <2> QED
    BY <2>1, <2>2, <2>3, <2>4 DEF PostingOps
<1>5. FrontReads(r) \in Nat
  BY DEF FrontReads, PostingOps
<1> QED
  BY <1>1, <1>4, <1>5

HandlerKept(c, r, v, w, k) ==
  /\ k < CommitAt(c, r, w)
  /\ \A j \in 1 .. k : Handler(c, r, w)[j] = Handler(c, r, v)[j]

(* A read before the transaction leaves the front as it is, and one of the *)
(* effects all that stands before it.                                      *)
LEMMA PostingStable ==
  ASSUME NEW c \in Clients, NEW r \in Requests, r.op \in PostingOps, NEW v,
         NEW k \in 1 .. Len(Handler(c, r, v)), Handler(c, r, v)[k].op \in Reads, NEW x
  PROVE  HandlerKept(c, r, v, With(v, Handler(c, r, v)[k].row, x), k)
<1> DEFINE q == Handler(c, r, v)
           row == q[k].row
           w == With(v, row, x)
           p == Handler(c, r, w)
           e == Effects(c, r, v)
           f == Effects(c, r, w)
           b == Base(r)
<1> USE DEF HandlerKept
<1>1. HandlerLaid(q, e, c, r, v) /\ HandlerLaid(p, f, c, r, w)
  BY PostingHandler
<1>2. k <= FrontReads(r) \/ k \in b + 1 .. b + Len(e)
  BY PostingReads
<1>3. WellPlaced(p, c, r, w)
  BY HandlersPlaced
<1>4. FrontReads(r) \in 0 .. 4 /\ b \in 4 .. 8 /\ FrontReads(r) <= b /\ FrontReads(r) <= BeginAt(r)
  BY DEF FrontReads, Base, BeginAt, Makers, LoanOps, PostingOps
<1>5. /\ k \in 1 .. Len(q) /\ q[k].op \in Reads
      /\ BeginAt(r) \in Nat /\ CommitAt(c, r, w) \in Nat /\ BeginAt(r) < CommitAt(c, r, w)
  BY <1>3 DEF WellPlaced, PostingOps
<1>6. IsSeq(q) /\ Len(q) \in Nat /\ Len(e) \in Nat /\ Len(f) \in Nat
  <2>1. IsSeq(q) /\ Len(e) \in Nat /\ Len(f) \in Nat
    BY <1>1 DEF HandlerLaid
  <2>2. Len(q) \in Nat
    BY <2>1, Joined, LiteralSeqs
  <2> HIDE DEF q, e, f
  <2> QED
    BY <2>1, <2>2
<1> HIDE DEF q, w, p, e, f, b
<1>7. CASE k <= FrontReads(r)
  <2>1. \A j \in 1 .. k : j \in 1 .. FrontReads(r)
    BY <1>4, <1>7
  <2>2. \A j \in 1 .. k : p[j] = q[j]
    BY <2>1, FrontStatic DEF p, q
  <2>3. k < CommitAt(c, r, w)
    BY <1>4, <1>5, <1>7
  <2> QED
    BY <2>2, <2>3 DEF p, q, w, row
<1>8. CASE k \in b + 1 .. b + Len(e)
  <2> DEFINE i == k - b
  <2>1. i \in 1 .. Len(e) /\ q[k] = e[i]
    BY <1>1, <1>4, <1>6, <1>8 DEF HandlerLaid, b
  <2> HIDE DEF i
  <2>2. e[i].op \in Reads /\ row = e[i].row
    BY <1>5, <2>1 DEF row
  <2>3. Posts(r, v)
    <3>1. ~Posts(r, v) => e = <<>>
      BY DEF e, Effects
    <3> QED
      BY <2>1, <3>1
  <2>9. w = With(v, e[i].row, x)
    BY <2>2 DEF w
  <2>10. EffectsKept(c, r, v, w, i)
    BY <2>1, <2>2, <2>3, <2>9, EffectsStable DEF e
  <2>4. /\ Posts(r, w) /\ AmountOf(r, w) = AmountOf(r, v)
        /\ Len(f) >= i
        /\ \A j \in 1 .. i : f[j] = e[j]
        /\ \A d : Seen(w, Status(d)) = Seen(v, Status(d))
        /\ \A d : Seen(w, <<"received", d>>) = Seen(v, <<"received", d>>)
    BY <2>10 DEF EffectsKept, e, f
  <2>5. \A j \in 1 .. b : p[j] = q[j]
    <3> TAKE j \in 1 .. b
    <3>1. Handler(c, r, v)[j] = Handler(c, r, w)[j]
      BY <2>4, BaseStatic DEF b
    <3> QED
      BY <3>1 DEF p, q
  <2>6. \A j \in 1 .. k : j > b => p[j] = q[j]
    <3> SUFFICES ASSUME NEW j \in 1 .. k, j > b PROVE p[j] = q[j]
      OBVIOUS
    <3>1. /\ j \in b + 1 .. b + Len(e) /\ j \in b + 1 .. b + Len(f)
          /\ j - b \in 1 .. i
      BY <1>4, <1>5, <1>6, <1>8, <2>4 DEF i
    <3>2. q[j] = e[j - b] /\ p[j] = f[j - b]
      BY <1>1, <3>1 DEF HandlerLaid, b
    <3> QED
      BY <2>4, <3>1, <3>2
  <2>7. \A j \in 1 .. k : p[j] = q[j]
    BY <1>4, <1>5, <2>5, <2>6
  <2>8. k < CommitAt(c, r, w)
    <3>1. k \in b + 1 .. b + Len(f)
      BY <1>4, <1>5, <1>6, <1>8, <2>4 DEF i
    <3>2. b + Len(f) < CommitAt(c, r, w)
      <4>1. OpLaid(p, f, c, r, w)
        BY <1>1 DEF HandlerLaid
      <4>2. CASE r.op = "refund"
        BY <1>6, <4>2 DEF CommitAt, Base, b, f
      <4>3. CASE r.op # "refund"
        <5>1. CommitAt(c, r, w) = Len(p)
          BY <4>3 DEF CommitAt, PostingOps, p
        <5>2. Len(p) = b + Len(f) + 1 \/ Len(p) = b + Len(f) + 2 \/ Len(p) = b + Len(f) + 3
          <6>1. CASE r.op = "create"
            BY <4>1, <6>1 DEF OpLaid, b
          <6>2. CASE r.op = "resume"
            BY <1>6, <4>1, <6>2 DEF OpLaid, b, Base
          <6>3. CASE r.op = "delete"
            <7>1. Len(p) = Len(f) + 7 \/ Len(p) = Len(f) + 8
              BY <4>1, <6>3 DEF OpLaid
            <7> QED
              BY <1>6, <6>3, <7>1 DEF b, Base
          <6>4. CASE r.op = "restore"
            BY <1>6, <4>1, <6>4 DEF OpLaid, b, Base
          <6>5. CASE r.op = "convert"
            <7>1. Len(p) = Len(f) + 9
              BY <4>1, <6>5 DEF OpLaid
            <7> QED
              BY <1>6, <6>5, <7>1 DEF b, Base
          <6> QED
            BY <4>3, <6>1, <6>2, <6>3, <6>4, <6>5 DEF PostingOps
        <5> QED
          BY <1>4, <1>6, <5>1, <5>2
      <4> QED
        BY <4>2, <4>3
    <3> QED
      BY <1>4, <1>5, <1>6, <3>1, <3>2
  <2> QED
    BY <2>7, <2>8 DEF p, q, w, row
<1> QED
  BY <1>2, <1>7, <1>8

LEMMA OtherStable ==
  ASSUME NEW c \in Clients, NEW r, Legal(r), r.op \in OtherOps, NEW v,
         NEW k \in 1 .. Len(Handler(c, r, v)), Handler(c, r, v)[k].op \in Reads, NEW x
  PROVE  HandlerKept(c, r, v, With(v, Handler(c, r, v)[k].row, x), k)
<1> DEFINE q == Handler(c, r, v)
           w == With(v, q[k].row, x)
           p == Handler(c, r, w)
<1> SUFFICES k < CommitAt(c, r, w) /\ \A j \in 1 .. k : p[j] = q[j]
  BY Zenon DEF HandlerKept
<1> USE DEF Begin, Commit, Read, Check, Enough, Add, Put, Claim, Reads
<1>0. r.op # "count" => CommitAt(c, r, w) = Len(p)
  <2>1. r.op \notin {"refund", "count"} => CommitAt(c, r, w) = Len(p)
    BY DEF CommitAt
  <2> QED
    BY <2>1 DEF OtherOps
<1>1. k \in 1 .. Len(q) /\ q[k].op \in Reads
  OBVIOUS
<1> HIDE DEF w
<1>2. CASE r.op \in {"deposit", "reopen"}
  <2>1. p = q /\ Len(q) = 5 /\ q[5].op = "commit"
    BY <1>2 DEF Handler, Deposit
  <2> QED
    BY <1>0, <1>1, <1>2, <2>1
<1>3. CASE r.op = "adjust"
  <2>1. /\ Len(p) = 5 /\ Len(q) = 5 /\ q[1].op = "begin" /\ q[2].op = "add" /\ q[4].op = "put"
        /\ q[5].op = "commit" /\ p[1] = q[1] /\ p[2] = q[2] /\ p[3] = q[3]
    BY <1>3 DEF Handler, Adjust
  <2>2. k = 3
    BY <1>1, <2>1
  <2> QED
    BY <1>0, <1>3, <2>1, <2>2
<1>4. CASE r.op = "count"
  <2>1. Len(q) = 2 /\ q[1].op = "add" /\ q[2].op = "add"
    BY <1>4 DEF Handler, Count
  <2> QED
    BY <1>1, <2>1
<1>5. CASE r.op = "move"
  <2>1. /\ Len(p) = 7 /\ Len(q) = 7 /\ q[4].op = "begin" /\ q[5].op = "put" /\ q[6].op = "put"
        /\ q[7].op = "commit" /\ p[1] = q[1] /\ p[2] = q[2] /\ p[3] = q[3]
    BY <1>5 DEF Handler, Move
  <2>2. k \in 1 .. 3
    BY <1>1, <2>1
  <2> QED
    BY <1>0, <1>5, <2>1, <2>2
<1>6. CASE r.op = "transfer"
  <2>1. /\ Len(q) = 4 /\ q[1].op = "begin" /\ q[2].op = "add" /\ q[3].op = "add"
        /\ q[4].op = "commit"
    BY <1>6 DEF Handler, Transfer
  <2> QED
    BY <1>1, <2>1
<1>7. CASE r.op = "borrow"
  <2>1. /\ Len(q) = 4 /\ q[1].op = "begin" /\ q[2].op = "put" /\ q[3].op = "add"
        /\ q[4].op = "commit"
    BY <1>7 DEF Handler, Borrow
  <2> QED
    BY <1>1, <2>1
<1>8. CASE r.op = "loan"
  <2>1. /\ Len(q) = 4 /\ q[1].op = "begin" /\ q[2].op = "add" /\ q[3].op = "add"
        /\ q[4].op = "commit"
    BY <1>8 DEF Handler, LoanTxn
  <2> QED
    BY <1>1, <2>1
<1>9. CASE r.op \in {"openLoan", "loanEntry"}
  <2>1. /\ Len(q) = 3 /\ q[1].op = "begin" /\ q[2].op \in {"put", "add"} /\ q[3].op = "commit"
    BY <1>9 DEF Handler, OpenLoan, LoanEntry
  <2> QED
    BY <1>1, <2>1
<1> QED
  BY <1>2, <1>3, <1>4, <1>5, <1>6, <1>7, <1>8, <1>9 DEF OtherOps

LEMMA HandlersStable ==
  ASSUME NEW c \in Clients, NEW r \in Requests, NEW v,
         NEW k \in 1 .. Len(Handler(c, r, v)), Handler(c, r, v)[k].op \in Reads, NEW x
  PROVE  HandlerKept(c, r, v, With(v, Handler(c, r, v)[k].row, x), k)
<1>1. Legal(r) /\ r.op \in PostingOps \cup OtherOps
  BY RequestsAssumption DEF Legal, Ops, PostingOps, OtherOps
<1> QED
  BY <1>1, PostingStable, OtherStable

(***************************************************************************)
(* What handlers read and write.                                           *)
(***************************************************************************)

FrontRead(s, k, r) ==
  LET d == r.doc
      i == r.in.pays
  IN  \/ r.op = "create" /\ i # None /\ \/ k = 1 /\ s = Check(Status(i), {"OPEN", "PARTIAL"})
                                        \/ k = 2 /\ s = Check(Deleted(i), {FALSE})
                                        \/ k = 3 /\ s = Read(<<"owed", i>>)
      \/ r.op = "resume" /\ \/ k = 1 /\ s = Check(Deleted(d), {FALSE})
                            \/ k = 2 /\ s = Check(Status(d), {"HELD"})
      \/ r.op = "delete" /\ \/ k = 1 /\ s = Check(Deleted(d), {FALSE})
                            \/ k = 2 /\ s = Check(<<"linked", d>>, {FALSE})
                            \/ k = 3 /\ s = Read(Status(d))
                            \/ k = 4 /\ s = Read(Allocated(d))
      \/ r.op = "restore" /\ \/ k = 1 /\ s = Check(Deleted(d), {TRUE})
                             \/ k = 2 /\ s = Read(Status(d))
                             \/ k = 3 /\ s = Read(Allocated(d))
      \/ r.op = "refund" /\ \/ /\ k = 1
                               /\ s = Check(Status(d), {"OPEN", "PARTIAL", "PAID", "REFUNDED"})
                            \/ k = 2 /\ s = Check(Deleted(d), {FALSE})
                            \/ /\ k = 3
                               /\ s = Check(<<"returned", d>>, 0 .. (Given[d].is.qty - r.qty))
      \/ r.op = "convert" /\ \/ k = 1 /\ s = Check(Status(d), Open)
                             \/ k = 2 /\ s = Read(<<"received", d>>)

LEMMA FrontReadsAre ==
  ASSUME NEW c, NEW r, r.op \in PostingOps, NEW v, NEW k \in 1 .. FrontReads(r)
  PROVE  FrontRead(Handler(c, r, v)[k], k, r)
<1> DEFINE q == Handler(c, r, v)
<1>1. OpLaid(q, Effects(c, r, v), c, r, v)
  BY PostingHandler DEF HandlerLaid
<1>2. FrontReads(r) \in 0 .. 4
  BY DEF FrontReads, PostingOps
<1>3. k = 1 \/ k = 2 \/ (k = 3 /\ r.op \notin {"resume", "convert"}) \/ (k = 4 /\ r.op = "delete")
  BY <1>2 DEF FrontReads, PostingOps
<1>4. r.op = "create" => r.in.pays # None /\ TextOf(r) = r.in
  BY DEF FrontReads, TextOf, Made, Makers
<1> HIDE DEF q
<1>5. CASE r.op = "create"
  BY <1>1, <1>3, <1>4, <1>5 DEF OpLaid, FrontRead, q
<1>6. CASE r.op = "resume"
  BY <1>1, <1>3, <1>6 DEF OpLaid, FrontRead, q
<1>7. CASE r.op = "delete"
  BY <1>1, <1>3, <1>7 DEF OpLaid, FrontRead, q
<1>8. CASE r.op = "restore"
  BY <1>1, <1>3, <1>8 DEF OpLaid, FrontRead, q
<1>9. CASE r.op = "refund"
  BY <1>1, <1>3, <1>9 DEF OpLaid, FrontRead, q
<1>10. CASE r.op = "convert"
  BY <1>1, <1>3, <1>10 DEF OpLaid, FrontRead, q
<1> QED
  BY <1>5, <1>6, <1>7, <1>8, <1>9, <1>10 DEF PostingOps

IsWrite(s, c, r, v) ==
  LET t == TextOf(r)
      d == r.doc
      g == Given[d].is
  IN  \/ r.op \in PostingOps /\ Posts(r, v) /\ IsEffect(s, c, r, v)
      \/ r.op \in Makers /\ \/ s = Add(Seq_(t.shop, t.type), 1)
                            \/ s = Put(Status(c), FirstStatus(t))
                            \/ s = Put(Paid(c), t.own)
                            \/ s = Put(Allocated(c), AmountOf(r, v))
      \/ r.op = "refund" /\ s = Put(Status(d), "REFUNDED")
      \/ r.op = "convert" /\ s = Claim(Status(d), Seen(v, Status(d)), StatusAfter(v, r))
      \/ r.op = "resume" /\ \/ s = Claim(Status(d), "HELD", "OPEN")
                            \/ s = Put(Status(d), FirstStatus(t))
                            \/ s = Put(Paid(d), t.own)
      \/ r.op = "restore" /\ s = Put(Deleted(d), FALSE)
      \/ r.op = "delete" /\ \/ t.source # None /\ s = Put(Status(t.source), "ORDER_OPEN")
                            \/ s = Put(Deleted(d), TRUE)
      \/ r.op = "deposit" /\ \/ s = Claim(Cheque(d), "OPEN", "CLOSED")
                             \/ s = Add(Money(g.shop), Signed(OnMoney(g), FALSE))
      \/ r.op = "reopen" /\ \/ s = Claim(Cheque(d), "CLOSED", "OPEN")
                            \/ s = Add(Money(g.shop), Signed(OnMoney(g), TRUE))
      \/ r.op = "adjust" /\ \/ s = Add(Stock, r.qty)
                            \/ s = Put(Level(r.shop), Seen(v, Level(r.shop)) + r.qty)
      \/ r.op = "count" /\ \/ s = Add(Level(r.shop), r.qty) \/ s = Add(Stock, r.qty)
      \/ r.op = "move" /\ \/ s = Put(Level(r.shop), Seen(v, Level(r.shop)) - r.qty)
                          \/ s = Put(Level(r.to), Seen(v, Level(r.to)) + r.qty)
      \/ r.op = "transfer" /\ \/ s = Add(Money(r.shop), -r.qty) \/ s = Add(Money(r.to), r.qty)
      \/ r.op = "borrow" /\ \/ s = Put(Loan(c), r.qty) \/ s = Add(Money(r.shop), r.qty)
      \/ r.op = "loan" /\ \/ s = Add(Money(r.shop), r.qty) \/ s = Add(Loan(None), r.qty)
      \/ r.op = "openLoan" /\ s = Put(Loan(c), r.qty)
      \/ r.op = "loanEntry" /\ s = Add(Loan(None), r.qty)

LEMMA FrontIsRead ==
  ASSUME NEW s, NEW k, NEW r, FrontRead(s, k, r)
  PROVE  s.op \in Reads
<1>1. (\E row, x : s = Check(row, x)) \/ (\E row : s = Read(row))
  BY Zenon DEF FrontRead
<1> QED
  BY <1>1 DEF Reads, Check, Read

LEMMA EffectPosts ==
  ASSUME NEW c, NEW r, NEW v, r.op \in PostingOps,
         NEW k \in Base(r) + 1 .. Base(r) + Len(Effects(c, r, v))
  PROVE  /\ Posts(r, v)
         /\ k - Base(r) \in 1 .. Len(Effects(c, r, v))
         /\ Handler(c, r, v)[k] = Effects(c, r, v)[k - Base(r)]
<1> DEFINE e == Effects(c, r, v)
<1>1. HandlerLaid(Handler(c, r, v), e, c, r, v)
  BY PostingHandler
<1>2. Len(e) \in Nat
  BY EffectsSeq
<1>3. Base(r) \in 4 .. 8
  BY DEF Base, PostingOps
<1>4. ~Posts(r, v) => e = <<>>
  BY DEF Effects
<1>5. Handler(c, r, v)[k] = e[k - Base(r)]
  BY <1>1 DEF HandlerLaid
<1> HIDE DEF e
<1>6. k - Base(r) \in 1 .. Len(e)
  BY <1>2, <1>3 DEF e
<1>7. Posts(r, v)
  BY <1>4, <1>6
<1> QED
  BY <1>5, <1>6, <1>7 DEF e

LEMMA OtherWrites ==
  ASSUME NEW c, NEW r, r.op \in OtherOps, NEW v,
         NEW k \in 1 .. Len(Handler(c, r, v)), Handler(c, r, v)[k].op \in Writes
  PROVE  IsWrite(Handler(c, r, v)[k], c, r, v)
<1> DEFINE q == Handler(c, r, v)
<1>1. k \in 1 .. Len(q) /\ q[k].op \in Writes
  OBVIOUS
<1>2. /\ Begin.op \notin Writes /\ Commit.op \notin Writes
      /\ \A row : Read(row).op \notin Writes
      /\ \A row, x : Check(row, x).op \notin Writes /\ Enough(row, x).op \notin Writes
  BY DEF Begin, Commit, Read, Check, Enough, Writes
<1> SUFFICES IsWrite(q[k], c, r, v)
  OBVIOUS
<1>3. CASE r.op = "deposit"
  <2> DEFINE n == Signed(OnMoney(Given[r.doc].is), "CLOSED" = "OPEN")
  <2>1. q = <<Check(Cheque(r.doc), {"OPEN"}), Begin, Claim(Cheque(r.doc), "OPEN", "CLOSED"),
              Add(Money(Given[r.doc].is.shop), n), Commit>>
    BY <1>3 DEF Handler, Deposit
  <2>2. n = Signed(OnMoney(Given[r.doc].is), FALSE)
    OBVIOUS
  <2> HIDE DEF q, n
  <2>3. Len(q) = 5 /\ q[1] = Check(Cheque(r.doc), {"OPEN"}) /\ q[2] = Begin /\ q[5] = Commit
    BY <2>1
  <2>4. k = 3 \/ k = 4
    BY <1>1, <1>2, <2>3
  <2>5. /\ q[3] = Claim(Cheque(r.doc), "OPEN", "CLOSED")
        /\ q[4] = Add(Money(Given[r.doc].is.shop), n)
    BY <2>1
  <2> QED
    BY <1>3, <2>2, <2>4, <2>5 DEF IsWrite
<1>4. CASE r.op = "reopen"
  <2> DEFINE n == Signed(OnMoney(Given[r.doc].is), "OPEN" = "OPEN")
  <2>1. q = <<Check(Cheque(r.doc), {"CLOSED"}), Begin, Claim(Cheque(r.doc), "CLOSED", "OPEN"),
              Add(Money(Given[r.doc].is.shop), n), Commit>>
    BY <1>4 DEF Handler, Deposit
  <2>2. n = Signed(OnMoney(Given[r.doc].is), TRUE)
    OBVIOUS
  <2> HIDE DEF q, n
  <2>3. Len(q) = 5 /\ q[1] = Check(Cheque(r.doc), {"CLOSED"}) /\ q[2] = Begin /\ q[5] = Commit
    BY <2>1
  <2>4. k = 3 \/ k = 4
    BY <1>1, <1>2, <2>3
  <2>5. /\ q[3] = Claim(Cheque(r.doc), "CLOSED", "OPEN")
        /\ q[4] = Add(Money(Given[r.doc].is.shop), n)
    BY <2>1
  <2> QED
    BY <1>4, <2>2, <2>4, <2>5 DEF IsWrite
<1>5. CASE r.op = "adjust"
  <2>1. q = Adjust(v, r.shop, r.qty)
    BY <1>5 DEF Handler
  <2> HIDE DEF q
  <2> QED
    BY <1>1, <1>2, <1>5, <2>1 DEF IsWrite, Adjust
<1>6. CASE r.op = "count"
  <2>1. q = Count(r.shop, r.qty)
    BY <1>6 DEF Handler
  <2> HIDE DEF q
  <2> QED
    BY <1>1, <1>2, <1>6, <2>1 DEF IsWrite, Count
<1>7. CASE r.op = "move"
  <2>1. q = Move(v, r.shop, r.to, r.qty)
    BY <1>7 DEF Handler
  <2> HIDE DEF q
  <2> QED
    BY <1>1, <1>2, <1>7, <2>1 DEF IsWrite, Move
<1>8. CASE r.op = "transfer"
  <2>1. q = Transfer(r.shop, r.to, r.qty)
    BY <1>8 DEF Handler
  <2> HIDE DEF q
  <2> QED
    BY <1>1, <1>2, <1>8, <2>1 DEF IsWrite, Transfer
<1>9. CASE r.op = "borrow"
  <2>1. q = Borrow(c, r.shop, r.qty)
    BY <1>9 DEF Handler
  <2> HIDE DEF q
  <2> QED
    BY <1>1, <1>2, <1>9, <2>1 DEF IsWrite, Borrow
<1>10. CASE r.op = "loan"
  <2>1. q = LoanTxn(r.shop, r.qty)
    BY <1>10 DEF Handler
  <2> HIDE DEF q
  <2> QED
    BY <1>1, <1>2, <1>10, <2>1 DEF IsWrite, LoanTxn
<1>11. CASE r.op = "openLoan"
  <2>1. q = OpenLoan(c, r.qty)
    BY <1>11 DEF Handler
  <2> HIDE DEF q
  <2> QED
    BY <1>1, <1>2, <1>11, <2>1 DEF IsWrite, OpenLoan
<1>12. CASE r.op = "loanEntry"
  <2>1. q = LoanEntry(r.qty)
    BY <1>12 DEF Handler
  <2> HIDE DEF q
  <2> QED
    BY <1>1, <1>2, <1>12, <2>1 DEF IsWrite, LoanEntry
<1> QED
  BY <1>3, <1>4, <1>5, <1>6, <1>7, <1>8, <1>9, <1>10, <1>11, <1>12 DEF OtherOps

LEMMA PostingWrites ==
  ASSUME NEW c, NEW r, r.op \in PostingOps, NEW v,
         NEW k \in 1 .. Len(Handler(c, r, v)), Handler(c, r, v)[k].op \in Writes
  PROVE  IsWrite(Handler(c, r, v)[k], c, r, v)
<1> DEFINE s == Handler(c, r, v)[k]
           n == Len(Effects(c, r, v))
<1>1. s.op \in Writes
  OBVIOUS
<1>2. FrontReads(r) \in 0 .. 4
  BY DEF FrontReads, PostingOps
<1>3. CASE k <= FrontReads(r)
  <2>1. s.op \in Reads
    BY <1>2, <1>3, FrontReadsAre, FrontIsRead
  <2> QED
    BY <1>1, <2>1 DEF Reads, Writes
<1>4. CASE k \in Base(r) + 1 .. Base(r) + n
  <2>1. Posts(r, v) /\ IsEffect(s, c, r, v)
    BY <1>4, EffectPosts, EffectStatements
  <2> HIDE DEF s
  <2>2. IsWrite(s, c, r, v)
    BY <2>1 DEF IsWrite
  <2> QED
    BY <2>2 DEF s
<1>5. CASE k > FrontReads(r) /\ k \notin Base(r) + 1 .. Base(r) + n
  <2>1. Frame(s, k, n, c, r, v)
    BY <1>5, FrameStatements
  <2> HIDE DEF s, n
  <2>2. Begin.op \notin Writes /\ Commit.op \notin Writes
    BY DEF Begin, Commit, Writes
  <2>3. IsWrite(s, c, r, v)
    BY <1>1, <2>1, <2>2 DEF Frame, IsWrite
  <2> QED
    BY <2>3 DEF s
<1> QED
  BY <1>2, <1>3, <1>4, <1>5

LEMMA WritesAre ==
  ASSUME NEW c, NEW r \in Requests, NEW v,
         NEW k \in 1 .. Len(Handler(c, r, v)), Handler(c, r, v)[k].op \in Writes
  PROVE  IsWrite(Handler(c, r, v)[k], c, r, v)
<1>1. r.op \in PostingOps \cup OtherOps
  BY RequestsAssumption DEF Legal, Ops, PostingOps, OtherOps
<1> QED
  BY <1>1, PostingWrites, OtherWrites

(***************************************************************************)
(* The clients and their transactions.                                     *)
(***************************************************************************)

Code(c) == Handler(c, request[c], seen[c])

Now(c) == Code(c)[pc[c]]

From(c) == BeginAt(request[c])

Upto(c) == CommitAt(c, request[c], seen[c])

(* Where a client can be. *)
Shape(c) ==
  /\ mode[c] \in {"idle", "run", "undo", "done", "refused", "victim", "crashed"}
  /\ pc[c] \in Nat \ {0}
  /\ mode[c] = "idle" => pc[c] = 1 /\ request[c] = NoRequest
  /\ mode[c] # "idle" => request[c] \in Requests
  /\ mode[c] = "run" => pc[c] \in 1 .. Len(Code(c))
  /\ mode[c] = "undo" => pc[c] = 1 /\ request[c].op = "convert"
  /\ c \in open <=> mode[c] = "run" /\ From(c) < pc[c] /\ pc[c] <= Upto(c)
  /\ c \notin open => buf[c] = NothingWritten

Shapes ==
  /\ DOMAIN db = Rows /\ open \subseteq Clients
  /\ DOMAIN request = Clients /\ DOMAIN mode = Clients /\ DOMAIN pc = Clients
  /\ DOMAIN seen = Clients /\ DOMAIN buf = Clients
  /\ \A c \in Clients : Shape(c)

(* One step of client c. *)
Same(e) ==
  /\ request'[e] = request[e] /\ mode'[e] = mode[e] /\ pc'[e] = pc[e]
  /\ seen'[e] = seen[e] /\ buf'[e] = buf[e]
  /\ e \in open' <=> e \in open

Alone(c) ==
  /\ \A e \in Clients : e # c => Same(e)
  /\ DOMAIN db' = Rows /\ open' \subseteq Clients
  /\ DOMAIN request' = Clients /\ DOMAIN mode' = Clients /\ DOMAIN pc' = Clients
  /\ DOMAIN seen' = Clients /\ DOMAIN buf' = Clients

Goes(c) ==
  /\ Alone(c) /\ request'[c] = request[c] /\ together' = together
  /\ mode[c] = "run" /\ pc'[c] = pc[c] + 1

EndsOrNot(c) == mode'[c] = IF pc[c] = Len(Code(c)) THEN "done" ELSE "run"

Starts(c) ==
  /\ Alone(c) /\ db' = db /\ mode[c] = "idle" /\ mode'[c] = "run"
  /\ request'[c] \in Requests
  /\ pc'[c] = pc[c] /\ seen'[c] = seen[c] /\ buf'[c] = buf[c] /\ open' = open
  /\ together' = together \cup {{c, e} : e \in {e \in Clients : Active(e)}}

Begins(c) ==
  /\ Goes(c) /\ db' = db /\ seen'[c] = seen[c] /\ buf'[c] = buf[c] /\ mode'[c] = "run"
  /\ Now(c).op = "begin" /\ open' = open \cup {c}

ReadsIt(c) ==
  /\ Goes(c) /\ db' = db /\ buf'[c] = buf[c] /\ open' = open /\ mode'[c] = "run"
  /\ Now(c).op \in Reads
  /\ seen'[c] = With(seen[c], Now(c).row, View(c, Now(c).row))
  /\ Now(c).op = "check" => View(c, Now(c).row) \in Now(c).ok
  /\ Now(c).op = "enough" => ~(View(c, Now(c).row) + Now(c).n < 0)

Value(c, s) == IF s.op = "add" THEN View(c, s.row) + s.n ELSE s.v

MayWrite(c, s) ==
  /\ s.op \in Writes /\ Holders(s.row) \subseteq {c}
  /\ s.op = "claim" => View(c, s.row) = s.from

WritesInside(c) ==
  /\ Goes(c) /\ MayWrite(c, Now(c)) /\ c \in open /\ open' = open
  /\ db' = db /\ seen'[c] = seen[c] /\ mode'[c] = "run"
  /\ buf'[c] = With(buf[c], Now(c).row, Value(c, Now(c)))

WritesAlone(c) ==
  /\ Goes(c) /\ MayWrite(c, Now(c)) /\ c \notin open /\ open' = open
  /\ db' = [db EXCEPT ![Now(c).row] = Value(c, Now(c))]
  /\ buf'[c] = buf[c] /\ seen'[c] = seen[c] /\ EndsOrNot(c)

Commits(c) ==
  /\ Goes(c) /\ Now(c).op = "commit" /\ open' = open \ {c}
  /\ db' = [r \in Rows |-> IF r \in DOMAIN buf[c] THEN buf[c][r] ELSE db[r]]
  /\ buf'[c] = NothingWritten /\ seen'[c] = seen[c] /\ EndsOrNot(c)

Releases(c) ==
  /\ Alone(c) /\ request'[c] = request[c] /\ together' = together
  /\ mode[c] = "undo" /\ mode'[c] = "done" /\ pc'[c] = 2 /\ open' = open
  /\ Holders(Status(request[c].doc)) \subseteq {c}
  /\ db' = [db EXCEPT ![Status(request[c].doc)] = Seen(seen[c], Status(request[c].doc))]
  /\ buf'[c] = buf[c] /\ seen'[c] = seen[c]

Stops(c) ==
  /\ Alone(c) /\ request'[c] = request[c] /\ together' = together
  /\ db' = db /\ buf'[c] = NothingWritten /\ open' = open \ {c} /\ seen'[c] = seen[c]

Fails(c, how) ==
  /\ Stops(c) /\ mode[c] = "run"
  /\ IF Claimed(c) THEN mode'[c] = "undo" /\ pc'[c] = 1 ELSE mode'[c] = how /\ pc'[c] = pc[c]

Refuses(c) == Fails(c, "refused") /\ Now(c).op \in Reads \cup {"claim"}

Loses(c) == Fails(c, "victim") /\ BreakDeadlock(c)

Crashes(c) == Stops(c) /\ Active(c) /\ mode'[c] = "crashed" /\ pc'[c] = pc[c]

AStep(c) ==
  \/ Starts(c) \/ Begins(c) \/ ReadsIt(c) \/ WritesInside(c) \/ WritesAlone(c) \/ Commits(c)
  \/ Releases(c) \/ Refuses(c) \/ Loses(c) \/ Crashes(c)

(* Where the statement at hand stands. *)
LEMMA NowPlaced ==
  ASSUME Shapes, NEW c \in Clients, mode[c] = "run"
  PROVE  /\ request[c] \in Requests /\ pc[c] \in 1 .. Len(Code(c)) /\ Len(Code(c)) \in Nat
         /\ WellPlaced(Code(c), c, request[c], seen[c])
         /\ Placed(Now(c), pc[c], c, request[c], seen[c])
         /\ From(c) \in Nat /\ Upto(c) \in Nat /\ Upto(c) <= Len(Code(c))
         /\ c \in open <=> From(c) < pc[c] /\ pc[c] <= Upto(c)
<1>1. request[c] \in Requests /\ pc[c] \in 1 .. Len(Code(c))
  BY DEF Shapes, Shape
<1>2. WellPlaced(Code(c), c, request[c], seen[c])
  BY <1>1, HandlersPlaced DEF Code
<1>3. c \in open <=> From(c) < pc[c] /\ pc[c] <= Upto(c)
  BY DEF Shapes, Shape
<1> QED
  BY <1>1, <1>2, <1>3 DEF WellPlaced, Now, From, Upto

LEMMA UndoPlaced ==
  ASSUME Shapes, NEW c \in Clients, mode[c] = "undo"
  PROVE  /\ request[c] \in Requests /\ request[c].op = "convert" /\ request[c].doc \in GivenDocs
         /\ pc[c] = 1 /\ c \notin open
         /\ Script(c) = <<Put(Status(request[c].doc), Seen(seen[c], Status(request[c].doc)))>>
<1>1. request[c] \in Requests /\ request[c].op = "convert" /\ pc[c] = 1 /\ c \notin open
  BY DEF Shapes, Shape
<1>2. request[c].doc \in GivenDocs
  BY <1>1, RequestsAssumption DEF Legal
<1> QED
  BY <1>1, <1>2 DEF Script, Release

(* What a step of Next is. *)
LEMMA StepFails ==
  ASSUME Shapes, NEW c \in Clients, mode[c] = "run", NEW how, Fail(c, how),
         UNCHANGED <<request, together>>
  PROVE  Fails(c, how)
BY DEF Fails, Stops, Fail, RollBack, Alone, Same, Shapes

LEMMA StepSteps ==
  ASSUME Shapes, NEW c \in Clients, Step(c)
  PROVE  AStep(c)
<1> DEFINE script == Script(c)
           s == script[pc[c]]
<1>1. Active(c) /\ Execute(c, s, pc[c] = Len(script)) /\ UNCHANGED <<request, together>>
  BY DEF Step
<1>2. CASE mode[c] = "undo"
  <2> DEFINE row == Status(request[c].doc)
             x == Seen(seen[c], Status(request[c].doc))
  <2>1. script = <<Put(row, x)>> /\ pc[c] = 1 /\ c \notin open
    BY <1>2, UndoPlaced
  <2>2. s = Put(row, x) /\ pc[c] = Len(script)
    BY <2>1
  <2> HIDE DEF s, script, row, x
  <2>3. s.op = "put" /\ s.row = row /\ s.v = x
    BY <2>2 DEF Put
  <2>4. WriteRow(c, s, TRUE)
    BY <1>1, <2>2, <2>3 DEF Execute, Writes
  <2>5. Releases(c)
    BY <1>1, <1>2, <2>1, <2>3, <2>4
       DEF WriteRow, Releases, Alone, Same, Shapes, Advance, row, x
  <2> QED
    BY <2>5 DEF AStep
<1>3. CASE mode[c] = "run"
  <2>1. script = Code(c) /\ s = Now(c)
    BY <1>3 DEF Script, Code, Now
  <2> HIDE DEF s, script
  <2>2. Placed(s, pc[c], c, request[c], seen[c]) /\ Upto(c) <= Len(script)
        /\ pc[c] \in 1 .. Len(script) /\ Len(script) \in Nat /\ Upto(c) \in Nat /\ From(c) \in Nat
        /\ (c \in open <=> From(c) < pc[c] /\ pc[c] <= Upto(c))
    BY <1>3, <2>1, NowPlaced
  <2>3. CASE s.op = "begin"
    <3>1. BeginTransaction(c)
      BY <1>1, <2>3 DEF Execute, Writes
    <3>2. Begins(c)
      BY <1>1, <1>3, <2>1, <2>3, <3>1
         DEF BeginTransaction, Begins, Goes, Alone, Same, Shapes, Advance
    <3> QED
      BY <3>2 DEF AStep
  <2>4. CASE s.op = "commit"
    <3>1. CommitAll(c, pc[c] = Len(script))
      BY <1>1, <2>4 DEF Execute, Writes
    <3>2. Commits(c)
      BY <1>1, <1>3, <2>1, <2>4, <3>1
         DEF CommitAll, RollBack, Commits, Goes, Alone, Same, Shapes, Advance, EndsOrNot
    <3> QED
      BY <3>2 DEF AStep
  <2>5. CASE s.op \in Writes
    <3>1. WriteRow(c, s, pc[c] = Len(script))
      BY <1>1, <2>5 DEF Execute, Writes
    <3>2. CASE s.op = "claim" /\ View(c, s.row) # s.from
      <4>1. Fails(c, "refused")
        BY <1>1, <1>3, <3>1, <3>2, StepFails DEF WriteRow
      <4> QED
        BY <2>1, <3>2, <4>1 DEF AStep, Refuses
    <3>3. CASE ~(s.op = "claim" /\ View(c, s.row) # s.from)
      <4>1. MayWrite(c, s)
        BY <2>5, <3>1, <3>3 DEF MayWrite, WriteRow
      <4>2. CASE c \in open
        <5>1. s.op \in Writes => pc[c] # Upto(c)
          BY <2>2 DEF Placed, Upto, Writes
        <5>2. pc[c] < Len(script)
          BY <2>2, <2>5, <4>2, <5>1
        <5>3. mode' = mode
          BY <3>1, <3>3, <5>2, <2>2 DEF WriteRow, Advance
        <5>4. WritesInside(c)
          BY <1>1, <1>3, <2>1, <3>1, <3>3, <4>1, <4>2, <5>3
             DEF WriteRow, WritesInside, Value, Goes, Alone, Same, Shapes, Advance
        <5> QED
          BY <5>4 DEF AStep
      <4>3. CASE c \notin open
        <5>1. WritesAlone(c)
          BY <1>1, <1>3, <2>1, <3>1, <3>3, <4>1, <4>3
             DEF WriteRow, WritesAlone, Value, Goes, Alone, Same, Shapes, Advance, EndsOrNot
        <5> QED
          BY <5>1 DEF AStep
      <4> QED
        BY <4>2, <4>3
    <3> QED
      BY <3>2, <3>3
  <2>6. CASE s.op \in Reads
    <3>1. ReadRow(c, s, pc[c] = Len(script))
      BY <1>1, <2>6 DEF Execute, Writes, Reads
    <3>2. CASE \/ s.op = "check" /\ View(c, s.row) \notin s.ok
               \/ s.op = "enough" /\ View(c, s.row) + s.n < 0
      <4>1. Fails(c, "refused")
        BY <1>1, <1>3, <3>1, <3>2, StepFails DEF ReadRow
      <4> QED
        BY <2>1, <2>6, <4>1 DEF AStep, Refuses
    <3>3. CASE ~(\/ s.op = "check" /\ View(c, s.row) \notin s.ok
                 \/ s.op = "enough" /\ View(c, s.row) + s.n < 0)
      <4>1. pc[c] < Len(script)
        BY <2>2, <2>6 DEF Placed, Upto
      <4>2. mode' = mode
        BY <3>1, <3>3, <4>1, <2>2 DEF ReadRow, Advance
      <4>3. ReadsIt(c)
        BY <1>1, <1>3, <2>1, <2>6, <3>1, <3>3, <4>2
           DEF ReadRow, ReadsIt, Goes, Alone, Same, Shapes, Advance
      <4> QED
        BY <4>3 DEF AStep
    <3> QED
      BY <3>2, <3>3
  <2> QED
    BY <2>2, <2>3, <2>4, <2>5, <2>6 DEF Placed
<1> QED
  BY <1>1, <1>2, <1>3 DEF Active

LEMMA NextSteps ==
  ASSUME Shapes, [Next]_vars
  PROVE  UNCHANGED vars \/ \E c \in Clients : AStep(c)
<1>1. ASSUME NEW c \in Clients, Start(c)
      PROVE  AStep(c)
  <2>1. Starts(c)
    BY <1>1 DEF Start, Starts, Alone, Same, Shapes
  <2> QED
    BY <2>1 DEF AStep
<1>2. ASSUME NEW c \in Clients, BreakDeadlock(c)
      PROVE  AStep(c)
  <2>1. Active(c) /\ Held(c) # {} /\ Fail(c, "victim") /\ UNCHANGED <<request, together>>
    BY <1>2 DEF BreakDeadlock
  <2>2. buf[c] # NothingWritten
    BY <2>1 DEF Held, NothingWritten
  <2>3. mode[c] = "run"
    BY <2>2 DEF Shapes, Shape
  <2>4. Fails(c, "victim")
    BY <2>1, <2>3, StepFails
  <2> QED
    BY <1>2, <2>4 DEF AStep, Loses
<1>3. ASSUME NEW c \in Clients, Crash(c)
      PROVE  AStep(c)
  <2>1. Crashes(c)
    BY <1>3 DEF Crash, RollBack, Crashes, Stops, Alone, Same, Shapes
  <2> QED
    BY <2>1 DEF AStep
<1> QED
  BY <1>1, <1>2, <1>3, StepSteps DEF Next, Finished

LEMMA CodeSame ==
  ASSUME NEW c, request'[c] = request[c], seen'[c] = seen[c]
  PROVE  Code(c)' = Code(c) /\ Upto(c)' = Upto(c) /\ From(c)' = From(c)
BY DEF Code, Upto, From

LEMMA CodeKept ==
  ASSUME Shapes, NEW c \in Clients, ReadsIt(c)
  PROVE  /\ From(c)' = From(c) /\ pc[c] < Upto(c)' /\ Upto(c)' \in Nat
         /\ Upto(c)' <= Len(Code(c)') /\ Len(Code(c)') \in Nat
         /\ \A j \in 1 .. pc[c] : Code(c)'[j] = Code(c)[j]
<1>1. /\ request[c] \in Requests /\ pc[c] \in 1 .. Len(Code(c)) /\ Now(c).op \in Reads
      /\ request'[c] = request[c] /\ seen'[c] = With(seen[c], Now(c).row, View(c, Now(c).row))
  BY NowPlaced DEF ReadsIt, Goes
<1>2. HandlerKept(c, request[c], seen[c], seen'[c], pc[c])
  BY <1>1, HandlersStable DEF Code, Now
<1>3. WellPlaced(Handler(c, request[c], seen'[c]), c, request[c], seen'[c])
  BY <1>1, HandlersPlaced
<1>4. Code(c)' = Handler(c, request[c], seen'[c]) /\ Upto(c)' = CommitAt(c, request[c], seen'[c])
  BY <1>1 DEF Code, Upto
<1>5. From(c)' = From(c)
  BY <1>1 DEF From
<1> QED
  BY <1>2, <1>3, <1>4, <1>5 DEF HandlerKept, WellPlaced, Code

LEMMA ShapeOthers ==
  ASSUME Shapes, NEW c \in Clients, Alone(c), NEW e \in Clients, e # c
  PROVE  Shape(e)'
<1>1. Same(e) /\ Shape(e)
  BY DEF Alone, Shapes
<1>2. Code(e)' = Code(e) /\ Upto(e)' = Upto(e) /\ From(e)' = From(e)
  BY <1>1, CodeSame DEF Same
<1> QED
  BY <1>1, <1>2 DEF Same, Shape

LEMMA ShapesInit == Init => Shapes
<1> SUFFICES ASSUME Init PROVE Shapes
  OBVIOUS
<1>1. \A c \in Clients : Shape(c)
  BY DEF Init, Shape
<1> QED
  BY <1>1 DEF Init, Shapes

LEMMA ShapesStep ==
  ASSUME Shapes, NEW c \in Clients, AStep(c)
  PROVE  Shapes'
<1>1. Alone(c)
  BY DEF AStep, Starts, Begins, ReadsIt, WritesInside, WritesAlone, Commits, Releases, Refuses,
         Loses, Crashes, Goes, Fails, Stops
<1>2. SUFFICES Shape(c)'
  BY <1>1, ShapeOthers DEF Shapes, Alone
<1>3. Shape(c)
  BY DEF Shapes
<1>4. CASE Starts(c)
  <2>1. /\ request'[c] \in Requests /\ pc'[c] = 1 /\ mode'[c] = "run" /\ mode[c] = "idle"
        /\ open' = open /\ buf'[c] = buf[c]
    BY <1>3, <1>4 DEF Starts, Shape
  <2>2. c \notin open /\ buf[c] = NothingWritten
    BY <1>3, <2>1 DEF Shape
  <2>3. WellPlaced(Handler(c, request'[c], seen'[c]), c, request'[c], seen'[c])
    BY <2>1, HandlersPlaced
  <2>4. /\ Len(Code(c)') \in Nat \ {0} /\ From(c)' \in Nat /\ Upto(c)' \in Nat
        /\ request'[c].op # "count" => 0 < From(c)'
        /\ request'[c].op = "count" => From(c)' = 0 /\ Upto(c)' = 0
    BY <2>3 DEF WellPlaced, Code, From, Upto
  <2>5. ~(From(c)' < 1 /\ 1 <= Upto(c)') /\ 1 \in 1 .. Len(Code(c)')
    BY <2>4
  <2> QED
    BY <2>1, <2>2, <2>5 DEF Shape
<1>5. CASE mode[c] = "run" /\ (Begins(c) \/ ReadsIt(c) \/ WritesInside(c) \/ WritesAlone(c) \/ Commits(c))
  <2> DEFINE n == Len(Code(c))
  <2>1. /\ request[c] \in Requests /\ pc[c] \in 1 .. n /\ n \in Nat
        /\ Placed(Now(c), pc[c], c, request[c], seen[c])
        /\ From(c) \in Nat /\ Upto(c) \in Nat /\ Upto(c) <= n
        /\ c \in open <=> From(c) < pc[c] /\ pc[c] <= Upto(c)
    BY <1>5, NowPlaced
  <2>2. request'[c] = request[c] /\ pc'[c] = pc[c] + 1
    BY <1>5 DEF Begins, ReadsIt, WritesInside, WritesAlone, Commits, Goes
  <2>3. c \notin open => buf[c] = NothingWritten
    BY <1>3 DEF Shape
  <2>4. WellPlaced(Code(c), c, request[c], seen[c])
    BY <1>5, NowPlaced
  <2>5. request[c].op # "count" => From(c) < Upto(c)
    BY <2>4 DEF WellPlaced, From, Upto
  <2>6. request[c].op = "count" => From(c) = 0 /\ Upto(c) = 0
    BY <2>4 DEF WellPlaced, From, Upto
  <2>7. CASE ReadsIt(c)
    <3>1. /\ From(c)' = From(c) /\ pc[c] < Upto(c)' /\ Upto(c)' \in Nat
          /\ Upto(c)' <= Len(Code(c)') /\ Len(Code(c)') \in Nat
      BY <2>7, CodeKept
    <3>2. /\ mode'[c] = "run" /\ open' = open /\ buf'[c] = buf[c] /\ Now(c).op \in Reads
      BY <2>7 DEF ReadsIt
    <3>3. pc'[c] \in 1 .. Len(Code(c)') /\ pc'[c] <= Upto(c)'
      BY <2>1, <2>2, <3>1
    <3>4. pc[c] # From(c) /\ pc[c] < Upto(c)
      BY <2>1, <3>2 DEF Placed, Reads, From, Upto
    <3>5. c \in open' <=> From(c)' < pc'[c] /\ pc'[c] <= Upto(c)'
      BY <2>1, <2>2, <3>1, <3>2, <3>3, <3>4
    <3> QED
      BY <2>1, <2>2, <2>3, <3>2, <3>3, <3>5 DEF Shape
  <2>8. CASE Begins(c) \/ WritesInside(c) \/ WritesAlone(c) \/ Commits(c)
    <3>1. seen'[c] = seen[c]
      BY <2>8 DEF Begins, WritesInside, WritesAlone, Commits
    <3>2. Code(c)' = Code(c) /\ Upto(c)' = Upto(c) /\ From(c)' = From(c)
      BY <2>2, <3>1, CodeSame
    <3>3. CASE Begins(c)
      <4>1. pc[c] = From(c) /\ Now(c).op = "begin"
        BY <2>1, <3>3 DEF Begins, Placed, From
      <4>2. /\ mode'[c] = "run" /\ c \in open' /\ buf'[c] = buf[c]
        BY <3>3 DEF Begins
      <4>3. request[c].op # "count"
        BY <2>1, <2>6, <4>1
      <4>4. pc[c] < Upto(c)
        BY <2>5, <4>1, <4>3
      <4>5. pc'[c] \in 1 .. n /\ From(c) < pc'[c] /\ pc'[c] <= Upto(c)
        BY <2>1, <2>2, <4>1, <4>4
      <4> HIDE DEF n
      <4> QED
        BY <2>1, <2>2, <3>2, <4>2, <4>5 DEF Shape, n
    <3>4. CASE WritesInside(c)
      <4>1. mode'[c] = "run" /\ c \in open' /\ c \in open /\ Now(c).op \in Writes
        BY <3>4 DEF WritesInside, MayWrite
      <4>2. pc[c] # Upto(c)
        BY <2>1, <4>1 DEF Placed, Upto, Writes
      <4>3. pc'[c] \in 1 .. n /\ From(c) < pc'[c] /\ pc'[c] <= Upto(c)
        BY <2>1, <2>2, <4>1, <4>2
      <4> HIDE DEF n
      <4> QED
        BY <2>1, <2>2, <3>2, <4>1, <4>3 DEF Shape, n
    <3>5. CASE WritesAlone(c) \/ Commits(c)
      <4>1. mode'[c] = IF pc[c] = n THEN "done" ELSE "run"
        BY <3>5 DEF WritesAlone, Commits, EndsOrNot
      <4>2. c \notin open' /\ buf'[c] = NothingWritten
        BY <2>3, <3>5 DEF WritesAlone, Commits
      <4>3. ~(From(c) < pc'[c] /\ pc'[c] <= Upto(c))
        <5>1. CASE WritesAlone(c)
          <6>1. c \notin open /\ Now(c).op \in Writes
            BY <5>1 DEF WritesAlone, MayWrite
          <6>2. pc[c] # From(c)
            BY <2>1, <6>1 DEF Placed, From, Writes
          <6> QED
            BY <2>1, <2>2, <6>1, <6>2
        <5>2. CASE Commits(c)
          <6>1. pc[c] = Upto(c)
            BY <2>1, <5>2 DEF Commits, Placed, Upto
          <6> QED
            BY <2>1, <2>2, <6>1
        <5> QED
          BY <3>5, <5>1, <5>2
      <4>4. mode'[c] = "run" => pc'[c] \in 1 .. n
        BY <2>1, <2>2, <4>1
      <4>5. pc'[c] \in Nat \ {0}
        BY <2>1, <2>2
      <4> HIDE DEF n
      <4> QED
        BY <2>1, <2>2, <3>2, <4>1, <4>2, <4>3, <4>4, <4>5 DEF Shape, n
    <3> QED
      BY <2>8, <3>3, <3>4, <3>5
  <2> QED
    BY <1>5, <2>7, <2>8
<1>6. CASE Releases(c)
  <2>1. request[c] \in Requests /\ c \notin open
    BY <1>6, UndoPlaced DEF Releases
  <2>2. buf[c] = NothingWritten
    BY <1>3, <2>1 DEF Shape
  <2>3. /\ request'[c] = request[c] /\ mode'[c] = "done" /\ pc'[c] = 2 /\ open' = open
        /\ buf'[c] = buf[c]
    BY <1>6 DEF Releases
  <2> QED
    BY <2>1, <2>2, <2>3 DEF Shape
<1>7. CASE Refuses(c) \/ Loses(c)
  <2>1. /\ request'[c] = request[c] /\ buf'[c] = NothingWritten /\ open' = open \ {c}
        /\ mode[c] = "run"
        /\ \/ mode'[c] = "undo" /\ pc'[c] = 1 /\ Claimed(c)
           \/ mode'[c] \in {"refused", "victim"} /\ pc'[c] = pc[c]
    BY <1>7 DEF Refuses, Loses, Fails, Stops
  <2>2. Claimed(c) => request[c].op = "convert"
    BY DEF Claimed
  <2> QED
    BY <1>3, <2>1, <2>2 DEF Shape
<1>8. CASE Crashes(c)
  <2>1. /\ request'[c] = request[c] /\ buf'[c] = NothingWritten /\ open' = open \ {c}
        /\ Active(c) /\ mode'[c] = "crashed" /\ pc'[c] = pc[c]
    BY <1>8 DEF Crashes, Stops
  <2> QED
    BY <1>3, <2>1 DEF Shape, Active
<1> QED
  BY <1>4, <1>5, <1>6, <1>7, <1>8 DEF AStep, Begins, ReadsIt, WritesInside, WritesAlone, Commits, Goes

LEMMA ShapesSame ==
  ASSUME Shapes, UNCHANGED vars
  PROVE  Shapes'
BY DEF Shapes, Shape, vars, Code, From, Upto

(***************************************************************************)
(* What an open transaction has written, and the rows it keeps.            *)
(***************************************************************************)

Written(c, k) == k \in Nat /\ From(c) < k /\ k < pc[c] /\ Code(c)[k].op \in Writes

Buffer(c) ==
  /\ \A k : Written(c, k) => Code(c)[k].row \in DOMAIN buf[c]
  /\ \A row \in DOMAIN buf[c] :
       \E k : /\ Written(c, k) /\ Code(c)[k].row = row
              /\ Code(c)[k].op # "add" => buf[c][row] = Code(c)[k].v
  /\ \A k : /\ Written(c, k) /\ Code(c)[k].op = "add"
            /\ \A j : Written(c, j) /\ j # k => Code(c)[j].row # Code(c)[k].row
            => buf[c][Code(c)[k].row] = db[Code(c)[k].row] + Code(c)[k].n
  /\ \A k : /\ Written(c, k) /\ Code(c)[k].op = "claim"
            /\ \A j : Written(c, j) /\ j < k => Code(c)[j].row # Code(c)[k].row
            => db[Code(c)[k].row] = Code(c)[k].from

Buffers == \A c \in Clients : c \in open => Buffer(c)

(* No two transactions keep one row. *)
Apart ==
  \A c, e \in Clients : c # e =>
    \A x \in DOMAIN buf[c], y \in DOMAIN buf[e] : LockOf(x) # LockOf(y)

Kept == Shapes /\ Buffers /\ Apart

LEMMA ViewOfRow ==
  ASSUME NEW c, NEW row \in Rows
  PROVE  View(c, row) = IF row \in DOMAIN buf[c] THEN buf[c][row] ELSE db[row]
<1>1. row[1] \notin {"returned", "received", "linked", "owed"}
  BY DEF Rows, Stock, Level, Money, Seq_, Party, Loan, Status, Deleted, Paid, Allocated, Cheque
<1> QED
  BY <1>1 DEF View

LEMMA BufferRows ==
  ASSUME Kept, NEW c \in Clients, NEW row \in DOMAIN buf[c]
  PROVE  /\ c \in open /\ mode[c] = "run" /\ row \in Rows
         /\ \E k \in 1 .. Len(Code(c)) :
              /\ Written(c, k) /\ Code(c)[k].row = row /\ k < pc[c] /\ k < Upto(c)
              /\ Code(c)[k].op # "add" => buf[c][row] = Code(c)[k].v
              /\ IsWrite(Code(c)[k], c, request[c], seen[c])
<1>1. c \in open
  BY DEF Kept, Shapes, Shape, NothingWritten
<1>2. mode[c] = "run" /\ pc[c] <= Upto(c)
  BY <1>1 DEF Kept, Shapes, Shape
<1>3. PICK k : /\ Written(c, k) /\ Code(c)[k].row = row
               /\ Code(c)[k].op # "add" => buf[c][row] = Code(c)[k].v
  BY <1>1 DEF Kept, Buffers, Buffer
<1>4. /\ request[c] \in Requests /\ pc[c] \in 1 .. Len(Code(c)) /\ Len(Code(c)) \in Nat
      /\ WellPlaced(Code(c), c, request[c], seen[c]) /\ From(c) \in Nat /\ Upto(c) \in Nat
  BY <1>2, NowPlaced DEF Kept
<1>5. k \in 1 .. Len(Code(c)) /\ k < pc[c] /\ k < Upto(c)
  BY <1>2, <1>3, <1>4 DEF Written
<1>6. Placed(Code(c)[k], k, c, request[c], seen[c])
  BY <1>4, <1>5 DEF WellPlaced
<1>7. row \in Rows
  BY <1>3, <1>6 DEF Placed, Written
<1>8. IsWrite(Code(c)[k], c, request[c], seen[c])
  BY <1>3, <1>4, <1>5, WritesAre DEF Code, Written
<1> QED
  BY <1>1, <1>2, <1>3, <1>5, <1>7, <1>8

(* The rows of a transaction stay as they are until it ends. *)
LEMMA Undisturbed ==
  ASSUME Kept, NEW e \in Clients, AStep(e), NEW c \in Clients, c # e,
         NEW row \in DOMAIN buf[c]
  PROVE  db'[row] = db[row]
<1>1. row \in Rows
  BY BufferRows
<1>2. \A other : Holders(other) \subseteq {e} => other # row
  <2> SUFFICES ASSUME Holders(row) \subseteq {e} PROVE FALSE
    OBVIOUS
  <2>1. c \in Holders(row)
    BY DEF Holders, Held
  <2> QED
    BY <2>1
<1>3. DOMAIN db = Rows
  BY DEF Kept, Shapes
<1>4. row \notin DOMAIN buf[e]
  BY DEF Kept, Apart
<1>5. CASE WritesAlone(e)
  BY <1>1, <1>2, <1>3, <1>5 DEF WritesAlone, MayWrite
<1>6. CASE Releases(e)
  BY <1>1, <1>2, <1>3, <1>6 DEF Releases
<1>7. CASE Commits(e)
  BY <1>1, <1>4, <1>7 DEF Commits
<1> QED
  BY <1>5, <1>6, <1>7 DEF AStep, Starts, Begins, ReadsIt, WritesInside, Refuses, Loses, Crashes,
                          Fails, Stops

LEMMA BufferOthers ==
  ASSUME Kept, NEW e \in Clients, AStep(e), NEW c \in Clients, c # e, c \in open'
  PROVE  Buffer(c)'
<1>1. Alone(e)
  BY DEF AStep, Starts, Begins, ReadsIt, WritesInside, WritesAlone, Commits, Releases, Refuses,
         Loses, Crashes, Goes, Fails, Stops
<1>2. Same(c)
  BY <1>1 DEF Alone
<1>3. Code(c)' = Code(c) /\ Upto(c)' = Upto(c) /\ From(c)' = From(c)
  BY <1>2, CodeSame DEF Same
<1>4. Buffer(c) /\ buf'[c] = buf[c] /\ pc'[c] = pc[c]
  BY <1>2 DEF Same, Kept, Buffers
<1>5. \A k : Written(c, k)' <=> Written(c, k)
  BY <1>3, <1>4 DEF Written
<1>6. \A k : Written(c, k) => db'[Code(c)[k].row] = db[Code(c)[k].row]
  BY <1>4, Undisturbed DEF Buffer
<1> QED
  BY <1>3, <1>4, <1>5, <1>6 DEF Buffer

LEMMA BufferOwn ==
  ASSUME Kept, NEW c \in Clients, AStep(c), c \in open'
  PROVE  Buffer(c)'
<1>1. CASE Begins(c)
  <2>1. mode[c] = "run" /\ seen'[c] = seen[c] /\ request'[c] = request[c] /\ pc'[c] = pc[c] + 1
    BY <1>1 DEF Begins, Goes
  <2>2. From(c)' = From(c) /\ pc[c] = From(c) /\ pc[c] \in Nat /\ c \notin open
    <3>1. /\ Placed(Now(c), pc[c], c, request[c], seen[c]) /\ pc[c] \in 1 .. Len(Code(c))
          /\ From(c) \in Nat /\ Len(Code(c)) \in Nat
          /\ (c \in open <=> From(c) < pc[c] /\ pc[c] <= Upto(c))
      BY <2>1, NowPlaced DEF Kept
    <3>2. Now(c).op = "begin"
      BY <1>1 DEF Begins
    <3>3. pc[c] = From(c)
      BY <3>1, <3>2 DEF Placed, From
    <3> QED
      BY <2>1, <3>1, <3>3, CodeSame
  <2>3. \A k : ~Written(c, k)'
    BY <2>1, <2>2 DEF Written
  <2>4. buf'[c] = NothingWritten
    BY <1>1, <2>2 DEF Begins, Kept, Shapes, Shape
  <2> QED
    BY <2>3, <2>4 DEF Buffer, NothingWritten
<1>2. CASE ReadsIt(c)
  <2>1. /\ mode[c] = "run" /\ pc'[c] = pc[c] + 1 /\ c \in open /\ buf'[c] = buf[c] /\ db' = db
        /\ Now(c).op \in Reads
    BY <1>2 DEF ReadsIt, Goes
  <2>2. From(c)' = From(c) /\ \A j \in 1 .. pc[c] : Code(c)'[j] = Code(c)[j]
    BY <1>2, CodeKept DEF Kept
  <2>3. pc[c] \in Nat /\ From(c) \in Nat
    BY <2>1, NowPlaced DEF Kept
  <2>4. \A k : Written(c, k)' <=> Written(c, k)
    <3> TAKE k
    <3>1. CASE k = pc[c]
      <4>1. pc[c] \in 1 .. pc[c]
        BY <2>1, NowPlaced DEF Kept
      <4>2. Code(c)'[k].op \in Reads
        BY <2>1, <2>2, <3>1, <4>1 DEF Now
      <4>3. ~Written(c, k)' /\ ~Written(c, k)
        BY <2>3, <3>1, <4>2 DEF Written, Reads, Writes
      <4> QED
        BY <4>3
    <3>2. CASE k \in Nat /\ From(c) < k /\ k < pc[c]
      <4>1. k \in 1 .. pc[c] /\ k < pc'[c]
        BY <2>1, <2>3, <3>2
      <4> QED
        BY <2>2, <3>2, <4>1 DEF Written
    <3>3. CASE ~(k \in Nat /\ From(c) < k /\ k < pc[c]) /\ k # pc[c]
      <4>1. ~(k \in Nat /\ From(c) < k /\ k < pc'[c])
        BY <2>1, <2>3, <3>3
      <4> QED
        BY <2>2, <3>3, <4>1 DEF Written
    <3> QED
      BY <3>1, <3>2, <3>3
  <2>5. \A k : Written(c, k) => Code(c)'[k] = Code(c)[k]
    BY <2>2, <2>3 DEF Written
  <2>6. Buffer(c)
    BY <2>1 DEF Kept, Buffers
  <2> QED
    BY <2>1, <2>4, <2>5, <2>6 DEF Buffer
<1>3. CASE WritesInside(c)
  <2> DEFINE s == Now(c)
             x == Value(c, s)
  <2>1. /\ mode[c] = "run" /\ pc'[c] = pc[c] + 1 /\ c \in open /\ db' = db
        /\ s.op \in Writes /\ buf'[c] = With(buf[c], s.row, x)
        /\ seen'[c] = seen[c] /\ request'[c] = request[c]
        /\ s.op = "claim" => View(c, s.row) = s.from
    BY <1>3 DEF WritesInside, Goes, MayWrite
  <2>2. Code(c)' = Code(c) /\ From(c)' = From(c)
    BY <2>1, CodeSame
  <2>3. /\ pc[c] \in Nat /\ From(c) \in Nat /\ From(c) < pc[c]
        /\ Placed(s, pc[c], c, request[c], seen[c])
    BY <2>1, NowPlaced DEF Kept
  <2>4. s = Code(c)[pc[c]]
    BY DEF Now
  <2> HIDE DEF s, x
  <2>5. \A k : Written(c, k)' <=> (Written(c, k) \/ k = pc[c])
    <3> TAKE k
    <3>1. CASE k = pc[c]
      BY <2>1, <2>2, <2>3, <2>4, <3>1 DEF Written
    <3>2. CASE k # pc[c]
      <4>1. k \in Nat => (k < pc'[c] <=> k < pc[c])
        BY <2>1, <2>3, <3>2
      <4> QED
        BY <2>2, <3>2, <4>1 DEF Written
    <3> QED
      BY <3>1, <3>2
  <2>6. s.row \in Rows
    BY <2>1, <2>3 DEF Placed
  <2>7. Buffer(c)
    BY <2>1 DEF Kept, Buffers
  <2>8. /\ DOMAIN buf'[c] = DOMAIN buf[c] \cup {s.row} /\ buf'[c][s.row] = x
        /\ \A r \in DOMAIN buf[c] : r # s.row => buf'[c][r] = buf[c][r]
    <3>1. buf'[c] = With(buf[c], s.row, x)
      BY <2>1
    <3> QED
      BY <3>1 DEF With
  <2>9. \A k : Written(c, k) => k < pc[c]
    BY DEF Written
  <2>10. s.row \notin DOMAIN buf[c] => View(c, s.row) = db[s.row]
    BY <2>6, ViewOfRow
  <2>11. \A k : Written(c, k)' => Code(c)[k].row \in DOMAIN buf'[c]
    BY <2>4, <2>5, <2>7, <2>8 DEF Buffer
  <2>12. \A row \in DOMAIN buf'[c] :
           \E k : /\ Written(c, k)' /\ Code(c)[k].row = row
                  /\ Code(c)[k].op # "add" => buf'[c][row] = Code(c)[k].v
    <3> TAKE row \in DOMAIN buf'[c]
    <3>1. CASE row = s.row
      <4>1. s.op # "add" => x = s.v
        BY DEF x, Value
      <4> QED
        BY <2>4, <2>5, <2>8, <3>1, <4>1
    <3>2. CASE row # s.row
      <4>1. row \in DOMAIN buf[c] /\ buf'[c][row] = buf[c][row]
        BY <2>8, <3>2
      <4>2. PICK k : /\ Written(c, k) /\ Code(c)[k].row = row
                     /\ Code(c)[k].op # "add" => buf[c][row] = Code(c)[k].v
        BY <2>7, <4>1 DEF Buffer
      <4> QED
        BY <2>5, <4>1, <4>2
    <3> QED
      BY <3>1, <3>2
  <2>13. \A k : /\ Written(c, k)' /\ Code(c)[k].op = "add"
                /\ \A j : Written(c, j)' /\ j # k => Code(c)[j].row # Code(c)[k].row
                => buf'[c][Code(c)[k].row] = db[Code(c)[k].row] + Code(c)[k].n
    <3> SUFFICES ASSUME NEW k, Written(c, k)', Code(c)[k].op = "add",
                        \A j : Written(c, j)' /\ j # k => Code(c)[j].row # Code(c)[k].row
                 PROVE  buf'[c][Code(c)[k].row] = db[Code(c)[k].row] + Code(c)[k].n
      OBVIOUS
    <3>1. CASE k = pc[c]
      <4>1. s.row \notin DOMAIN buf[c]
        <5> SUFFICES ASSUME s.row \in DOMAIN buf[c] PROVE FALSE
          OBVIOUS
        <5>1. PICK j : Written(c, j) /\ Code(c)[j].row = s.row
          BY <2>7 DEF Buffer
        <5>2. j # k
          BY <2>3, <2>9, <3>1, <5>1
        <5> QED
          BY <2>4, <2>5, <3>1, <5>1, <5>2
      <4>2. x = db[s.row] + s.n
        BY <2>4, <2>10, <3>1, <4>1 DEF x, Value
      <4> QED
        BY <2>4, <2>8, <3>1, <4>2
    <3>2. CASE k # pc[c]
      <4>1. Written(c, k)
        BY <2>5, <3>2
      <4>2. s.row # Code(c)[k].row
        BY <2>4, <2>5, <3>2
      <4>3. \A j : Written(c, j) /\ j # k => Code(c)[j].row # Code(c)[k].row
        BY <2>5
      <4>4. buf[c][Code(c)[k].row] = db[Code(c)[k].row] + Code(c)[k].n
        BY <2>7, <4>1, <4>3 DEF Buffer
      <4>5. Code(c)[k].row \in DOMAIN buf[c]
        BY <2>7, <4>1 DEF Buffer
      <4> QED
        BY <2>8, <4>2, <4>4, <4>5
    <3> QED
      BY <3>1, <3>2
  <2>14. \A k : /\ Written(c, k)' /\ Code(c)[k].op = "claim"
                /\ \A j : Written(c, j)' /\ j < k => Code(c)[j].row # Code(c)[k].row
                => db[Code(c)[k].row] = Code(c)[k].from
    <3> SUFFICES ASSUME NEW k, Written(c, k)', Code(c)[k].op = "claim",
                        \A j : Written(c, j)' /\ j < k => Code(c)[j].row # Code(c)[k].row
                 PROVE  db[Code(c)[k].row] = Code(c)[k].from
      OBVIOUS
    <3>1. CASE k = pc[c]
      <4>1. s.row \notin DOMAIN buf[c]
        <5> SUFFICES ASSUME s.row \in DOMAIN buf[c] PROVE FALSE
          OBVIOUS
        <5>1. PICK j : Written(c, j) /\ Code(c)[j].row = s.row
          BY <2>7 DEF Buffer
        <5>2. j < k
          BY <2>9, <3>1, <5>1
        <5> QED
          BY <2>4, <2>5, <3>1, <5>1, <5>2
      <4> QED
        BY <2>1, <2>4, <2>10, <3>1, <4>1
    <3>2. CASE k # pc[c]
      <4>1. Written(c, k)
        BY <2>5, <3>2
      <4>2. \A j : Written(c, j) /\ j < k => Code(c)[j].row # Code(c)[k].row
        BY <2>5
      <4> QED
        BY <2>7, <3>2, <4>1, <4>2 DEF Buffer
    <3> QED
      BY <3>1, <3>2
  <2> QED
    BY <2>1, <2>2, <2>11, <2>12, <2>13, <2>14 DEF Buffer
<1>4. CASE Starts(c) \/ WritesAlone(c) \/ Commits(c) \/ Releases(c) \/ Refuses(c) \/ Loses(c) \/ Crashes(c)
  <2>1. c \notin open'
    BY <1>4 DEF Starts, WritesAlone, Commits, Releases, Refuses, Loses, Crashes, Fails, Stops,
                Kept, Shapes, Shape
  <2> QED
    BY <2>1
<1> QED
  BY <1>1, <1>2, <1>3, <1>4 DEF AStep

LEMMA ApartStep ==
  ASSUME Kept, NEW e \in Clients, AStep(e)
  PROVE  Apart'
<1>1. \A c \in Clients : c # e => buf'[c] = buf[c]
  BY DEF AStep, Starts, Begins, ReadsIt, WritesInside, WritesAlone, Commits, Releases, Refuses,
         Loses, Crashes, Goes, Fails, Stops, Alone, Same
<1>2. CASE buf'[e] = buf[e]
  BY <1>1, <1>2 DEF Apart, Kept
<1>3. CASE buf'[e] = NothingWritten
  BY <1>1, <1>3 DEF Apart, Kept, NothingWritten
<1>4. CASE WritesInside(e)
  <2>1. /\ buf'[e] = With(buf[e], Now(e).row, Value(e, Now(e)))
        /\ Holders(Now(e).row) \subseteq {e}
    BY <1>4 DEF WritesInside, MayWrite
  <2>2. DOMAIN buf'[e] = DOMAIN buf[e] \cup {Now(e).row}
    BY <2>1 DEF With
  <2>3. \A c \in Clients : c # e => \A x \in DOMAIN buf[c] : LockOf(x) # LockOf(Now(e).row)
    BY <2>1 DEF Holders, Held
  <2> QED
    BY <1>1, <2>2, <2>3 DEF Apart, Kept
<1> QED
  BY <1>2, <1>3, <1>4 DEF AStep, Starts, Begins, ReadsIt, WritesAlone, Commits, Releases, Refuses,
                          Loses, Crashes, Fails, Stops

LEMMA KeptInit == Init => Kept
<1> SUFFICES ASSUME Init PROVE Kept
  OBVIOUS
<1>1. Shapes
  BY ShapesInit
<1>2. Buffers /\ Apart
  BY DEF Init, Buffers, Apart, NothingWritten
<1> QED
  BY <1>1, <1>2 DEF Kept

LEMMA KeptStep ==
  ASSUME Kept, NEW c \in Clients, AStep(c)
  PROVE  Kept'
<1>1. Shapes'
  BY ShapesStep DEF Kept
<1>2. Buffers'
  BY BufferOwn, BufferOthers DEF Buffers
<1>3. Apart'
  BY ApartStep
<1> QED
  BY <1>1, <1>2, <1>3 DEF Kept

LEMMA KeptSame ==
  ASSUME Kept, UNCHANGED vars
  PROVE  Kept'
<1>1. Shapes'
  BY ShapesSame DEF Kept
<1>2. Buffers' /\ Apart'
  BY DEF Kept, vars, Buffers, Buffer, Written, Code, From, Apart
<1> QED
  BY <1>1, <1>2 DEF Kept

(***************************************************************************)
(* What a step changes in the database.                                    *)
(***************************************************************************)

(* Statement k of client c puts its value in a row. *)
Puts(c, k, row) ==
  /\ mode[c] = "run" /\ request[c] \in Requests /\ request'[c] = request[c]
  /\ pc'[c] = pc[c] + 1 /\ seen'[c] = seen[c]
  /\ k \in 1 .. Len(Code(c)) /\ Code(c)[k].op \in Writes /\ Code(c)[k].row = row
  /\ Code(c)[k].op # "add" => db'[row] = Code(c)[k].v
  /\ \/ Commits(c) /\ Written(c, k) /\ row \in DOMAIN buf[c] /\ db'[row] = buf[c][row]
     \/ WritesAlone(c) /\ k = pc[c] /\ c \notin open

LEMMA RowChanges ==
  ASSUME Kept, NEW c \in Clients, AStep(c), NEW row \in Rows, db'[row] # db[row]
  PROVE  \/ /\ Releases(c) /\ row = Status(request[c].doc)
            /\ db'[row] = Seen(seen[c], row)
         \/ \E k : Puts(c, k, row)
<1>0. DOMAIN db = Rows
  BY DEF Kept, Shapes
<1>1. CASE Releases(c)
  BY <1>0, <1>1 DEF Releases
<1>2. CASE Commits(c)
  <2>1. /\ mode[c] = "run" /\ request'[c] = request[c] /\ pc'[c] = pc[c] + 1 /\ seen'[c] = seen[c]
        /\ row \in DOMAIN buf[c] /\ db'[row] = buf[c][row]
    BY <1>2 DEF Commits, Goes
  <2>2. PICK k \in 1 .. Len(Code(c)) :
              /\ Written(c, k) /\ Code(c)[k].row = row
              /\ Code(c)[k].op # "add" => buf[c][row] = Code(c)[k].v
    BY <2>1, BufferRows
  <2>3. request[c] \in Requests
    BY <2>1, NowPlaced DEF Kept
  <2>4. Puts(c, k, row)
    BY <1>2, <2>1, <2>2, <2>3 DEF Puts, Written
  <2> QED
    BY <2>4
<1>3. CASE WritesAlone(c)
  <2>1. /\ mode[c] = "run" /\ request'[c] = request[c] /\ pc'[c] = pc[c] + 1 /\ seen'[c] = seen[c]
        /\ Now(c).op \in Writes /\ c \notin open
        /\ db' = [db EXCEPT ![Now(c).row] = Value(c, Now(c))]
    BY <1>3 DEF WritesAlone, Goes, MayWrite
  <2>2. Now(c).row = row /\ db'[row] = Value(c, Now(c))
    BY <1>0, <2>1
  <2>3. request[c] \in Requests /\ pc[c] \in 1 .. Len(Code(c))
    BY <2>1, NowPlaced DEF Kept
  <2>4. Puts(c, pc[c], row)
    BY <1>3, <2>1, <2>2, <2>3 DEF Puts, Now, Value
  <2> QED
    BY <2>4
<1> QED
  BY <1>1, <1>2, <1>3 DEF AStep, Starts, Begins, ReadsIt, WritesInside, Refuses, Loses, Crashes,
                          Fails, Stops

(* Conversely, what a transaction wrote is there once it has committed. *)
LEMMA CommitsWhatItWrote ==
  ASSUME Kept, NEW c \in Clients, Commits(c), NEW k \in 1 .. Len(Code(c)),
         From(c) < k, k < Upto(c), Code(c)[k].op \in Writes
  PROVE  /\ Code(c)[k].row \in DOMAIN buf[c] /\ Written(c, k) /\ Code(c)[k].row \in Rows
         /\ db'[Code(c)[k].row] = buf[c][Code(c)[k].row]
         /\ \E j \in 1 .. Len(Code(c)) :
              /\ Written(c, j) /\ Code(c)[j].row = Code(c)[k].row
              /\ Code(c)[j].op # "add" => db'[Code(c)[k].row] = Code(c)[j].v
<1>1. mode[c] = "run" /\ Now(c).op = "commit"
  BY DEF Commits, Goes
<1>2. /\ Placed(Now(c), pc[c], c, request[c], seen[c]) /\ Len(Code(c)) \in Nat
      /\ pc[c] \in 1 .. Len(Code(c)) /\ From(c) \in Nat
      /\ c \in open <=> From(c) < pc[c] /\ pc[c] <= Upto(c)
  BY <1>1, NowPlaced DEF Kept
<1>3. pc[c] = Upto(c)
  BY <1>1, <1>2 DEF Placed, Upto
<1>4. Written(c, k) /\ c \in open
  BY <1>2, <1>3 DEF Written
<1>5. Code(c)[k].row \in DOMAIN buf[c]
  BY <1>4 DEF Kept, Buffers, Buffer
<1>6. Code(c)[k].row \in Rows
  BY <1>5, BufferRows
<1>7. db'[Code(c)[k].row] = buf[c][Code(c)[k].row]
  BY <1>5, <1>6 DEF Commits
<1>8. PICK j \in 1 .. Len(Code(c)) :
              /\ Written(c, j) /\ Code(c)[j].row = Code(c)[k].row
              /\ Code(c)[j].op # "add" => buf[c][Code(c)[k].row] = Code(c)[j].v
  BY <1>5, BufferRows
<1> QED
  BY <1>4, <1>5, <1>6, <1>7, <1>8

(* The writes of a request that posts, by place. *)
WriteAt(s, k, c, r, v) ==
  \/ /\ k \in Base(r) + 1 .. Base(r) + Len(Effects(c, r, v))
     /\ Posts(r, v) /\ IsEffect(s, c, r, v)
  \/ k > FrontReads(r) /\ Frame(s, k, Len(Effects(c, r, v)), c, r, v)

LEMMA WritePlaces ==
  ASSUME NEW c, NEW r, r.op \in PostingOps, NEW v,
         NEW k \in 1 .. Len(Handler(c, r, v)), Handler(c, r, v)[k].op \in Writes
  PROVE  WriteAt(Handler(c, r, v)[k], k, c, r, v)
<1> DEFINE s == Handler(c, r, v)[k]
           n == Len(Effects(c, r, v))
<1>1. s.op \in Writes
  OBVIOUS
<1>2. FrontReads(r) \in 0 .. 4
  BY DEF FrontReads, PostingOps
<1>3. CASE k <= FrontReads(r)
  <2>1. s.op \in Reads
    BY <1>2, <1>3, FrontReadsAre, FrontIsRead
  <2> QED
    BY <1>1, <2>1 DEF Reads, Writes
<1>4. CASE k \in Base(r) + 1 .. Base(r) + n
  BY <1>4, EffectPosts, EffectStatements DEF WriteAt
<1>5. CASE k > FrontReads(r) /\ k \notin Base(r) + 1 .. Base(r) + n
  BY <1>5, FrameStatements DEF WriteAt
<1> QED
  BY <1>2, <1>3, <1>4, <1>5

(* Only the claim of a conversion, the mark of a return and inventory's    *)
(* count write outside a transaction.                                      *)
LEMMA PutsWhere ==
  ASSUME Kept, NEW c \in Clients, NEW row, NEW k, Puts(c, k, row)
  PROVE  \/ Commits(c) /\ From(c) < k /\ k < Upto(c)
         \/ WritesAlone(c) /\ k = pc[c] /\ k = 3 /\ request[c].op = "convert"
         \/ /\ WritesAlone(c) /\ k = pc[c] /\ k = Upto(c) + 1 /\ k = Len(Code(c))
            /\ request[c].op = "refund"
         \/ WritesAlone(c) /\ k = pc[c] /\ request[c].op = "count"
<1>1. /\ WellPlaced(Code(c), c, request[c], seen[c]) /\ pc[c] \in 1 .. Len(Code(c))
      /\ Len(Code(c)) \in Nat /\ From(c) \in Nat /\ Upto(c) \in Nat
      /\ c \in open <=> From(c) < pc[c] /\ pc[c] <= Upto(c)
      /\ Placed(Now(c), pc[c], c, request[c], seen[c])
  BY NowPlaced DEF Kept, Puts
<1>2. Placed(Code(c)[k], k, c, request[c], seen[c]) /\ k \in 1 .. Len(Code(c))
      /\ Code(c)[k].op \in Writes
  BY <1>1 DEF WellPlaced, Puts
<1>3. k # From(c) /\ k # Upto(c)
  BY <1>2 DEF Placed, From, Upto, Writes
<1>4. CASE Commits(c) /\ Written(c, k)
  <2>1. pc[c] = Upto(c)
    BY <1>1, <1>4 DEF Commits, Placed, Upto
  <2> QED
    BY <1>4, <2>1 DEF Written
<1>5. CASE WritesAlone(c) /\ k = pc[c] /\ c \notin open
  <2>1. k < From(c) \/ k > Upto(c)
    BY <1>1, <1>2, <1>3, <1>5
  <2>2. CASE k < From(c)
    BY <1>2, <1>5, <2>2 DEF Placed, From
  <2>3. CASE k > Upto(c)
    BY <1>2, <1>5, <2>3 DEF Placed, Upto, Code
  <2> QED
    BY <2>1, <2>2, <2>3
<1> QED
  BY <1>4, <1>5 DEF Puts

StatusWrite(c, x, y) ==
  LET r == request[c]
      t == TextOf(r)
  IN  \/ r.op \in Makers /\ Commits(c) /\ x = c /\ y = FirstStatus(t)
      \/ r.op = "refund" /\ WritesAlone(c) /\ x = r.doc /\ y = "REFUNDED"
      \/ /\ r.op = "convert" /\ WritesAlone(c) /\ x = r.doc /\ y = StatusAfter(seen[c], r)
         /\ pc[c] = 3 /\ db[Status(x)] = Seen(seen[c], Status(x))
      \/ r.op = "resume" /\ Commits(c) /\ x = r.doc /\ y \in {"OPEN", FirstStatus(t)}
      \/ r.op = "delete" /\ Commits(c) /\ t.source # None /\ x = t.source /\ y = "ORDER_OPEN"
      \/ /\ r.op \in PostingOps /\ Commits(c) /\ t.pays # None /\ x = t.pays
         /\ y \in {"OPEN", "PARTIAL", "PAID"}

LEMMA StatusPuts ==
  ASSUME Kept, NEW c \in Clients, NEW x \in DocIds, NEW k, Puts(c, k, Status(x))
  PROVE  StatusWrite(c, x, db'[Status(x)])
<1> DEFINE r == request[c]
           v == seen[c]
           s == Code(c)[k]
           y == db'[Status(x)]
<1>1. /\ r \in Requests /\ k \in 1 .. Len(Code(c)) /\ s.op \in Writes /\ s.row = Status(x)
      /\ s.op # "add" => y = s.v
  BY DEF Puts
<1>2. \/ Commits(c) /\ From(c) < k /\ k < Upto(c)
      \/ WritesAlone(c) /\ k = pc[c] /\ k = 3 /\ r.op = "convert"
      \/ /\ WritesAlone(c) /\ k = pc[c] /\ k = Upto(c) + 1 /\ k = Len(Code(c))
         /\ r.op = "refund"
      \/ WritesAlone(c) /\ k = pc[c] /\ r.op = "count"
  BY PutsWhere
<1>3. IsWrite(s, c, r, v)
  BY <1>1, WritesAre DEF Code
<1> HIDE DEF r, s, v, y
<1>4. r.op \in PostingOps
  <2>1. \/ \E z, p : \/ s = Claim(Cheque(z), p, "CLOSED") \/ s = Claim(Cheque(z), p, "OPEN")
                    \/ s = Add(Money(z), p) \/ s = Add(Level(z), p) \/ s = Put(Level(z), p)
                    \/ s = Put(Loan(z), p) \/ s = Add(Loan(z), p) \/ s = Add(Stock, p)
        \/ r.op \in PostingOps
    BY <1>3, Zenon DEF IsWrite, Makers, PostingOps
  <2> QED
    BY <1>1, <2>1 DEF Status, Cheque, Money, Stock, Level, Loan, Claim, Add, Put
<1>5. WriteAt(s, k, c, r, v)
  BY <1>1, <1>4, WritePlaces DEF Code, r, s, v
<1>6. Len(Effects(c, r, v)) \in Nat
  BY EffectsSeq
<1>7. r.op = "refund" => Upto(c) = Len(Effects(c, r, v)) + 9 /\ Base(r) = 8 /\ FrontReads(r) = 3
  BY DEF Upto, CommitAt, r, v, Base, FrontReads
<1>8. r.op = "convert" => From(c) = 4 /\ Base(r) = 8 /\ FrontReads(r) = 2
  BY DEF From, BeginAt, r, Base, FrontReads, Makers, LoanOps
<1>9. Legal(r)
  BY <1>1, RequestsAssumption
<1>10. CASE k \in Base(r) + 1 .. Base(r) + Len(Effects(c, r, v)) /\ Posts(r, v) /\ IsEffect(s, c, r, v)
  <2>1. Commits(c)
    BY <1>2, <1>4, <1>6, <1>7, <1>8, <1>10 DEF PostingOps
  <2>2. /\ TextOf(r).pays # None /\ x = TextOf(r).pays
        /\ s = Put(Status(TextOf(r).pays), Settlement(Given[TextOf(r).pays].is.total, PaidThen(r, v)))
    BY <1>1, <1>10 DEF IsEffect, Writes, Read, Enough, Add, Put, Status, Stock, Level, Party, Money,
                       Cashed, Cheque, Paid
  <2>3. y \in {"OPEN", "PARTIAL", "PAID"}
    BY <1>1, <2>2 DEF Put, Settlement
  <2> QED
    BY <1>4, <2>1, <2>2, <2>3 DEF StatusWrite, r, y
<1>11. CASE k > FrontReads(r) /\ Frame(s, k, Len(Effects(c, r, v)), c, r, v)
  <2>1. CASE r.op = "refund" /\ s = Put(Status(r.doc), "REFUNDED")
             /\ k = Base(r) + Len(Effects(c, r, v)) + 2
    <3>1. k > Upto(c)
      BY <1>6, <1>7, <2>1
    <3>2. WritesAlone(c) /\ x = r.doc /\ y = "REFUNDED"
      BY <1>1, <1>2, <1>6, <1>7, <2>1, <3>1 DEF Put, Status
    <3> QED
      BY <2>1, <3>2 DEF StatusWrite, r, y
  <2>2. CASE r.op = "convert" /\ k = 3 /\ s = Claim(Status(r.doc), Seen(v, Status(r.doc)), StatusAfter(v, r))
    <3>1. WritesAlone(c) /\ x = r.doc /\ y = StatusAfter(v, r) /\ pc[c] = 3
      BY <1>1, <1>2, <1>8, <2>2 DEF Claim, Status
    <3>2. View(c, Status(x)) = Seen(v, Status(x)) /\ c \notin open
      <4>1. s = Now(c)
        BY <2>2, <3>1 DEF s, Now
      <4>2. s.op = "claim" /\ s.row = Status(x) /\ s.from = Seen(v, Status(x))
        BY <2>2, <3>1 DEF Claim
      <4> QED
        BY <3>1, <4>1, <4>2 DEF WritesAlone, MayWrite
    <3>3. db[Status(x)] = Seen(v, Status(x))
      <4>1. buf[c] = NothingWritten
        BY <3>2 DEF Kept, Shapes, Shape
      <4>2. Status(x) \in Rows
        BY RowsAre
      <4> QED
        BY <3>2, <4>1, <4>2, ViewOfRow DEF NothingWritten
    <3> QED
      BY <2>2, <3>1, <3>3 DEF StatusWrite, r, v, y
  <2>3. CASE r.op \in Makers /\ x = c /\ s = Put(Status(c), FirstStatus(TextOf(r)))
             /\ k = Base(r) - 2
    <3>1. Commits(c)
      BY <1>2, <1>6, <1>7, <1>8, <2>3 DEF Makers
    <3> QED
      BY <1>1, <2>3, <3>1 DEF StatusWrite, Put, r, y
  <2>4. CASE r.op = "resume" /\ x = r.doc
    <3>1. s = Claim(Status(r.doc), "HELD", "OPEN") \/ s = Put(Status(r.doc), FirstStatus(TextOf(r)))
      BY <1>1, <1>11, <2>4
         DEF Frame, Begin, Commit, Put, Status, Paid, Writes, Makers
    <3>2. Commits(c)
      BY <1>2, <2>4
    <3> QED
      BY <1>1, <2>4, <3>1, <3>2 DEF StatusWrite, Put, Claim, r, y
  <2>5. CASE r.op = "delete" /\ TextOf(r).source # None /\ x = TextOf(r).source
             /\ s = Put(Status(TextOf(r).source), "ORDER_OPEN")
    <3>2. Commits(c)
      BY <1>2, <2>5
    <3> QED
      BY <1>1, <2>5, <3>2 DEF StatusWrite, Put, r, y
  <2> QED
    BY <1>1, <1>11, <2>1, <2>2, <2>3, <2>4, <2>5
       DEF Frame, Begin, Commit, Put, Add, Claim, Status, Paid, Allocated, Deleted, Seq_, Writes
<1> QED
  BY <1>5, <1>10, <1>11 DEF WriteAt

LEMMA DeletedPuts ==
  ASSUME Kept, NEW c \in Clients, NEW x \in DocIds, NEW k, Puts(c, k, Deleted(x))
  PROVE  /\ Commits(c) /\ x = request[c].doc
         /\ \/ request[c].op = "delete" /\ db'[Deleted(x)] = TRUE
            \/ request[c].op = "restore" /\ db'[Deleted(x)] = FALSE
<1> DEFINE r == request[c]
           v == seen[c]
           s == Code(c)[k]
           y == db'[Deleted(x)]
<1>1. /\ r \in Requests /\ k \in 1 .. Len(Code(c)) /\ s.op \in Writes /\ s.row = Deleted(x)
      /\ s.op # "add" => y = s.v
  BY DEF Puts
<1>2. \/ Commits(c) /\ From(c) < k /\ k < Upto(c)
      \/ r.op \in {"convert", "refund", "count"}
  BY PutsWhere
<1>3. IsWrite(s, c, r, v)
  BY <1>1, WritesAre DEF Code
<1> HIDE DEF r, s, v, y
<1>4. \/ r.op = "delete" /\ s = Put(Deleted(r.doc), TRUE)
      \/ r.op = "restore" /\ s = Put(Deleted(r.doc), FALSE)
  <2>1. \/ r.op = "delete" /\ s = Put(Deleted(r.doc), TRUE)
        \/ r.op = "restore" /\ s = Put(Deleted(r.doc), FALSE)
        \/ IsEffect(s, c, r, v)
        \/ \E z, p, q : \/ s = Claim(Cheque(z), p, q) \/ s = Claim(Status(z), p, q)
                        \/ s = Put(Status(z), p) \/ s = Put(Paid(z), p) \/ s = Put(Allocated(z), p)
                        \/ s = Add(Seq_(z, q), p)
                        \/ s = Add(Money(z), p) \/ s = Add(Level(z), p) \/ s = Put(Level(z), p)
                        \/ s = Put(Loan(z), p) \/ s = Add(Loan(z), p) \/ s = Add(Stock, p)
    BY <1>3, Zenon DEF IsWrite
  <2>2. ~IsEffect(s, c, r, v)
    BY <1>1 DEF IsEffect, Deleted, Writes, Read, Enough, Add, Put, Status, Stock, Level, Party, Money,
                Cashed, Cheque, Paid
  <2>3. \/ r.op = "delete" /\ s = Put(Deleted(r.doc), TRUE)
        \/ r.op = "restore" /\ s = Put(Deleted(r.doc), FALSE)
    BY <1>1, <2>1, <2>2 DEF Status, Cheque, Money, Stock, Level, Loan, Claim, Add, Put, Deleted, Paid,
                            Allocated, Seq_
  <2> QED
    BY <2>3
<1>5. Commits(c)
  BY <1>2, <1>4
<1> QED
  BY <1>1, <1>4, <1>5 DEF Put, Deleted, r, y

LEMMA AllocatedPuts ==
  ASSUME Kept, NEW c \in Clients, NEW x \in DocIds, NEW k, Puts(c, k, Allocated(x))
  PROVE  /\ Commits(c) /\ x = c /\ request[c].op \in Makers
         /\ db'[Allocated(x)] = AmountOf(request[c], seen[c])
<1> DEFINE r == request[c]
           v == seen[c]
           s == Code(c)[k]
           y == db'[Allocated(x)]
<1>1. /\ r \in Requests /\ k \in 1 .. Len(Code(c)) /\ s.op \in Writes /\ s.row = Allocated(x)
      /\ s.op # "add" => y = s.v
  BY DEF Puts
<1>2. \/ Commits(c) /\ From(c) < k /\ k < Upto(c)
      \/ k = 3 /\ r.op = "convert"
      \/ k = Upto(c) + 1 /\ r.op = "refund"
      \/ r.op = "count"
  BY PutsWhere
<1>3. IsWrite(s, c, r, v)
  BY <1>1, WritesAre DEF Code
<1> HIDE DEF r, s, v, y
<1>4. r.op \in Makers /\ s = Put(Allocated(c), AmountOf(r, v))
  <2>1. \/ r.op \in Makers /\ s = Put(Allocated(c), AmountOf(r, v))
        \/ IsEffect(s, c, r, v)
        \/ \E z, p, q : \/ s = Claim(Cheque(z), p, q) \/ s = Claim(Status(z), p, q)
                        \/ s = Put(Status(z), p) \/ s = Put(Paid(z), p) \/ s = Put(Deleted(z), p)
                        \/ s = Add(Seq_(z, q), p)
                        \/ s = Add(Money(z), p) \/ s = Add(Level(z), p) \/ s = Put(Level(z), p)
                        \/ s = Put(Loan(z), p) \/ s = Add(Loan(z), p) \/ s = Add(Stock, p)
    BY <1>3, Zenon DEF IsWrite
  <2>2. ~IsEffect(s, c, r, v)
    BY <1>1 DEF IsEffect, Allocated, Writes, Read, Enough, Add, Put, Status, Stock, Level, Party, Money,
                Cashed, Cheque, Paid
  <2>3. r.op \in Makers /\ s = Put(Allocated(c), AmountOf(r, v))
    BY <1>1, <2>1, <2>2 DEF Status, Cheque, Money, Stock, Level, Loan, Claim, Add, Put, Deleted, Paid,
                            Allocated, Seq_
  <2> QED
    BY <2>3
<1>5. Commits(c)
  <2>1. WriteAt(s, k, c, r, v)
    BY <1>1, <1>4, WritePlaces DEF Code, r, s, v, PostingOps, Makers
  <2>2. ~IsEffect(s, c, r, v)
    BY <1>1 DEF IsEffect, Allocated, Writes, Read, Enough, Add, Put, Status, Stock, Level, Party, Money,
                Cashed, Cheque, Paid
  <2>3. Len(Effects(c, r, v)) \in Nat
    BY EffectsSeq
  <2>5. r.op = "refund" => Upto(c) = Len(Effects(c, r, v)) + 9 /\ Base(r) = 8
    BY DEF Upto, CommitAt, r, v, Base
  <2>7. Frame(s, k, Len(Effects(c, r, v)), c, r, v) /\ s.op = "put" /\ s.row[1] = "allocated"
    BY <1>4, <2>1, <2>2 DEF WriteAt, Put, Allocated
  <2>6. k = Base(r)
    BY <1>4, <2>7
       DEF Frame, Begin, Commit, Put, Add, Claim, Status, Paid, Deleted, Makers
  <2>4. r.op = "convert" => k = 8
    BY <2>6 DEF Base
  <2> QED
    BY <1>2, <1>4, <2>3, <2>4, <2>5, <2>6 DEF Makers
<1> QED
  BY <1>1, <1>4, <1>5 DEF Put, Allocated, r, v, y

(* A client's document is there from its commit on. *)
Committed(c) == mode[c] # "idle" /\ request[c].op \in Makers /\ pc[c] > Upto(c)

LEMMA CommitPlace ==
  ASSUME Kept, NEW c \in Clients, Commits(c)
  PROVE  /\ pc[c] = Upto(c) /\ pc'[c] = Upto(c) + 1 /\ Upto(c) \in Nat /\ From(c) \in Nat
         /\ From(c) < Upto(c) /\ c \in open /\ mode[c] = "run"
         /\ request'[c] = request[c] /\ seen'[c] = seen[c] /\ Upto(c)' = Upto(c)
         /\ request[c].op # "count" /\ request[c] \in Requests
<1>1. mode[c] = "run" /\ Now(c).op = "commit" /\ request'[c] = request[c] /\ seen'[c] = seen[c]
      /\ pc'[c] = pc[c] + 1
  BY DEF Commits, Goes
<1>2. /\ Placed(Now(c), pc[c], c, request[c], seen[c]) /\ Len(Code(c)) \in Nat
      /\ pc[c] \in 1 .. Len(Code(c)) /\ From(c) \in Nat /\ Upto(c) \in Nat /\ request[c] \in Requests
      /\ WellPlaced(Code(c), c, request[c], seen[c])
      /\ c \in open <=> From(c) < pc[c] /\ pc[c] <= Upto(c)
  BY <1>1, NowPlaced DEF Kept
<1>3. pc[c] = Upto(c)
  BY <1>1, <1>2 DEF Placed, Upto
<1>4. From(c) < Upto(c) /\ request[c].op # "count"
  BY <1>2, <1>3 DEF WellPlaced, From, Upto
<1>5. Upto(c)' = Upto(c)
  BY <1>1, CodeSame
<1> QED
  BY <1>1, <1>2, <1>3, <1>4, <1>5

LEMMA AloneSteps ==
  ASSUME NEW c, AStep(c)
  PROVE  Alone(c)
BY DEF AStep, Starts, Begins, ReadsIt, WritesInside, WritesAlone, Commits, Releases, Refuses,
       Loses, Crashes, Goes, Fails, Stops

LEMMA CommittedStep ==
  ASSUME Kept, NEW c \in Clients, AStep(c)
  PROVE  /\ Committed(c)' <=> Committed(c) \/ (Commits(c) /\ request[c].op \in Makers)
         /\ Commits(c) => ~Committed(c)
         /\ Committed(c) => request'[c] = request[c] /\ seen'[c] = seen[c]
         /\ \A x \in Clients : x # c => (Committed(x)' <=> Committed(x))
<1>1. \A x \in Clients : x # c => (Committed(x)' <=> Committed(x))
  BY AloneSteps, CodeSame DEF Alone, Same, Committed
<1>2. Commits(c) => ~Committed(c)
  BY CommitPlace DEF Committed
<1>3. CASE Starts(c)
  <2>1. request'[c] \in Requests /\ mode[c] = "idle" /\ pc'[c] = 1
    BY <1>3 DEF Starts, Kept, Shapes, Shape
  <2>2. WellPlaced(Handler(c, request'[c], seen'[c]), c, request'[c], seen'[c])
    BY <2>1, HandlersPlaced
  <2>3. request'[c].op # "count" => Upto(c)' \in Nat /\ ~(1 > Upto(c)')
    BY <2>2 DEF WellPlaced, Upto
  <2>4. ~Committed(c)' /\ ~Committed(c) /\ ~Commits(c)
    BY <2>1, <2>3 DEF Committed, Makers, Commits, Goes
  <2> QED
    BY <1>1, <2>4
<1>4. CASE Begins(c) \/ ReadsIt(c) \/ WritesInside(c)
  <2>1. mode[c] = "run" /\ request'[c] = request[c] /\ pc'[c] = pc[c] + 1
    BY <1>4 DEF Begins, ReadsIt, WritesInside, Goes
  <2>2. /\ Placed(Now(c), pc[c], c, request[c], seen[c]) /\ Len(Code(c)) \in Nat
        /\ pc[c] \in 1 .. Len(Code(c)) /\ From(c) \in Nat /\ Upto(c) \in Nat
        /\ WellPlaced(Code(c), c, request[c], seen[c])
        /\ c \in open <=> From(c) < pc[c] /\ pc[c] <= Upto(c)
    BY <2>1, NowPlaced DEF Kept
  <2>3. request[c].op \in Makers => From(c) < Upto(c)
    BY <2>2 DEF WellPlaced, From, Upto, Makers
  <2>4. CASE ReadsIt(c)
    <3>1. pc[c] < Upto(c)' /\ Upto(c)' \in Nat
      BY <2>4, CodeKept DEF Kept
    <3>2. pc[c] < Upto(c) /\ Now(c).op # "commit"
      BY <2>2, <2>4 DEF ReadsIt, Placed, Upto, Reads
    <3>3. ~(pc'[c] > Upto(c)') /\ ~(pc[c] > Upto(c))
      BY <2>1, <2>2, <3>1, <3>2
    <3> QED
      BY <1>1, <3>2, <3>3 DEF Committed, Commits
  <2>5. CASE Begins(c) \/ WritesInside(c)
    <3>1. seen'[c] = seen[c]
      BY <2>5 DEF Begins, WritesInside
    <3>2. Upto(c)' = Upto(c)
      BY <2>1, <3>1, CodeSame
    <3>3. CASE Begins(c)
      <4>1. pc[c] = From(c) /\ Now(c).op # "commit"
        BY <2>2, <3>3 DEF Begins, Placed, From
      <4>2. request[c].op \in Makers => ~(pc'[c] > Upto(c)') /\ ~(pc[c] > Upto(c))
        BY <2>1, <2>2, <2>3, <3>2, <4>1
      <4> QED
        BY <1>1, <2>1, <4>1, <4>2 DEF Committed, Commits
    <3>4. CASE WritesInside(c)
      <4>1. pc[c] # Upto(c) /\ pc[c] <= Upto(c) /\ Now(c).op # "commit"
        BY <2>2, <3>4 DEF WritesInside, MayWrite, Placed, Upto, Writes
      <4>2. ~(pc'[c] > Upto(c)') /\ ~(pc[c] > Upto(c))
        BY <2>1, <2>2, <3>2, <4>1
      <4> QED
        BY <1>1, <2>1, <4>1, <4>2 DEF Committed, Commits
    <3> QED
      BY <2>5, <3>3, <3>4
  <2> QED
    BY <1>4, <2>4, <2>5
<1>5. CASE WritesAlone(c)
  <2>1. mode[c] = "run" /\ request'[c] = request[c] /\ pc'[c] = pc[c] + 1 /\ seen'[c] = seen[c]
        /\ mode'[c] # "idle"
    BY <1>5 DEF WritesAlone, Goes, EndsOrNot
  <2>2. /\ Placed(Now(c), pc[c], c, request[c], seen[c]) /\ Len(Code(c)) \in Nat
        /\ pc[c] \in 1 .. Len(Code(c)) /\ From(c) \in Nat /\ Upto(c) \in Nat
        /\ WellPlaced(Code(c), c, request[c], seen[c])
        /\ c \in open <=> From(c) < pc[c] /\ pc[c] <= Upto(c)
    BY <2>1, NowPlaced DEF Kept
  <2>3. Upto(c)' = Upto(c)
    BY <2>1, CodeSame
  <2>4. pc[c] # From(c) /\ Now(c).op # "commit"
    BY <1>5, <2>2 DEF WritesAlone, MayWrite, Placed, From, Writes
  <2>5. pc[c] < From(c) \/ pc[c] > Upto(c)
    BY <1>5, <2>2, <2>4 DEF WritesAlone
  <2>6. request[c].op \in Makers => From(c) < Upto(c)
    BY <2>2 DEF WellPlaced, From, Upto, Makers
  <2>7. request[c].op \in Makers => (pc'[c] > Upto(c)' <=> pc[c] > Upto(c))
    BY <2>1, <2>2, <2>3, <2>5, <2>6
  <2> QED
    BY <1>1, <2>1, <2>4, <2>7 DEF Committed, Commits
<1>6. CASE Commits(c)
  <2>1. mode'[c] # "idle"
    BY <1>6 DEF Commits, EndsOrNot
  <2> QED
    BY <1>1, <1>2, <1>6, <2>1, CommitPlace DEF Committed
<1>7. CASE Releases(c)
  <2>1. mode[c] = "undo" /\ request'[c] = request[c] /\ seen'[c] = seen[c] /\ pc'[c] = 2 /\ pc[c] = 1
        /\ request[c] \in Requests /\ request[c].op = "convert"
    BY <1>7, UndoPlaced DEF Releases, Kept
  <2>2. WellPlaced(Code(c), c, request[c], seen[c])
    BY <2>1, HandlersPlaced DEF Code
  <2>3. Upto(c) \in Nat /\ Upto(c) > 1 /\ Upto(c)' = Upto(c)
    BY <2>1, <2>2, CodeSame DEF WellPlaced, Upto
  <2> QED
    BY <1>1, <2>1, <2>3 DEF Committed, Commits, Goes
<1>8. CASE Refuses(c) \/ Loses(c)
  <2>1. /\ mode[c] = "run" /\ request'[c] = request[c] /\ seen'[c] = seen[c] /\ mode'[c] # "idle"
        /\ \/ Claimed(c) /\ pc'[c] = 1
           \/ pc'[c] = pc[c]
    BY <1>8 DEF Refuses, Loses, Fails, Stops
  <2>2. Now(c).op # "commit"
    <3>1. CASE Refuses(c)
      BY <3>1 DEF Refuses, Reads
    <3>2. CASE Loses(c)
      <4>1. buf'[c] = NothingWritten /\ db' = db /\ BreakDeadlock(c)
        BY <3>2 DEF Loses, Fails, Stops
      <4>2. Script(c) = Code(c)
        BY <2>1 DEF Script, Code
      <4>3. Now(c).op \in Writes
        BY <4>1, <4>2 DEF BreakDeadlock, Now
      <4> QED
        BY <4>3 DEF Writes
    <3> QED
      BY <1>8, <3>1, <3>2
  <2>3. Upto(c)' = Upto(c)
    BY <2>1, CodeSame
  <2>4. /\ Len(Code(c)) \in Nat /\ pc[c] \in 1 .. Len(Code(c)) /\ Upto(c) \in Nat /\ From(c) \in Nat
        /\ WellPlaced(Code(c), c, request[c], seen[c])
    BY <2>1, NowPlaced DEF Kept
  <2>5. Claimed(c) => Upto(c) = Len(Code(c)) /\ request[c].op = "convert"
    BY <2>1 DEF Claimed, Upto, CommitAt, Code
  <2>6. request[c].op \in Makers => Upto(c) > 1
    BY <2>4 DEF WellPlaced, Upto, Makers
  <2>7. request[c].op \in Makers => (pc'[c] > Upto(c)' <=> pc[c] > Upto(c))
    BY <2>1, <2>3, <2>4, <2>5, <2>6
  <2> QED
    BY <1>1, <2>1, <2>2, <2>7 DEF Committed, Commits
<1>9. CASE Crashes(c)
  <2>1. /\ Active(c) /\ request'[c] = request[c] /\ seen'[c] = seen[c] /\ pc'[c] = pc[c]
        /\ mode'[c] = "crashed"
    BY <1>9 DEF Crashes, Stops
  <2>2. Upto(c)' = Upto(c)
    BY <2>1, CodeSame
  <2>3. ~Commits(c)
    BY <2>1 DEF Commits, EndsOrNot
  <2> QED
    BY <1>1, <2>1, <2>2, <2>3 DEF Committed, Active
<1> QED
  BY <1>3, <1>4, <1>5, <1>6, <1>7, <1>8, <1>9 DEF AStep

(***************************************************************************)
(* Conversions.                                                            *)
(***************************************************************************)

LEMMA ReadPlaces ==
  ASSUME NEW c, NEW r, r.op \in PostingOps, NEW v,
         NEW k \in 1 .. Len(Handler(c, r, v)), Handler(c, r, v)[k].op \in Reads
  PROVE  \/ k <= FrontReads(r) /\ FrontRead(Handler(c, r, v)[k], k, r)
         \/ Posts(r, v) /\ IsEffect(Handler(c, r, v)[k], c, r, v)
<1>1. CASE k <= FrontReads(r)
  <2>1. FrontReads(r) \in 0 .. 4
    BY DEF FrontReads, PostingOps
  <2>2. k \in 1 .. FrontReads(r)
    BY <1>1, <2>1
  <2> QED
    BY <1>1, <2>2, FrontReadsAre
<1>2. CASE k \in Base(r) + 1 .. Base(r) + Len(Effects(c, r, v))
  BY <1>2, EffectPosts, EffectStatements
<1> QED
  BY <1>1, <1>2, PostingReads

LEMMA ConvertPlaces ==
  ASSUME Kept, NEW c \in Clients, mode[c] = "run", request[c].op = "convert"
  PROVE  /\ From(c) = 4 /\ Upto(c) = Len(Code(c)) /\ Len(Code(c)) \in Nat /\ Len(Code(c)) > 4
         /\ pc[c] \in 1 .. Len(Code(c))
         /\ pc[c] = 1 => Now(c) = Check(Status(request[c].doc), Open)
         /\ pc[c] = 2 => Now(c) = Read(<<"received", request[c].doc>>)
         /\ pc[c] = 3 => Now(c) = Claim(Status(request[c].doc), Seen(seen[c], Status(request[c].doc)),
                                        StatusAfter(seen[c], request[c]))
         /\ Now(c).op \in Reads /\ pc[c] # 1 => Now(c).row[1] # "status"
<1> DEFINE r == request[c]
           v == seen[c]
<1>1. /\ r \in Requests /\ pc[c] \in 1 .. Len(Code(c)) /\ Len(Code(c)) \in Nat
      /\ WellPlaced(Code(c), c, r, v)
  BY NowPlaced DEF Kept
<1>2. From(c) = 4 /\ Upto(c) = Len(Code(c)) /\ Len(Code(c)) > 4
  <2>1. From(c) = 4 /\ Upto(c) = Len(Code(c))
    BY DEF From, BeginAt, Upto, CommitAt, Code, Makers, LoanOps, Base
  <2> QED
    BY <1>1, <2>1 DEF WellPlaced, From, Upto
<1>3. r.op \in PostingOps /\ FrontReads(r) = 2 /\ Base(r) = 8
  BY DEF PostingOps, FrontReads, Base
<1>4. pc[c] \in {1, 2} => FrontRead(Now(c), pc[c], r)
  BY <1>3, FrontReadsAre DEF Now, Code
<1>5. pc[c] = 1 => Now(c) = Check(Status(r.doc), Open)
  BY <1>4 DEF FrontRead
<1>6. pc[c] = 2 => Now(c) = Read(<<"received", r.doc>>)
  BY <1>4 DEF FrontRead
<1>7. pc[c] = 3 => Now(c) = Claim(Status(r.doc), Seen(v, Status(r.doc)), StatusAfter(v, r))
  <2> SUFFICES ASSUME pc[c] = 3
               PROVE  Now(c) = Claim(Status(r.doc), Seen(v, Status(r.doc)), StatusAfter(v, r))
    OBVIOUS
  <2>1. Len(Effects(c, r, v)) \in Nat
    BY EffectsSeq
  <2>2. 3 \notin Base(r) + 1 .. Base(r) + Len(Effects(c, r, v)) /\ 3 > FrontReads(r)
    BY <1>3, <2>1
  <2>3. Frame(Now(c), 3, Len(Effects(c, r, v)), c, r, v)
    BY <1>1, <1>3, <2>2, FrameStatements DEF Now, Code
  <2> QED
    BY <1>3, <2>1, <2>3 DEF Frame, Makers
<1>8. Now(c).op \in Reads /\ pc[c] # 1 => Now(c).row[1] # "status"
  <2> SUFFICES ASSUME Now(c).op \in Reads, pc[c] # 1 PROVE Now(c).row[1] # "status"
    OBVIOUS
  <2>1. \/ pc[c] <= FrontReads(r) /\ FrontRead(Now(c), pc[c], r)
        \/ Posts(r, v) /\ IsEffect(Now(c), c, r, v)
    BY <1>1, <1>3, ReadPlaces DEF Now, Code
  <2>2. CASE pc[c] <= FrontReads(r)
    <3>1. pc[c] = 2
      BY <1>1, <1>3, <2>2
    <3> QED
      BY <1>6, <3>1 DEF Read
  <2>3. CASE IsEffect(Now(c), c, r, v)
    BY <2>3 DEF IsEffect, Reads, Read, Enough, Add, Put, Status, Stock, Level, Party, Money,
                Cashed, Cheque, Paid
  <2> QED
    BY <2>1, <2>2, <2>3
<1> QED
  BY <1>1, <1>2, <1>5, <1>6, <1>7, <1>8

(* A conversion has found its source open. *)
SeenOpen ==
  \A c \in Clients :
    request[c].op = "convert" /\ ((mode[c] = "run" /\ pc[c] > 1) \/ mode[c] = "undo")
    => Seen(seen[c], Status(request[c].doc)) = "ORDER_OPEN"

LEMMA SeenOpenStep ==
  ASSUME Kept, SeenOpen, NEW c \in Clients, AStep(c)
  PROVE  SeenOpen'
<1>1. \A e \in Clients : e # c => Same(e)
  BY AloneSteps DEF Alone
<1>2. SUFFICES ASSUME request'[c].op = "convert", (mode'[c] = "run" /\ pc'[c] > 1) \/ mode'[c] = "undo"
               PROVE  Seen(seen'[c], Status(request'[c].doc)) = "ORDER_OPEN"
  BY <1>1 DEF SeenOpen, Same
<1>3. CASE Starts(c)
  BY <1>2, <1>3 DEF Starts, Kept, Shapes, Shape
<1>4. CASE ReadsIt(c)
  <2>1. /\ mode[c] = "run" /\ request'[c] = request[c] /\ Now(c).op \in Reads
        /\ seen'[c] = With(seen[c], Now(c).row, View(c, Now(c).row))
        /\ Now(c).op = "check" => View(c, Now(c).row) \in Now(c).ok
    BY <1>4 DEF ReadsIt, Goes
  <2>2. CASE pc[c] = 1
    <3>1. Now(c) = Check(Status(request[c].doc), Open)
      BY <1>2, <2>1, <2>2, ConvertPlaces
    <3>2. View(c, Status(request[c].doc)) = "ORDER_OPEN" /\ Now(c).row = Status(request[c].doc)
      BY <2>1, <3>1 DEF Check, Open
    <3> QED
      BY <2>1, <3>2 DEF Seen, With
  <2>3. CASE pc[c] # 1
    <3>4. request[c].op = "convert" /\ pc[c] \in Nat \ {0}
      BY <1>2, <2>1 DEF Kept, Shapes, Shape
    <3>5. Now(c).row[1] # "status"
      BY <2>1, <2>3, <3>4, ConvertPlaces
    <3>1. Now(c).row[1] # "status" /\ pc[c] > 1
      BY <2>3, <3>4, <3>5
    <3>2. Now(c).row # Status(request[c].doc)
      BY <3>1 DEF Status
    <3>3. Seen(seen[c], Status(request[c].doc)) = "ORDER_OPEN"
      BY <1>2, <2>1, <3>1 DEF SeenOpen
    <3> QED
      BY <2>1, <3>2, <3>3 DEF Seen, With
  <2> QED
    BY <2>2, <2>3
<1>5. CASE Begins(c) \/ WritesInside(c) \/ WritesAlone(c) \/ Commits(c)
  <2>1. /\ mode[c] = "run" /\ request'[c] = request[c] /\ Now(c).op \in {"begin", "commit"} \cup Writes
        /\ seen'[c] = seen[c]
    BY <1>5 DEF Begins, WritesInside, WritesAlone, Commits, Goes, MayWrite
  <2>4. request[c].op = "convert"
    BY <1>2, <2>1
  <2>6. pc[c] = 1 => Now(c) = Check(Status(request[c].doc), Open)
    BY <2>1, <2>4, ConvertPlaces
  <2>5. pc[c] = 1 => Now(c).op = "check"
    BY <2>6 DEF Check
  <2>2. pc[c] # 1 /\ pc[c] \in Nat \ {0}
    BY <2>1, <2>5 DEF Writes, Kept, Shapes, Shape
  <2>3. pc[c] > 1
    BY <2>2
  <2> QED
    BY <1>2, <2>1, <2>3 DEF SeenOpen
<1>6. CASE Releases(c)
  BY <1>2, <1>6 DEF Releases
<1>7. CASE Refuses(c) \/ Loses(c)
  <2>1. /\ mode[c] = "run" /\ request'[c] = request[c] /\ seen'[c] = seen[c] /\ Claimed(c)
    BY <1>2, <1>7 DEF Refuses, Loses, Fails, Stops
  <2>2. pc[c] > 1
    <3>1. pc[c] > 3 /\ pc[c] \in Nat
      BY <2>1 DEF Claimed, Kept, Shapes, Shape
    <3> QED
      BY <3>1
  <2> QED
    BY <1>2, <2>1, <2>2 DEF SeenOpen
<1>8. CASE Crashes(c)
  BY <1>2, <1>8 DEF Crashes
<1> QED
  BY <1>3, <1>4, <1>5, <1>6, <1>7, <1>8 DEF AStep

(***************************************************************************)
(* What is written in documents as long as they live.                      *)
(***************************************************************************)

LEMMA FirstStatusIs ==
  ASSUME NEW t
  PROVE  FirstStatus(t) \in {"ORDER_OPEN", "PAID", "PARTIAL", "OPEN"}
BY DEF FirstStatus, Settlement

(* What becomes of the status of a document that was given. *)
LEMMA GivenStatus ==
  ASSUME Kept, SeenOpen, NEW c \in Clients, AStep(c), NEW d \in GivenDocs,
         db'[Status(d)] # db[Status(d)]
  PROVE  /\ db'[Status(d)] \in {"ORDER_OPEN", "ORDER_CLOSED", "CONVERTED", "OPEN", "PARTIAL",
                                "PAID", "REFUNDED"}
         /\ Given[d].is.type \notin OrderTypes =>
              db'[Status(d)] \in {"OPEN", "PARTIAL", "PAID", "REFUNDED"}
         /\ Given[d].is.type \in OrderTypes =>
              \/ /\ Releases(c) /\ request[c].doc = d /\ db'[Status(d)] = "ORDER_OPEN"
              \/ /\ WritesAlone(c) /\ request[c].op = "convert" /\ request[c].doc = d /\ pc[c] = 3
                 /\ mode[c] = "run" /\ db[Status(d)] = "ORDER_OPEN"
                 /\ Seen(seen[c], Status(d)) = "ORDER_OPEN"
                 /\ db'[Status(d)] = StatusAfter(seen[c], request[c])
              \/ /\ Commits(c) /\ request[c].op = "delete" /\ request[c].doc \in GivenDocs
                 /\ Given[request[c].doc].is.source = d /\ db'[Status(d)] = "ORDER_OPEN"
<1>0. d \in DocIds /\ Status(d) \in Rows /\ d \notin Clients
  BY RowsAre, NamesAssumption DEF DocIds
<1>1. CASE Releases(c) /\ Status(d) = Status(request[c].doc) /\ db'[Status(d)] = Seen(seen[c], Status(d))
  <2>1. d = request[c].doc /\ mode[c] = "undo"
    BY <1>1 DEF Status, Releases
  <2>2. request[c].op = "convert" /\ Given[d].is.type \in OrderTypes
    BY <2>1, UndoPlaced, RequestsAssumption DEF Kept, Legal
  <2>3. db'[Status(d)] = "ORDER_OPEN"
    BY <1>1, <2>1, <2>2 DEF SeenOpen
  <2> QED
    BY <1>1, <2>1, <2>2, <2>3
<1>2. CASE \E k : Puts(c, k, Status(d))
  <2>1. PICK k : Puts(c, k, Status(d))
    BY <1>2
  <2>2. request[c] \in Requests /\ mode[c] = "run" /\ Legal(request[c])
    BY <2>1, RequestsAssumption DEF Puts
  <2>3. StatusWrite(c, d, db'[Status(d)])
    BY <1>0, <2>1, StatusPuts
  <2> DEFINE r == request[c]
             t == TextOf(r)
             y == db'[Status(d)]
  <2>4. r.op \in PostingOps => Sound(t) /\ (r.op # "create" => r.doc \in GivenDocs)
    BY <2>2, TextSound
  <2>5. CASE r.op = "refund" /\ WritesAlone(c) /\ d = r.doc /\ y = "REFUNDED"
    BY <2>2, <2>5 DEF Legal, OrderTypes
  <2>6. CASE /\ r.op = "convert" /\ WritesAlone(c) /\ d = r.doc /\ y = StatusAfter(seen[c], r)
             /\ pc[c] = 3 /\ db[Status(d)] = Seen(seen[c], Status(d))
    <3>1. Seen(seen[c], Status(d)) = "ORDER_OPEN"
      BY <2>2, <2>6 DEF SeenOpen
    <3>2. y \in {"ORDER_OPEN", "ORDER_CLOSED", "CONVERTED"}
      BY <2>6, <3>1 DEF StatusAfter
    <3>3. Given[d].is.type \in OrderTypes
      BY <2>2, <2>6 DEF Legal
    <3> QED
      BY <2>2, <2>6, <3>1, <3>2, <3>3
  <2>7. CASE r.op = "resume" /\ Commits(c) /\ d = r.doc /\ y \in {"OPEN", FirstStatus(t)}
    <3>1. Given[d].is.type \notin OrderTypes /\ t.type = "SALE_INVOICE"
      BY <2>2, <2>7 DEF Legal, OrderTypes, TextOf, Makers
    <3>2. FirstStatus(t) \in {"PAID", "PARTIAL", "OPEN"}
      BY <3>1 DEF FirstStatus, Settlement, OrderTypes, PaymentTypes
    <3> QED
      BY <2>7, <3>1, <3>2
  <2>8. CASE r.op = "delete" /\ Commits(c) /\ t.source # None /\ d = t.source /\ y = "ORDER_OPEN"
    <3>1. r.doc \in GivenDocs /\ t = Given[r.doc].is
      BY <2>4, <2>8 DEF PostingOps, TextOf, Makers
    <3>2. Given[d].is.type \in OrderTypes
      BY <2>4, <2>8 DEF Sound, PostingOps
    <3> QED
      BY <2>8, <3>1, <3>2
  <2>9. CASE /\ r.op \in PostingOps /\ Commits(c) /\ t.pays # None /\ d = t.pays
             /\ y \in {"OPEN", "PARTIAL", "PAID"}
    <3>1. Given[d].is.type \notin OrderTypes
      BY <2>4, <2>9 DEF Sound, OrderTypes
    <3> QED
      BY <2>9, <3>1
  <2> HIDE DEF r, t, y
  <2> QED
    BY <1>0, <2>3, <2>5, <2>6, <2>7, <2>8, <2>9 DEF StatusWrite, r, t, y
<1> QED
  BY <1>0, <1>1, <1>2, RowChanges

Papers ==
  /\ \A d \in GivenDocs :
       /\ db[Status(d)] # "NONE" /\ (db[Status(d)] = "HELD" => Given[d].status = "HELD")
       /\ Given[d].is.type \in OrderTypes =>
            db[Status(d)] \in {"ORDER_OPEN", "ORDER_CLOSED", "CONVERTED"}
       /\ Given[d].is.type \notin OrderTypes =>
            db[Status(d)] \in {"OPEN", "PARTIAL", "PAID", "REFUNDED", "HELD"}
       /\ db[Deleted(d)] \in BOOLEAN /\ db[Allocated(d)] = Given[d].allocated
  /\ \A x \in Clients :
       /\ db[Status(x)] = IF Committed(x) THEN FirstStatus(TextOf(request[x])) ELSE "NONE"
       /\ db[Deleted(x)] = FALSE
       /\ db[Allocated(x)] = IF Committed(x) THEN AmountOf(request[x], seen[x]) ELSE 0

LEMMA PapersInit == Init => Papers /\ SeenOpen
<1> SUFFICES ASSUME Init PROVE Papers /\ SeenOpen
  OBVIOUS
<1>1. \A d \in DocIds : /\ Status(d) \in Rows /\ Deleted(d) \in Rows /\ Allocated(d) \in Rows
  BY RowsAre
<1>2. ASSUME NEW d \in GivenDocs
      PROVE  /\ db[Status(d)] = Given[d].status /\ db[Deleted(d)] = Given[d].deleted
             /\ db[Allocated(d)] = Given[d].allocated
  <2>1. d \in DocIds
    BY DEF DocIds
  <2>2. Given[d].deleted \in BOOLEAN
    BY GivenSound DEF AtRest
  <2> QED
    BY <1>1, <2>1, <2>2 DEF Init, Status, Deleted, Allocated
<1>3. \A x \in Clients : x \notin GivenDocs /\ x \in DocIds
  BY NamesAssumption DEF DocIds
<1>4. ASSUME NEW x \in Clients
      PROVE  db[Status(x)] = "NONE" /\ db[Deleted(x)] = FALSE /\ db[Allocated(x)] = 0
  BY <1>1, <1>3 DEF Init, Status, Deleted, Allocated
<1>5. \A x \in Clients : ~Committed(x)
  BY DEF Init, Committed
<1>6. ASSUME NEW d \in GivenDocs
      PROVE  /\ Given[d].status # "NONE" /\ Given[d].deleted \in BOOLEAN
             /\ Given[d].is.type \in OrderTypes =>
                  Given[d].status \in {"ORDER_OPEN", "ORDER_CLOSED", "CONVERTED"}
             /\ Given[d].is.type \notin OrderTypes =>
                  Given[d].status \in {"OPEN", "PARTIAL", "PAID", "REFUNDED", "HELD"}
  <2>1. Given[d].status \in StatusesOf(Given[d].is.type) /\ Given[d].deleted \in BOOLEAN
    BY GivenSound DEF AtRest
  <2> QED
    BY <2>1 DEF StatusesOf, OrderTypes, PaymentTypes
<1>7. SeenOpen
  BY DEF Init, SeenOpen, NoRequest
<1> QED
  BY <1>2, <1>4, <1>5, <1>6, <1>7 DEF Papers

MakerStatement(s, k, n, c, r, v) ==
  /\ k = Base(r) - 4 => s = Begin
  /\ k = Base(r) - 3 => s = Add(Seq_(TextOf(r).shop, TextOf(r).type), 1)
  /\ k = Base(r) - 2 => s = Put(Status(c), FirstStatus(TextOf(r)))
  /\ k = Base(r) - 1 => s = Put(Paid(c), TextOf(r).own)
  /\ k = Base(r) => s = Put(Allocated(c), AmountOf(r, v))
  /\ k = Base(r) + n + 1 => s = Commit

LEMMA MakerFrame ==
  ASSUME NEW c, NEW r, r.op \in Makers, NEW v, NEW n \in Nat, NEW s, NEW k, Frame(s, k, n, c, r, v)
  PROVE  MakerStatement(s, k, n, c, r, v)
<1> DEFINE b == Base(r)
<1>1. b \in {5, 8} /\ (r.op = "convert" => b = 8)
  BY DEF Base, Makers
<1> HIDE DEF b
<1>2. \/ k = b - 4 /\ s = Begin
      \/ k = b - 3 /\ s = Add(Seq_(TextOf(r).shop, TextOf(r).type), 1)
      \/ k = b - 2 /\ s = Put(Status(c), FirstStatus(TextOf(r)))
      \/ k = b - 1 /\ s = Put(Paid(c), TextOf(r).own)
      \/ k = b /\ s = Put(Allocated(c), AmountOf(r, v))
      \/ k = b + n + 1 /\ s = Commit
      \/ k = b + n + 2
      \/ r.op = "convert" /\ k = 3
  BY Zenon DEF Frame, Makers, b
<1>3. (k = b - 4 \/ k = b - 3 \/ k = b - 2 \/ k = b - 1 \/ k = b \/ k = b + n + 1) =>
        k # b + n + 2 /\ ~(r.op = "convert" /\ k = 3)
  BY <1>1
<1>4. /\ k = b - 4 => s = Begin
      /\ k = b - 3 => s = Add(Seq_(TextOf(r).shop, TextOf(r).type), 1)
      /\ k = b - 2 => s = Put(Status(c), FirstStatus(TextOf(r)))
      /\ k = b - 1 => s = Put(Paid(c), TextOf(r).own)
      /\ k = b => s = Put(Allocated(c), AmountOf(r, v))
      /\ k = b + n + 1 => s = Commit
  BY <1>1, <1>2, <1>3
<1> QED
  BY <1>4 DEF b, MakerStatement

LEMMA PapersStep ==
  ASSUME Kept, SeenOpen, Papers, NEW c \in Clients, AStep(c)
  PROVE  Papers'
<1>1. \A d \in DocIds : /\ Status(d) \in Rows /\ Deleted(d) \in Rows /\ Allocated(d) \in Rows
                        /\ Deleted(d) # Status(request[c].doc)
                        /\ Allocated(d) # Status(request[c].doc)
  BY RowsAre DEF Deleted, Allocated, Status
<1>2. ASSUME NEW d \in GivenDocs
      PROVE  /\ db'[Status(d)] # "NONE" /\ (db'[Status(d)] = "HELD" => Given[d].status = "HELD")
             /\ Given[d].is.type \in OrderTypes =>
                  db'[Status(d)] \in {"ORDER_OPEN", "ORDER_CLOSED", "CONVERTED"}
             /\ Given[d].is.type \notin OrderTypes =>
                  db'[Status(d)] \in {"OPEN", "PARTIAL", "PAID", "REFUNDED", "HELD"}
  <2>1. CASE db'[Status(d)] = db[Status(d)]
    BY <2>1 DEF Papers
  <2>2. CASE db'[Status(d)] # db[Status(d)]
    <3>1. StatusAfter(seen[c], request[c]) \in
            {"ORDER_CLOSED", "CONVERTED", Seen(seen[c], Status(request[c].doc))}
      BY DEF StatusAfter
    <3> QED
      BY <2>2, <3>1, GivenStatus
  <2> QED
    BY <2>1, <2>2
<1>3. ASSUME NEW d \in DocIds, db'[Deleted(d)] # db[Deleted(d)]
      PROVE  d \in GivenDocs /\ db'[Deleted(d)] \in BOOLEAN
  <2>1. PICK k : Puts(c, k, Deleted(d))
    BY <1>1, <1>3, RowChanges
  <2>2. d = request[c].doc /\ request[c].op \in {"delete", "restore"} /\ db'[Deleted(d)] \in BOOLEAN
    BY <2>1, DeletedPuts
  <2>3. d \in GivenDocs
    BY <2>1, <2>2, RequestsAssumption DEF Legal, Puts
  <2> QED
    BY <2>2, <2>3
<1>4. ASSUME NEW d \in DocIds, db'[Allocated(d)] # db[Allocated(d)]
      PROVE  /\ d = c /\ Commits(c) /\ request[c].op \in Makers
             /\ db'[Allocated(d)] = AmountOf(request[c], seen[c])
  <2>1. PICK k : Puts(c, k, Allocated(d))
    BY <1>1, <1>4, RowChanges
  <2> QED
    BY <2>1, AllocatedPuts
<1>5. \A d \in GivenDocs : d \in DocIds /\ d \notin Clients
  BY NamesAssumption DEF DocIds
<1>6. \A d \in GivenDocs : db'[Deleted(d)] \in BOOLEAN /\ db'[Allocated(d)] = Given[d].allocated
  BY <1>3, <1>4, <1>5 DEF Papers
<1>7. \A x \in Clients : x \in DocIds /\ x \notin GivenDocs
  BY NamesAssumption DEF DocIds
<1>8. \A x \in Clients : db'[Deleted(x)] = FALSE
  BY <1>3, <1>7 DEF Papers
<1>9. /\ Committed(c)' <=> Committed(c) \/ (Commits(c) /\ request[c].op \in Makers)
      /\ Commits(c) => ~Committed(c)
      /\ Committed(c) => request'[c] = request[c] /\ seen'[c] = seen[c]
      /\ Commits(c) => request'[c] = request[c] /\ seen'[c] = seen[c]
      /\ \A x \in Clients : x # c => /\ Committed(x)' <=> Committed(x)
                                     /\ request'[x] = request[x] /\ seen'[x] = seen[x]
  BY CommittedStep, CommitPlace, AloneSteps DEF Alone, Same
<1>10. ASSUME NEW x \in Clients, db'[Status(x)] # db[Status(x)]
       PROVE  /\ x = c /\ Commits(c) /\ request[c].op \in Makers
              /\ db'[Status(x)] = FirstStatus(TextOf(request[c]))
  <2>1. CASE Releases(c) /\ Status(x) = Status(request[c].doc)
    <3>1. request[c].doc \in GivenDocs
      BY <2>1, UndoPlaced DEF Releases, Kept
    <3> QED
      BY <1>7, <2>1, <3>1 DEF Status
  <2>2. CASE \E k : Puts(c, k, Status(x))
    <3>1. PICK k : Puts(c, k, Status(x))
      BY <2>2
    <3>2. StatusWrite(c, x, db'[Status(x)])
      BY <1>7, <3>1, StatusPuts
    <3>3. Legal(request[c])
      BY <3>1, RequestsAssumption DEF Puts
    <3>4. /\ request[c].op \in {"refund", "convert", "resume"} => request[c].doc \in GivenDocs
          /\ request[c].op \in PostingOps /\ TextOf(request[c]).pays # None
               => TextOf(request[c]).pays \in GivenDocs
          /\ request[c].op = "delete" /\ TextOf(request[c]).source # None
               => TextOf(request[c]).source \in GivenDocs
      <4>1. request[c].op \in PostingOps => Sound(TextOf(request[c]))
        BY <3>3, TextSound
      <4> QED
        BY <3>3, <4>1 DEF Legal, Sound, Content, PostingOps
    <3> QED
      BY <1>7, <3>2, <3>4 DEF StatusWrite
  <2> QED
    BY <1>1, <1>7, <1>10, <2>1, <2>2, RowChanges
<1>11. ASSUME Commits(c), request[c].op \in Makers
       PROVE  /\ db'[Status(c)] = FirstStatus(TextOf(request[c]))
              /\ db'[Allocated(c)] = AmountOf(request[c], seen[c])
  <2> DEFINE r == request[c]
             b == Base(r)
             n == Len(Effects(c, r, seen[c]))
  <2>1. /\ Upto(c) \in Nat /\ From(c) < Upto(c) /\ mode[c] = "run" /\ r \in Requests /\ pc[c] = Upto(c)
        /\ From(c) = b - 4 /\ b \in {5, 8} /\ n \in Nat /\ FrontReads(r) \in 0 .. b - 5
    BY <1>11, CommitPlace, EffectsSeq DEF From, BeginAt, Base, Makers, LoanOps, FrontReads
  <2>2. Upto(c) <= Len(Code(c)) /\ Len(Code(c)) \in Nat
    BY <2>1, NowPlaced DEF Kept
  <2>3. Upto(c) = b + n + 1
    <3>1. Now(c).op = "commit" /\ pc[c] \in 1 .. Len(Code(c)) /\ Now(c).op \notin Writes
      BY <1>11, <2>1, NowPlaced DEF Commits, Kept, Writes
    <3>2. CASE pc[c] <= FrontReads(r)
      <4>1. Now(c).op \in Reads
        BY <1>11, <2>1, <3>1, <3>2, FrontReadsAre, FrontIsRead DEF Now, Code, PostingOps, Makers
      <4> QED
        BY <3>1, <4>1 DEF Reads
    <3>3. CASE pc[c] \in b + 1 .. b + n
      <4>1. IsEffect(Now(c), c, r, seen[c]) /\ Legal(r)
        BY <1>11, <2>1, <3>3, EffectPosts, EffectStatements, RequestsAssumption
           DEF Now, Code, PostingOps, Makers
      <4>2. Now(c).op \in Reads \cup {"add", "put"}
        BY <1>11, <4>1, EffectRows DEF PostingOps, Makers
      <4> QED
        BY <3>1, <4>2 DEF Reads
    <3>4. CASE pc[c] > FrontReads(r) /\ pc[c] \notin b + 1 .. b + n
      <4>1. Frame(Now(c), pc[c], n, c, r, seen[c])
        BY <1>11, <2>1, <3>1, <3>4, FrameStatements DEF Now, Code, PostingOps, Makers
      <4> QED
        BY <1>11, <2>1, <3>1, <4>1 DEF Frame, Begin, Put, Add, Claim, Makers
    <3> QED
      BY <2>1, <3>1, <3>2, <3>3, <3>4
  <2> HIDE DEF n, b, r
  <2>4. \A k \in b - 2 .. b : k \in 1 .. Len(Code(c)) /\ k > FrontReads(r) /\ k \notin b + 1 .. b + n
                              /\ From(c) < k /\ k < Upto(c)
    BY <2>1, <2>2, <2>3
  <2>5. \A k \in b - 2 .. b : Frame(Code(c)[k], k, n, c, r, seen[c])
    <3>1. r.op \in PostingOps
      BY <1>11 DEF PostingOps, Makers, r
    <3> TAKE k \in b - 2 .. b
    <3> QED
      BY <2>4, <3>1, FrameStatements DEF Code, b, n, r
  <2>6. b - 2 \in b - 2 .. b /\ b \in b - 2 .. b
    BY <2>1
  <2>7. Code(c)[b - 2] = Put(Status(c), FirstStatus(TextOf(r)))
    <3>1. PICK k : k = b - 2
      OBVIOUS
    <3>2. Frame(Code(c)[k], k, n, c, r, seen[c]) /\ r.op \in Makers
      BY <1>11, <2>5, <2>6, <3>1 DEF r
    <3>3. k = Base(r) - 2
      BY <3>1 DEF b
    <3>5. MakerStatement(Code(c)[k], k, n, c, r, seen[c])
      BY <2>1, <3>2, MakerFrame
    <3>4. Code(c)[k] = Put(Status(c), FirstStatus(TextOf(r)))
      BY <3>3, <3>5 DEF MakerStatement
    <3> QED
      BY <3>1, <3>4
  <2>8. Code(c)[b] = Put(Allocated(c), AmountOf(r, seen[c]))
    <3>1. PICK k : k = b
      OBVIOUS
    <3>2. Frame(Code(c)[k], k, n, c, r, seen[c]) /\ r.op \in Makers
      BY <1>11, <2>5, <2>6, <3>1 DEF r
    <3>3. k = Base(r)
      BY <3>1 DEF b
    <3>5. MakerStatement(Code(c)[k], k, n, c, r, seen[c])
      BY <2>1, <3>2, MakerFrame
    <3>4. Code(c)[k] = Put(Allocated(c), AmountOf(r, seen[c]))
      BY <3>3, <3>5 DEF MakerStatement
    <3> QED
      BY <3>1, <3>4
  <2>9. \E j : Puts(c, j, Status(c))
    <3>1. Code(c)[b - 2].op \in Writes /\ Code(c)[b - 2].row = Status(c)
      BY <2>7 DEF Put, Writes
    <3>2. PICK j \in 1 .. Len(Code(c)) :
              /\ Written(c, j) /\ Code(c)[j].row = Status(c)
              /\ Code(c)[j].op # "add" => db'[Status(c)] = Code(c)[j].v
      BY <1>11, <2>4, <2>6, <3>1, CommitsWhatItWrote
    <3>3. Status(c) \in DOMAIN buf[c] /\ db'[Status(c)] = buf[c][Status(c)]
      BY <1>11, <2>4, <2>6, <3>1, CommitsWhatItWrote
    <3>4. pc'[c] = pc[c] + 1 /\ seen'[c] = seen[c] /\ request'[c] = request[c]
      BY <1>11, <2>1, CommitPlace
    <3> QED
      BY <1>11, <2>1, <3>2, <3>3, <3>4 DEF Puts, Written, r
  <2>10. \E j : Puts(c, j, Allocated(c))
    <3>1. Code(c)[b].op \in Writes /\ Code(c)[b].row = Allocated(c)
      BY <2>8 DEF Put, Writes
    <3>2. PICK j \in 1 .. Len(Code(c)) :
              /\ Written(c, j) /\ Code(c)[j].row = Allocated(c)
              /\ Code(c)[j].op # "add" => db'[Allocated(c)] = Code(c)[j].v
      BY <1>11, <2>4, <2>6, <3>1, CommitsWhatItWrote
    <3>3. Allocated(c) \in DOMAIN buf[c] /\ db'[Allocated(c)] = buf[c][Allocated(c)]
      BY <1>11, <2>4, <2>6, <3>1, CommitsWhatItWrote
    <3>4. pc'[c] = pc[c] + 1 /\ seen'[c] = seen[c] /\ request'[c] = request[c]
      BY <1>11, <2>1, CommitPlace
    <3> QED
      BY <1>11, <2>1, <3>2, <3>3, <3>4 DEF Puts, Written, r
  <2>11. StatusWrite(c, c, db'[Status(c)])
    BY <1>7, <2>9, StatusPuts
  <2>12. /\ request[c].op \in {"refund", "convert"} => request[c].doc \in GivenDocs
         /\ TextOf(request[c]).pays # None => TextOf(request[c]).pays \in GivenDocs
    <3>1. Legal(request[c])
      BY <2>1, RequestsAssumption DEF r
    <3>2. Sound(TextOf(request[c]))
      BY <1>11, <3>1, TextSound DEF PostingOps, Makers
    <3> QED
      BY <3>1, <3>2 DEF Legal, Sound, Content
  <2>13. db'[Status(c)] = FirstStatus(TextOf(request[c]))
    BY <1>7, <1>11, <2>11, <2>12 DEF StatusWrite, Makers
  <2>14. db'[Allocated(c)] = AmountOf(request[c], seen[c])
    BY <1>7, <2>10, AllocatedPuts
  <2> QED
    BY <2>13, <2>14
<1>12. ASSUME NEW x \in Clients
       PROVE  /\ db'[Status(x)] = IF Committed(x)' THEN FirstStatus(TextOf(request'[x])) ELSE "NONE"
              /\ db'[Allocated(x)] = IF Committed(x)' THEN AmountOf(request'[x], seen'[x]) ELSE 0
  <2>1. CASE Commits(c) /\ request[c].op \in Makers /\ x = c
    BY <1>9, <1>11, <2>1
  <2>2. CASE ~(Commits(c) /\ request[c].op \in Makers /\ x = c)
    <3>1. db'[Status(x)] = db[Status(x)] /\ db'[Allocated(x)] = db[Allocated(x)]
      BY <1>4, <1>7, <1>10, <2>2
    <3>2. Committed(x)' <=> Committed(x)
      BY <1>9, <2>2
    <3>3. Committed(x) => request'[x] = request[x] /\ seen'[x] = seen[x]
      BY <1>9
    <3> QED
      BY <3>1, <3>2, <3>3 DEF Papers
  <2> QED
    BY <2>1, <2>2
<1> QED
  BY <1>2, <1>6, <1>8, <1>12 DEF Papers

(***************************************************************************)
(* A source and its conversions.                                           *)
(***************************************************************************)

(* A client that has claimed source d, and holds the claim or used it. *)
Holder(c, d) ==
  /\ request[c].op = "convert" /\ request[c].doc = d
  /\ (mode[c] = "run" /\ pc[c] > 3) \/ mode[c] = "undo" \/ Committed(c)

LEMMA HolderOthers ==
  ASSUME NEW c \in Clients, AStep(c), NEW e \in Clients, e # c, NEW d
  PROVE  Holder(e, d)' <=> Holder(e, d)
<1>1. Same(e)
  BY AloneSteps DEF Alone
<1>2. Committed(e)' <=> Committed(e)
  BY <1>1, CodeSame DEF Same, Committed
<1> QED
  BY <1>1, <1>2 DEF Same, Holder

(* A client comes to hold a source by claiming it, and lets it go by       *)
(* giving it back or by crashing.                                          *)
LEMMA HolderStep ==
  ASSUME Kept, NEW c \in Clients, AStep(c), NEW d
  PROVE  /\ Holder(c, d)' /\ ~Holder(c, d) =>
              WritesAlone(c) /\ pc[c] = 3 /\ mode[c] = "run"
              /\ request[c].op = "convert" /\ request[c].doc = d
         /\ Holder(c, d) /\ ~Holder(c, d)' => Releases(c) \/ Crashes(c)
<1>1. /\ Committed(c)' <=> Committed(c) \/ (Commits(c) /\ request[c].op \in Makers)
      /\ Commits(c) => ~Committed(c)
  BY CommittedStep
<1>2. CASE Starts(c)
  <2>1. mode[c] = "idle" /\ mode'[c] = "run" /\ pc'[c] = 1 /\ ~Committed(c) /\ ~Commits(c)
    BY <1>2 DEF Starts, Kept, Shapes, Shape, Committed, Commits, Goes
  <2> QED
    BY <1>1, <2>1 DEF Holder
<1>3. CASE Begins(c) \/ ReadsIt(c) \/ WritesInside(c) \/ WritesAlone(c) \/ Commits(c)
  <2>1. /\ mode[c] = "run" /\ request'[c] = request[c] /\ pc'[c] = pc[c] + 1
        /\ mode'[c] \in {"run", "done"} /\ pc[c] \in Nat
    BY <1>3 DEF Begins, ReadsIt, WritesInside, WritesAlone, Commits, Goes, EndsOrNot, Kept,
                Shapes, Shape
  <2>2. CASE request[c].op # "convert"
    BY <2>1, <2>2 DEF Holder
  <2>3. CASE request[c].op = "convert"
    <3>1. /\ From(c) = 4 /\ Upto(c) = Len(Code(c)) /\ Len(Code(c)) \in Nat /\ Len(Code(c)) > 4
          /\ pc[c] \in 1 .. Len(Code(c))
          /\ pc[c] = 3 => Now(c) = Claim(Status(request[c].doc),
                                         Seen(seen[c], Status(request[c].doc)),
                                         StatusAfter(seen[c], request[c]))
      BY <2>1, <2>3, ConvertPlaces
    <3>2. ~Committed(c) /\ (Committed(c)' <=> Commits(c))
      <4>1. ~Committed(c)
        BY <3>1 DEF Committed
      <4> QED
        BY <1>1, <2>3, <4>1 DEF Makers
    <3>3. Commits(c) => pc[c] > 3 /\ Committed(c)'
      BY <3>1, <3>2, CommitPlace
    <3>4. mode'[c] = "done" => Commits(c)
      <4> SUFFICES ASSUME mode'[c] = "done" PROVE Commits(c)
        OBVIOUS
      <4>1. pc[c] = Upto(c) /\ (WritesAlone(c) \/ Commits(c))
        BY <1>3, <3>1 DEF Begins, ReadsIt, WritesInside, WritesAlone, Commits, EndsOrNot
      <4>2. Placed(Now(c), pc[c], c, request[c], seen[c])
        BY <2>1, NowPlaced DEF Kept
      <4>3. Now(c).op = "commit"
        BY <4>1, <4>2 DEF Placed, Upto
      <4> QED
        BY <4>1, <4>3 DEF WritesAlone, MayWrite, Writes
    <3>5. pc[c] = 3 => WritesAlone(c)
      <4> SUFFICES ASSUME pc[c] = 3 PROVE WritesAlone(c)
        OBVIOUS
      <4>1. Now(c) = Claim(Status(request[c].doc), Seen(seen[c], Status(request[c].doc)),
                           StatusAfter(seen[c], request[c]))
        BY <3>1
      <4>2. Now(c).op = "claim"
        BY <4>1 DEF Claim
      <4>3. c \notin open
        BY <3>1 DEF Kept, Shapes, Shape
      <4> QED
        BY <1>3, <4>2, <4>3
           DEF Begins, ReadsIt, WritesInside, WritesAlone, Commits, Reads
    <3>6. CASE pc[c] > 3
      BY <2>1, <2>3, <3>1, <3>2, <3>3, <3>4, <3>6 DEF Holder
    <3>7. CASE pc[c] = 3
      BY <2>1, <2>3, <3>2, <3>5, <3>7 DEF Holder
    <3>8. CASE pc[c] < 3
      <4>1. ~(pc'[c] > 3) /\ ~(pc[c] > 3) /\ ~Commits(c)
        BY <2>1, <3>1, <3>3, <3>8
      <4>2. mode'[c] # "undo"
        BY <2>1
      <4> QED
        BY <2>1, <3>2, <4>1, <4>2 DEF Holder
    <3> QED
      BY <2>1, <3>6, <3>7, <3>8
  <2> QED
    BY <2>2, <2>3
<1>4. CASE Releases(c)
  <2>1. mode[c] = "undo" /\ mode'[c] = "done" /\ request'[c] = request[c]
    BY <1>4 DEF Releases
  <2>2. ~Commits(c)
    BY <2>1 DEF Commits, Goes
  <2> QED
    BY <1>1, <1>4, <2>1, <2>2 DEF Holder
<1>5. CASE Refuses(c) \/ Loses(c)
  <2>1. /\ mode[c] = "run" /\ request'[c] = request[c] /\ pc[c] \in Nat
        /\ IF Claimed(c) THEN mode'[c] = "undo" ELSE mode'[c] \in {"refused", "victim"}
    BY <1>5 DEF Refuses, Loses, Fails, Stops, Kept, Shapes, Shape
  <2>2. ASSUME request[c].op = "convert" PROVE ~Committed(c)
    <3>1. Upto(c) = Len(Code(c)) /\ Len(Code(c)) \in Nat /\ pc[c] \in 1 .. Len(Code(c))
      BY <2>1, <2>2, ConvertPlaces
    <3> QED
      BY <3>1 DEF Committed
  <2>3. ~Commits(c)
    BY <2>1 DEF Commits, EndsOrNot
  <2> QED
    BY <1>1, <2>1, <2>2, <2>3 DEF Holder, Claimed
<1>6. CASE Crashes(c)
  <2>1. mode'[c] = "crashed" /\ request'[c] = request[c]
    BY <1>6 DEF Crashes, Stops
  <2>2. ~Commits(c)
    BY <2>1 DEF Commits, EndsOrNot
  <2> QED
    BY <1>1, <1>6, <2>1, <2>2 DEF Holder
<1> QED
  BY <1>2, <1>3, <1>4, <1>5, <1>6 DEF AStep

(* The source of a conversion is marked as long as it has one, one is      *)
(* under way, or its process died.                                         *)
Marked ==
  \A d \in GivenDocs :
    Given[d].is.type \in OrderTypes /\ db[Status(d)] = "CONVERTED" =>
      \/ \E e \in GivenDocs : Given[e].is.source = d /\ InForce(e)
      \/ \E c \in Clients :
           Holder(c, d) \/ (mode[c] = "crashed" /\ request[c].op = "convert" /\ request[c].doc = d)

(* A deletion opens the source again in the transaction that marks the     *)
(* conversion.                                                             *)
LEMMA DeletionOpens ==
  ASSUME Kept, NEW c \in Clients, AStep(c), NEW d \in GivenDocs, NEW e \in GivenDocs,
         Given[e].is.source = d, Given[d].is.type \in OrderTypes, SeenOpen,
         Commits(c), request[c].op = "delete", request[c].doc = e
  PROVE  db'[Status(d)] = "ORDER_OPEN"
<1> DEFINE r == request[c]
           n == Len(Effects(c, r, seen[c]))
<1>1. /\ Upto(c) \in Nat /\ From(c) < Upto(c) /\ mode[c] = "run" /\ r \in Requests /\ pc[c] = Upto(c)
      /\ From(c) = 5 /\ Base(r) = 5 /\ n \in Nat /\ FrontReads(r) = 4
  BY CommitPlace, EffectsSeq DEF From, BeginAt, Base, Makers, LoanOps, FrontReads
<1>2. Upto(c) <= Len(Code(c)) /\ Len(Code(c)) \in Nat /\ Upto(c) = Len(Code(c))
      /\ Now(c).op = "commit"
  BY <1>1, NowPlaced DEF Kept, Upto, CommitAt, Code, Commits
<1>3. TextOf(r) = Given[e].is /\ r.op \in PostingOps /\ d # None /\ TextOf(r).source = d /\ Legal(r)
  BY <1>1, NamesAssumption, RequestsAssumption DEF TextOf, Makers, PostingOps, DocIds
<1> HIDE DEF n, r
<1>4. Upto(c) = n + 8
  <2>1. \E t : OpLaid(Code(c), Effects(c, r, seen[c]), c, r, seen[c])
    BY <1>3, PostingHandler DEF HandlerLaid, Code, r
  <2>2. Len(Code(c)) = n + 8
    BY <1>1, <1>3, <2>1 DEF OpLaid, n, r
  <2> QED
    BY <1>2, <2>2
<1>5. PICK k : k = n + 6
  OBVIOUS
<1>6. /\ k \in 1 .. Len(Code(c)) /\ k > FrontReads(r) /\ k \notin Base(r) + 1 .. Base(r) + n
      /\ From(c) < k /\ k < Upto(c)
  BY <1>1, <1>2, <1>4, <1>5
<1>7. Frame(Code(c)[k], k, n, c, r, seen[c])
  BY <1>3, <1>6, FrameStatements DEF n, r, Code
<1>8. Code(c)[k] = Put(Status(d), "ORDER_OPEN")
  <2>1. /\ r.op = "delete" /\ TextOf(r).source = d /\ d # None /\ Base(r) = 5 /\ k = n + 6 /\ n \in Nat
        /\ "delete" \notin Makers
    BY <1>1, <1>3, <1>5 DEF r, Makers
  <2>2. \/ k = 5
        \/ k = 5 + n + 1 /\ Code(c)[k] = Put(Status(d), "ORDER_OPEN")
        \/ k = 5 + n + 2 \/ k = 5 + n + 3
    BY <1>7, <2>1, Zenon DEF Frame
  <2> QED
    BY <2>1, <2>2
<1>9. Code(c)[k].op \in Writes /\ Code(c)[k].row = Status(d)
  BY <1>8 DEF Put, Writes
<1>10. PICK j \in 1 .. Len(Code(c)) :
         /\ Written(c, j) /\ Code(c)[j].row = Status(d)
         /\ Code(c)[j].op # "add" => db'[Status(d)] = Code(c)[j].v
  BY <1>6, <1>9, CommitsWhatItWrote
<1>11. Status(d) \in DOMAIN buf[c] /\ db'[Status(d)] = buf[c][Status(d)]
  BY <1>6, <1>9, CommitsWhatItWrote
<1>12. pc'[c] = pc[c] + 1 /\ seen'[c] = seen[c] /\ request'[c] = request[c]
  BY <1>1, CommitPlace
<1>13. Puts(c, j, Status(d))
  BY <1>1, <1>10, <1>11, <1>12 DEF Puts, Written, r
<1>14. StatusWrite(c, d, db'[Status(d)])
  BY <1>13, StatusPuts DEF DocIds
<1>15. TextOf(r).pays # d
  <2>1. Sound(TextOf(r))
    BY <1>3, TextSound
  <2> QED
    BY <1>3, <2>1 DEF Sound, PaymentTypes
<1> QED
  BY <1>3, <1>14, <1>15 DEF StatusWrite, r, Makers

LEMMA InForceIs ==
  ASSUME Papers
  PROVE  /\ \A d \in GivenDocs : Given[d].is.source # None =>
              (InForce(d) <=> ~db[Deleted(d)])
         /\ \A c \in Clients : InForce(c) <=> Committed(c)
         /\ \A c \in Clients : Committed(c) => c \in AllDocs /\ Is(c) = TextOf(request[c])
<1>1. ASSUME NEW d \in GivenDocs, Given[d].is.source # None
      PROVE  InForce(d) <=> ~db[Deleted(d)]
  <2>1. Given[d].status # "HELD"
    BY <1>1, GivenSound DEF AtRest
  <2> QED
    BY <2>1 DEF Papers, InForce, There
<1>2. \A c \in Clients : InForce(c) <=> Committed(c)
  <2> TAKE c \in Clients
  <2>1. FirstStatus(TextOf(request[c])) \notin {"NONE", "HELD"}
    BY FirstStatusIs
  <2> QED
    BY <2>1 DEF Papers, InForce, There
<1>3. ASSUME NEW c \in Clients, Committed(c)
      PROVE  c \in AllDocs /\ Is(c) = TextOf(request[c])
  BY <1>3, NamesAssumption DEF Committed, AllDocs, NewDocs, MakesDoc, Is, TextOf
<1> QED
  BY <1>1, <1>2, <1>3

LEMMA DeletedStep ==
  ASSUME Kept, SeenOpen, Papers, NEW c \in Clients, AStep(c), NEW e \in GivenDocs,
         db'[Deleted(e)] # db[Deleted(e)]
  PROVE  /\ Commits(c) /\ request[c].doc = e
         /\ \/ request[c].op = "delete" /\ db'[Deleted(e)] = TRUE
            \/ request[c].op = "restore" /\ db'[Deleted(e)] = FALSE
<1>1. e \in DocIds /\ Deleted(e) \in Rows /\ Deleted(e) # Status(request[c].doc)
  BY RowsAre DEF DocIds, Deleted, Status
<1>2. PICK k : Puts(c, k, Deleted(e))
  BY <1>1, RowChanges
<1> QED
  BY <1>1, <1>2, DeletedPuts

LEMMA MarkedInit == Init => Marked
<1> SUFFICES ASSUME Init, NEW d \in GivenDocs, db[Status(d)] = "CONVERTED"
             PROVE  \E e \in GivenDocs : Given[e].is.source = d /\ InForce(e)
  BY DEF Marked
<1>1. \A x \in GivenDocs : /\ db[Status(x)] = Given[x].status /\ db[Deleted(x)] = Given[x].deleted
                           /\ Given[x].status # "NONE"
  <2> TAKE x \in GivenDocs
  <2>1. x \in DocIds /\ Status(x) \in Rows /\ Deleted(x) \in Rows
    BY RowsAre DEF DocIds
  <2>2. Given[x].deleted \in BOOLEAN /\ Given[x].status \in StatusesOf(Given[x].is.type)
    BY GivenSound DEF AtRest
  <2>3. Given[x].status # "NONE"
    BY <2>2 DEF StatusesOf, OrderTypes, PaymentTypes
  <2> QED
    BY <2>1, <2>2, <2>3 DEF Init, Status, Deleted
<1>2. {e \in GivenDocs : Rests(e) /\ Given[e].is.source = d} # {}
  BY <1>1, GivenSound DEF AtRest
<1>3. PICK e \in GivenDocs : Rests(e) /\ Given[e].is.source = d
  BY <1>2
<1> QED
  BY <1>1, <1>3 DEF Rests, InForce, There

LEMMA MarkedStep ==
  ASSUME Kept, SeenOpen, Papers, Marked, NEW c \in Clients, AStep(c)
  PROVE  Marked'
<1> SUFFICES ASSUME NEW d \in GivenDocs, Given[d].is.type \in OrderTypes,
                    db'[Status(d)] = "CONVERTED"
             PROVE  \/ \E e \in GivenDocs : Given[e].is.source = d /\ InForce(e)'
                    \/ \E e \in Clients :
                         \/ Holder(e, d)'
                         \/ mode'[e] = "crashed" /\ request'[e].op = "convert" /\ request'[e].doc = d
  BY DEF Marked
<1>0. Papers' /\ d # None
  BY PapersStep, NamesAssumption DEF DocIds
<1>1. CASE db[Status(d)] = "CONVERTED"
  <2>1. CASE \E e \in GivenDocs : Given[e].is.source = d /\ InForce(e)
    <3>1. PICK e \in GivenDocs : Given[e].is.source = d /\ InForce(e)
      BY <2>1
    <3>2. ~db[Deleted(e)]
      BY <1>0, <3>1, InForceIs
    <3>3. CASE db'[Deleted(e)] = db[Deleted(e)]
      <4>1. ~db'[Deleted(e)]
        BY <3>2, <3>3
      <4>2. Given[e].status # "HELD"
        BY <1>0, <3>1, GivenSound DEF AtRest
      <4>3. InForce(e)'
        BY <1>0, <3>1, <4>1, <4>2 DEF Papers, InForce, There
      <4> QED
        BY <3>1, <4>3
    <3>4. CASE db'[Deleted(e)] # db[Deleted(e)]
      <4>1. Commits(c) /\ request[c].op = "delete" /\ request[c].doc = e
        <5>1. db'[Deleted(e)] # FALSE
          BY <3>2, <3>4 DEF Papers
        <5> QED
          BY <3>4, <5>1, DeletedStep
      <4>2. db'[Status(d)] = "ORDER_OPEN"
        BY <3>1, <4>1, DeletionOpens
      <4> QED
        BY <4>2
    <3> QED
      BY <3>3, <3>4
  <2>2. CASE \E e \in Clients :
               \/ Holder(e, d)
               \/ mode[e] = "crashed" /\ request[e].op = "convert" /\ request[e].doc = d
    <3>1. PICK e \in Clients :
               \/ Holder(e, d)
               \/ mode[e] = "crashed" /\ request[e].op = "convert" /\ request[e].doc = d
      BY <2>2
    <3>2. CASE e # c
      <4>1. Same(e)
        BY <3>2, AloneSteps DEF Alone
      <4> QED
        BY <3>1, <3>2, <4>1, HolderOthers DEF Same
    <3>3. CASE e = c /\ Holder(c, d)
      <4>1. CASE Holder(c, d)'
        BY <4>1
      <4>2. CASE Releases(c)
        <5>1. request[c].doc = d /\ request[c].op = "convert" /\ mode[c] = "undo"
          BY <3>3, <4>2 DEF Holder, Releases
        <5>2. Seen(seen[c], Status(d)) = "ORDER_OPEN" /\ Status(d) \in Rows
          BY <5>1, RowsAre DEF SeenOpen, DocIds
        <5>3. db'[Status(d)] = "ORDER_OPEN"
          BY <4>2, <5>1, <5>2 DEF Releases, Kept, Shapes
        <5> QED
          BY <5>3
      <4>3. CASE Crashes(c)
        BY <3>3, <4>3 DEF Crashes, Stops, Holder
      <4> QED
        BY <3>3, <4>1, <4>2, <4>3, HolderStep
    <3>4. CASE e = c /\ mode[c] = "crashed"
      BY <3>4 DEF AStep, Starts, Begins, ReadsIt, WritesInside, WritesAlone, Commits, Goes,
                  Releases, Refuses, Loses, Fails, Crashes, Active
    <3> QED
      BY <3>1, <3>2, <3>3, <3>4
  <2> QED
    BY <1>1, <2>1, <2>2 DEF Marked
<1>2. CASE db[Status(d)] # "CONVERTED"
  <2>1. /\ WritesAlone(c) /\ request[c].op = "convert" /\ request[c].doc = d /\ pc[c] = 3
        /\ mode[c] = "run"
    BY <1>2, GivenStatus
  <2>5. Len(Code(c)) \in Nat /\ Len(Code(c)) > 4
    BY <2>1, ConvertPlaces
  <2>6. \A n \in Nat : n > 4 => 3 # n
    OBVIOUS
  <2>2. 3 # Len(Code(c))
    BY <2>5, <2>6
  <2>3. mode'[c] = "run" /\ pc'[c] = 4 /\ request'[c] = request[c]
    BY <2>1, <2>2 DEF WritesAlone, EndsOrNot, Goes
  <2>4. Holder(c, d)'
    BY <2>1, <2>3 DEF Holder
  <2> QED
    BY <2>4
<1> QED
  BY <1>1, <1>2

LEMMA ConvertText ==
  ASSUME NEW r, Legal(r), r.op = "convert"
  PROVE  TextOf(r).source = r.doc
<1> DEFINE g == Given[r.doc].is
<1>1. r.doc \in GivenDocs /\ r.qty \in Nat
  BY DEF Legal
<1>2. Sound(g)
  BY <1>1, GivenSound
<1>3. g \in Content
  BY <1>2 DEF Sound
<1> HIDE DEF g
<1>4. \A type : [[g EXCEPT !.qty = r.qty, !.total = r.qty, !.own = 0, !.cheque = FALSE, !.source = None,
                           !.against = None]
                   EXCEPT !.type = type, !.source = r.doc].source = r.doc
  BY <1>3 DEF Content
<1> QED
  BY <1>4 DEF TextOf, Makers, Made, g

(* A claim is given back when the document cannot be made ("so the source  *)
(* can still be converted", convertTxn): a converted source has a          *)
(* conversion, one on its way, or one whose process died in between.       *)
LEMMA MarkedReleases ==
  ASSUME Kept, Papers, Marked
  PROVE  ClaimsAreReleased
<1> SUFFICES ASSUME NEW d \in GivenDocs, db[Status(d)] = "CONVERTED"
             PROVE  \/ \E e \in AllDocs : Is(e).source = d /\ InForce(e)
                    \/ \E c \in Clients : /\ request[c].op = "convert" /\ request[c].doc = d
                                          /\ mode[c] \in {"run", "undo", "crashed"}
  BY DEF ClaimsAreReleased
<1>1. Given[d].is.type \in OrderTypes
  BY DEF Papers
<1>2. CASE \E e \in GivenDocs : Given[e].is.source = d /\ InForce(e)
  BY <1>2 DEF AllDocs, Is
<1>3. CASE \E c \in Clients :
             \/ Holder(c, d)
             \/ mode[c] = "crashed" /\ request[c].op = "convert" /\ request[c].doc = d
  <2>1. PICK c \in Clients :
             \/ Holder(c, d)
             \/ mode[c] = "crashed" /\ request[c].op = "convert" /\ request[c].doc = d
    BY <1>3
  <2>2. CASE Committed(c) /\ Holder(c, d)
    <3>1. InForce(c) /\ c \in AllDocs /\ Is(c) = TextOf(request[c])
      BY <2>2, InForceIs
    <3>2. request[c].op = "convert" /\ request[c].doc = d /\ request[c] \in Requests
      BY <2>2 DEF Holder, Committed, Kept, Shapes, Shape
    <3>3. TextOf(request[c]).source = d
      BY <3>2, ConvertText, RequestsAssumption
    <3> QED
      BY <3>1, <3>3
  <2> QED
    BY <2>1, <2>2 DEF Holder
<1> QED
  BY <1>1, <1>2, <1>3 DEF Marked

(* Nobody deletes or restores a conversion of d. *)
Meddled(d) ==
  \E c \in Clients : request[c].op \in {"delete", "restore"} /\ Given[request[c].doc].is.source = d

Once ==
  \A d \in GivenDocs :
    Given[d].is.type \in {"ESTIMATE", "DELIVERY_CHALLAN"} /\ ~Meddled(d) =>
      /\ \A e \in GivenDocs : Given[e].is.source = d => db[Deleted(e)] = Given[e].deleted
      /\ (\E e \in GivenDocs : Given[e].is.source = d /\ Rests(e)) =>
           db[Status(d)] # "ORDER_OPEN" /\ \A c \in Clients : ~Holder(c, d)
      /\ \A c \in Clients : Holder(c, d) => db[Status(d)] = "CONVERTED"
      /\ \A c, e \in Clients : Holder(c, d) /\ Holder(e, d) => c = e

LEMMA OnceInit == Init => Once
<1> SUFFICES ASSUME Init, NEW d \in GivenDocs,
                    Given[d].is.type \in {"ESTIMATE", "DELIVERY_CHALLAN"}
             PROVE  /\ \A e \in GivenDocs : db[Deleted(e)] = Given[e].deleted
                    /\ (\E e \in GivenDocs : Given[e].is.source = d /\ Rests(e)) =>
                         db[Status(d)] # "ORDER_OPEN"
                    /\ \A c \in Clients : ~Holder(c, d)
  BY DEF Once
<1>1. \A c \in Clients : ~Holder(c, d)
  BY DEF Init, Holder, NoRequest
<1>2. \A x \in GivenDocs : db[Status(x)] = Given[x].status /\ db[Deleted(x)] = Given[x].deleted
  <2> TAKE x \in GivenDocs
  <2>1. x \in DocIds /\ Status(x) \in Rows /\ Deleted(x) \in Rows
    BY RowsAre DEF DocIds
  <2>2. Given[x].deleted \in BOOLEAN
    BY GivenSound DEF AtRest
  <2> QED
    BY <2>1, <2>2 DEF Init, Status, Deleted
<1>3. ASSUME NEW e \in GivenDocs, Given[e].is.source = d, Rests(e)
      PROVE  Given[d].status # "ORDER_OPEN"
  <2>1. AtRest(d)
    BY GivenSound
  <2>2. {x \in GivenDocs : Rests(x) /\ Given[x].is.source = d} # {}
    BY <1>3
  <2> QED
    BY <2>1, <2>2 DEF AtRest
<1> QED
  BY <1>1, <1>2, <1>3

LEMMA OnceStep ==
  ASSUME Kept, SeenOpen, Papers, Once, NEW c \in Clients, AStep(c)
  PROVE  Once'
<1> SUFFICES ASSUME NEW d \in GivenDocs,
                    Given[d].is.type \in {"ESTIMATE", "DELIVERY_CHALLAN"}, ~Meddled(d)'
             PROVE  /\ \A e \in GivenDocs : Given[e].is.source = d => db'[Deleted(e)] = Given[e].deleted
                    /\ (\E e \in GivenDocs : Given[e].is.source = d /\ Rests(e)) =>
                         db'[Status(d)] # "ORDER_OPEN" /\ \A e \in Clients : ~Holder(e, d)'
                    /\ \A e \in Clients : Holder(e, d)' => db'[Status(d)] = "CONVERTED"
                    /\ \A e, f \in Clients : Holder(e, d)' /\ Holder(f, d)' => e = f
  BY DEF Once
<1>1. ~Meddled(d)
  <2>1. \A e \in Clients : request'[e] = request[e] \/ request[e] = NoRequest
    BY AloneSteps DEF Alone, Same, AStep, Starts, Begins, ReadsIt, WritesInside, WritesAlone, Commits,
       Releases, Refuses, Loses, Crashes, Goes, Fails, Stops, Kept, Shapes, Shape
  <2> QED
    BY <2>1 DEF Meddled, NoRequest
<1>2. /\ \A e \in GivenDocs : Given[e].is.source = d => db[Deleted(e)] = Given[e].deleted
      /\ (\E e \in GivenDocs : Given[e].is.source = d /\ Rests(e)) =>
           db[Status(d)] # "ORDER_OPEN" /\ \A e \in Clients : ~Holder(e, d)
      /\ \A e \in Clients : Holder(e, d) => db[Status(d)] = "CONVERTED"
      /\ \A e, f \in Clients : Holder(e, d) /\ Holder(f, d) => e = f
  BY <1>1 DEF Once
<1>3. \A e \in GivenDocs : Given[e].is.source = d => db'[Deleted(e)] = Given[e].deleted
  BY <1>1, <1>2, DeletedStep DEF Meddled
<1>4. \A e \in Clients : e # c => (Holder(e, d)' <=> Holder(e, d))
  BY HolderOthers
<1>5. Given[d].is.type \in OrderTypes
  BY DEF OrderTypes
<1>6. CASE db'[Status(d)] = db[Status(d)]
  <2>1. Holder(c, d)' => Holder(c, d)
    <3> SUFFICES ASSUME Holder(c, d)', ~Holder(c, d) PROVE FALSE
      OBVIOUS
    <3>1. /\ WritesAlone(c) /\ pc[c] = 3 /\ mode[c] = "run"
          /\ request[c].op = "convert" /\ request[c].doc = d
      BY HolderStep
    <3>2. Now(c) = Claim(Status(d), Seen(seen[c], Status(d)), StatusAfter(seen[c], request[c]))
      BY <3>1, ConvertPlaces
    <3>3. Seen(seen[c], Status(d)) = "ORDER_OPEN"
      BY <3>1 DEF SeenOpen
    <3>4. StatusAfter(seen[c], request[c]) = "CONVERTED"
      BY <3>1 DEF StatusAfter
    <3>5. Now(c).op = "claim" /\ Now(c).row = Status(d) /\ Now(c).from = "ORDER_OPEN"
          /\ Now(c).v = "CONVERTED" /\ Status(d) \in Rows
      BY <3>2, <3>3, <3>4, RowsAre DEF Claim, DocIds
    <3>6. db'[Status(d)] = "CONVERTED"
      BY <3>1, <3>5 DEF WritesAlone, Value, Kept, Shapes
    <3>7. View(c, Status(d)) = "ORDER_OPEN" /\ c \notin open
      BY <3>1, <3>5 DEF WritesAlone, MayWrite
    <3>8. buf[c] = NothingWritten
      BY <3>7 DEF Kept, Shapes, Shape
    <3>9. db[Status(d)] = "ORDER_OPEN"
      BY <3>5, <3>7, <3>8, ViewOfRow DEF NothingWritten
    <3> QED
      BY <1>6, <3>6, <3>9
  <2> QED
    BY <1>2, <1>3, <1>4, <1>6, <2>1
<1>7. CASE db'[Status(d)] # db[Status(d)]
  <2>1. \/ /\ Releases(c) /\ request[c].doc = d /\ db'[Status(d)] = "ORDER_OPEN"
        \/ /\ WritesAlone(c) /\ request[c].op = "convert" /\ request[c].doc = d /\ pc[c] = 3
           /\ mode[c] = "run" /\ db[Status(d)] = "ORDER_OPEN"
           /\ db'[Status(d)] = StatusAfter(seen[c], request[c])
    BY <1>1, <1>5, <1>7, GivenStatus DEF Meddled
  <2>2. CASE Releases(c) /\ request[c].doc = d
    <3>1. Holder(c, d) /\ db'[Status(d)] = "ORDER_OPEN"
      BY <2>1, <2>2, UndoPlaced DEF Holder, Releases, Kept, WritesAlone, Goes
    <3>2. ~Holder(c, d)'
      <4>2. mode[c] = "undo" /\ pc[c] = 1 /\ request[c].op = "convert" /\ request[c] \in Requests
        BY <2>2, UndoPlaced DEF Releases, Kept
      <4>3. Upto(c) \in Nat /\ From(c) \in Nat /\ 0 < From(c) /\ From(c) < Upto(c)
        <5>1. WellPlaced(Code(c), c, request[c], seen[c])
          BY <4>2, HandlersPlaced DEF Code
        <5> QED
          BY <4>2, <5>1 DEF WellPlaced, Upto, From
      <4>1. mode'[c] = "done" /\ ~Commits(c) /\ ~Committed(c)
        BY <2>2, <4>2, <4>3 DEF Releases, Committed, Commits, Goes
      <4> QED
        BY <4>1, CommittedStep DEF Holder
    <3> QED
      BY <1>2, <1>3, <1>4, <3>1, <3>2
  <2>3. CASE /\ WritesAlone(c) /\ request[c].op = "convert" /\ request[c].doc = d /\ pc[c] = 3
             /\ mode[c] = "run" /\ db[Status(d)] = "ORDER_OPEN"
             /\ db'[Status(d)] = StatusAfter(seen[c], request[c])
    <3>1. db'[Status(d)] = "CONVERTED"
      BY <2>3 DEF StatusAfter
    <3>2. \A e \in Clients : ~Holder(e, d)
      BY <1>2, <2>3
    <3>3. ~\E e \in GivenDocs : Given[e].is.source = d /\ Rests(e)
      BY <1>2, <2>3
    <3> QED
      BY <1>3, <1>4, <3>1, <3>2, <3>3
  <2> QED
    BY <2>1, <2>2, <2>3
<1> QED
  BY <1>6, <1>7

LEMMA OnceConverted ==
  ASSUME Kept, Papers, Once
  PROVE  ConvertedOnce
<1> SUFFICES ASSUME NEW d \in GivenDocs,
                    Given[d].is.type \in {"ESTIMATE", "DELIVERY_CHALLAN"}, ~Meddled(d)
             PROVE  Cardinality({e \in AllDocs : Is(e).source = d /\ InForce(e)}) <= 1
  BY DEF ConvertedOnce, Meddled
<1> DEFINE S == {e \in AllDocs : Is(e).source = d /\ InForce(e)}
<1>1. d # None /\ Given[d].is.type \in OrderTypes
  BY NamesAssumption DEF DocIds, OrderTypes
<1>2. ASSUME NEW e \in S, e \in GivenDocs
      PROVE  Given[e].is.source = d /\ Rests(e)
  <2>1. Given[e].is.source = d /\ InForce(e) /\ e \in GivenDocs
    BY <1>2 DEF Is
  <2> HIDE DEF S
  <2>2. ~db[Deleted(e)]
    BY <1>1, <2>1, InForceIs
  <2>4. db[Deleted(e)] = Given[e].deleted
    BY <2>1 DEF Once
  <2>5. AtRest(e)
    BY <2>1, GivenSound
  <2>3. Given[e].status # "HELD"
    BY <1>1, <2>1, <2>5 DEF AtRest
  <2> QED
    BY <2>1, <2>2, <2>3, <2>4 DEF Rests
<1>3. ASSUME NEW e \in S, e \notin GivenDocs
      PROVE  e \in Clients /\ Holder(e, d)
  <2>1. e \in Clients /\ MakesDoc(e) /\ InForce(e) /\ Is(e).source = d
    BY <1>3 DEF AllDocs, NewDocs
  <2>2. Committed(e) /\ TextOf(request[e]).source = d
    BY <2>1, InForceIs
  <2>3. request[e] \in Requests /\ Legal(request[e])
    BY <2>1, RequestsAssumption DEF MakesDoc, Kept, Shapes, Shape
  <2>4. request[e].op = "convert"
    <3>1. CASE request[e].op = "create"
      BY <1>1, <2>2, <2>3, <3>1 DEF Legal, TextOf, Made, Makers
    <3>2. CASE request[e].op = "refund"
      <4> DEFINE g == Given[request[e].doc].is
      <4>1. g \in Content
        BY <2>3, <3>2, GivenSound DEF Legal, Sound
      <4>2. TextOf(request[e]).source = None
        BY <3>2, <4>1 DEF TextOf, Made, Makers, Content
      <4> QED
        BY <1>1, <2>2, <4>2
    <3> QED
      BY <2>1, <3>1, <3>2 DEF MakesDoc, Makers
  <2>5. request[e].doc = d
    BY <2>2, <2>3, <2>4, ConvertText
  <2> QED
    BY <2>1, <2>2, <2>4, <2>5 DEF Holder
<1>4. \A e, f \in S : e = f
  <2> TAKE e, f \in S
  <2>1. CASE e \in GivenDocs /\ f \in GivenDocs
    <3>1. AtRest(d)
      BY GivenSound
    <3>2. \A x, y \in {x \in GivenDocs : Rests(x) /\ Given[x].is.source = d} : x = y
      BY <3>1 DEF AtRest
    <3> QED
      BY <1>2, <2>1, <3>2
  <2>2. CASE e \notin GivenDocs /\ f \notin GivenDocs
    BY <1>3, <2>2 DEF Once
  <2>3. CASE (e \in GivenDocs /\ f \notin GivenDocs) \/ (e \notin GivenDocs /\ f \in GivenDocs)
    BY <1>2, <1>3, <2>3 DEF Once
  <2> QED
    BY <2>1, <2>2, <2>3
<1> HIDE DEF S
<1>5. CASE S = {}
  <2>1. Cardinality(S) = 0
    BY <1>5, FS_EmptySet
  <2> QED
    BY <2>1 DEF S
<1>6. CASE S # {}
  <2>1. PICK x : x \in S
    BY <1>6
  <2>2. S = {x}
    BY <1>4, <2>1
  <2>3. Cardinality(S) = 1
    BY <2>2, FS_Singleton
  <2> QED
    BY <2>3 DEF S
<1> QED
  BY <1>5, <1>6

(***************************************************************************)
(* Requests that overlapped.                                               *)
(***************************************************************************)

Pairs ==
  /\ \A c, e \in Clients : c # e /\ Active(c) /\ Active(e) => {c, e} \in together
  /\ \A pair \in together :
       \E c, e \in Clients : pair = {c, e} /\ c # e /\ mode[c] # "idle" /\ mode[e] # "idle"

LEMMA PairsInit == Init => Pairs
BY DEF Init, Pairs, Active

(* A request stays what it is once it was made, and an overlap is kept.    *)
LEMMA RequestKept ==
  ASSUME Kept, NEW c \in Clients, AStep(c)
  PROVE  /\ \A e \in Clients : mode[e] # "idle" => request'[e] = request[e] /\ mode'[e] # "idle"
         /\ \A e \in Clients : request'[e] # request[e] => request[e] = NoRequest
         /\ together \subseteq together'
<1>1. \A e \in Clients : e # c => Same(e)
  BY AloneSteps DEF Alone
<1>2. CASE Starts(c)
  BY <1>1, <1>2 DEF Starts, Same, Kept, Shapes, Shape
<1>3. CASE ~Starts(c)
  <2>1. request'[c] = request[c] /\ mode'[c] # "idle" /\ together' = together
    BY <1>3 DEF AStep, Begins, ReadsIt, WritesInside, WritesAlone, Commits, Goes, EndsOrNot,
                Releases, Refuses, Loses, Crashes, Fails, Stops
  <2> QED
    BY <1>1, <2>1 DEF Same
<1> QED
  BY <1>2, <1>3

LEMMA PairsStep ==
  ASSUME Kept, Pairs, NEW c \in Clients, AStep(c)
  PROVE  Pairs'
<1>1. \A e \in Clients : e # c => Same(e)
  BY AloneSteps DEF Alone
<1>2. CASE Starts(c)
  <2>1. /\ together' = together \cup {{c, e} : e \in {e \in Clients : Active(e)}}
        /\ mode[c] = "idle" /\ mode'[c] = "run"
    BY <1>2 DEF Starts
  <2>2. ~Active(c) /\ \A e \in Clients : e # c => (Active(e)' <=> Active(e)) /\ mode'[e] = mode[e]
    BY <1>1, <2>1 DEF Active, Same
  <2>3. ASSUME NEW x \in Clients, NEW y \in Clients, x # y, Active(x)', Active(y)'
        PROVE  {x, y} \in together'
    <3>1. CASE x # c /\ y # c
      BY <2>1, <2>2, <2>3, <3>1 DEF Pairs
    <3>2. CASE x = c
      BY <2>1, <2>2, <2>3, <3>2
    <3>3. CASE y = c
      <4>1. {c, x} \in together' /\ {x, y} = {c, x}
        BY <2>1, <2>2, <2>3, <3>3
      <4> QED
        BY <4>1
    <3> QED
      BY <3>1, <3>2, <3>3
  <2>4. ASSUME NEW pair \in together'
        PROVE  \E x, y \in Clients : pair = {x, y} /\ x # y /\ mode'[x] # "idle" /\ mode'[y] # "idle"
    <3>1. CASE pair \in together
      BY <2>1, <2>2, <3>1 DEF Pairs
    <3>2. CASE pair \notin together
      <4>1. PICK e \in Clients : Active(e) /\ pair = {c, e}
        BY <2>1, <2>4, <3>2
      <4> QED
        BY <2>1, <2>2, <4>1 DEF Active
    <3> QED
      BY <3>1, <3>2
  <2> QED
    BY <2>3, <2>4 DEF Pairs
<1>3. CASE ~Starts(c)
  <2>1. together' = together /\ Active(c) /\ mode'[c] # "idle"
    BY <1>3 DEF AStep, Begins, ReadsIt, WritesInside, WritesAlone, Commits, Goes, EndsOrNot,
                Releases, Refuses, Loses, Crashes, Fails, Stops, Active
  <2>2. \A e \in Clients : (Active(e)' => Active(e)) /\ (mode[e] # "idle" => mode'[e] # "idle")
    BY <1>1, <2>1 DEF Active, Same
  <2> QED
    BY <2>1, <2>2 DEF Pairs
<1> QED
  BY <1>2, <1>3

(***************************************************************************)
(* What a commit does to a row.                                            *)
(***************************************************************************)

LEMMA Untouched ==
  ASSUME Kept, NEW c \in Clients, Commits(c), NEW row \in Rows,
         \A k : Written(c, k) => Code(c)[k].row # row
  PROVE  db'[row] = db[row]
<1>1. row \notin DOMAIN buf[c]
  BY BufferRows
<1> QED
  BY <1>1 DEF Commits

LEMMA AddedOnce ==
  ASSUME Kept, NEW c \in Clients, Commits(c), NEW k \in 1 .. Len(Code(c)),
         From(c) < k, k < Upto(c), Code(c)[k].op = "add",
         \A j : Written(c, j) /\ j # k => Code(c)[j].row # Code(c)[k].row
  PROVE  db'[Code(c)[k].row] = db[Code(c)[k].row] + Code(c)[k].n
<1>1. Code(c)[k].op \in Writes
  BY DEF Writes
<1>2. Written(c, k) /\ db'[Code(c)[k].row] = buf[c][Code(c)[k].row]
  BY <1>1, CommitsWhatItWrote
<1>3. Buffer(c)
  BY CommitPlace DEF Kept, Buffers
<1> QED
  BY <1>2, <1>3 DEF Buffer

LEMMA PutOnce ==
  ASSUME Kept, NEW c \in Clients, Commits(c), NEW k \in 1 .. Len(Code(c)),
         From(c) < k, k < Upto(c), Code(c)[k].op \in {"put", "claim"},
         \A j : Written(c, j) /\ j # k => Code(c)[j].row # Code(c)[k].row
  PROVE  db'[Code(c)[k].row] = Code(c)[k].v
<1>1. Code(c)[k].op \in Writes
  BY DEF Writes
<1>2. PICK j \in 1 .. Len(Code(c)) :
         /\ Written(c, j) /\ Code(c)[j].row = Code(c)[k].row
         /\ Code(c)[j].op # "add" => db'[Code(c)[k].row] = Code(c)[j].v
  BY <1>1, CommitsWhatItWrote
<1>3. j = k
  BY <1>2
<1> QED
  BY <1>2, <1>3

(* The effects lie inside the transaction. *)
LEMMA EffectInside ==
  ASSUME NEW c, NEW r, r.op \in PostingOps, NEW v, Posts(r, v),
         NEW k \in 1 .. Len(Effects(c, r, v))
  PROVE  /\ Base(r) + k \in 1 .. Len(Handler(c, r, v))
         /\ Handler(c, r, v)[Base(r) + k] = Effects(c, r, v)[k]
         /\ BeginAt(r) < Base(r) + k /\ Base(r) + k < CommitAt(c, r, v)
<1> DEFINE e == Effects(c, r, v)
           q == Handler(c, r, v)
           n == Len(e)
<1>1. HandlerLaid(q, e, c, r, v)
  BY PostingHandler
<1>2. n \in Nat
  BY EffectsSeq
<1>3. Base(r) \in 4 .. 8
  BY DEF Base, PostingOps
<1>4. BeginAt(r) \in Nat /\ BeginAt(r) <= Base(r)
  <2>1. r.op \in Makers => BeginAt(r) = Base(r) - 4
    BY DEF BeginAt, Makers, LoanOps
  <2>2. r.op \notin Makers => BeginAt(r) <= Base(r) /\ BeginAt(r) \in Nat
    BY DEF BeginAt, Base, PostingOps, Makers, LoanOps
  <2> QED
    BY <1>3, <2>1, <2>2
<1> HIDE DEF e, q, n
<1>5. n = Len(e) /\ k \in 1 .. n
  BY DEF n, e
<1>6. OpLaid(q, e, c, r, v) /\ CommitAt(c, r, v) = IF r.op = "refund" THEN n + 9 ELSE Len(q)
  BY <1>1 DEF HandlerLaid, CommitAt, PostingOps, n, e, q
<1>7. Base(r) + n < CommitAt(c, r, v) /\ Base(r) + n <= Len(q) /\ Len(q) \in Nat
  <2>1. CASE r.op = "create"
    BY <1>2, <1>3, <1>5, <1>6, <2>1 DEF OpLaid
  <2>2. CASE r.op = "resume"
    BY <1>2, <1>5, <1>6, <2>2 DEF OpLaid, Base
  <2>3. CASE r.op = "delete"
    <3>1. Len(q) = n + 7 \/ Len(q) = n + 8
      BY <1>5, <1>6, <2>3 DEF OpLaid
    <3>2. Base(r) = 5 /\ CommitAt(c, r, v) = Len(q)
      BY <1>6, <2>3 DEF Base
    <3> QED
      BY <1>2, <3>1, <3>2
  <2>4. CASE r.op = "restore"
    BY <1>2, <1>5, <1>6, <2>4 DEF OpLaid, Base
  <2>5. CASE r.op = "refund"
    BY <1>2, <1>5, <1>6, <2>5 DEF OpLaid, Base
  <2>6. CASE r.op = "convert"
    BY <1>2, <1>5, <1>6, <2>6 DEF OpLaid, Base
  <2> QED
    BY <2>1, <2>2, <2>3, <2>4, <2>5, <2>6 DEF PostingOps
<1>8. /\ Base(r) + k \in 1 .. Len(q) /\ Base(r) + k \in Base(r) + 1 .. Base(r) + n
      /\ BeginAt(r) < Base(r) + k /\ k = (Base(r) + k) - Base(r)
  BY <1>2, <1>3, <1>4, <1>5, <1>7
<1>10. Base(r) + k < CommitAt(c, r, v)
  BY <1>2, <1>3, <1>5, <1>6, <1>7
<1>9. q[Base(r) + k] = e[k]
  BY <1>8, EffectPosts DEF q, e, n
<1> QED
  BY <1>8, <1>9, <1>10 DEF q, e

(***************************************************************************)
(* Numbers.                                                                *)
(***************************************************************************)

Number == {"item", "level", "seq", "party", "money", "loan", "paid", "allocated", "owed"}

Numeric(f) == \A row \in DOMAIN f : row[1] \in Number => f[row] \in Int

Numbers == Numeric(db) /\ \A c \in Clients : Numeric(buf[c]) /\ Numeric(seen[c])

LEMMA ContentNumbers ==
  ASSUME NEW t \in Content
  PROVE  OnStock(t) \in Int /\ OnParty(t) \in Int /\ OnMoney(t) \in Int
<1>1. t \in Content
  OBVIOUS
<1>2. t.qty \in Nat /\ t.total \in Nat /\ t.own \in Nat
  BY <1>1 DEF Content
<1>3. OnStock(t) \in Int
  <2>1. [t EXCEPT !.item = Stock].qty = t.qty
    BY <1>1 DEF Content
  <2> DEFINE u == [t EXCEPT !.item = Stock]
  <2> HIDE DEF u
  <2>2. StockEffect(u, Stock) \in Int
    BY <1>2, <2>1 DEF StockEffect, u
  <2> QED
    BY <2>2 DEF OnStock, u
<1>4. OnParty(t) \in Int
  BY <1>2 DEF OnParty, PartyDelta
<1>5. OnMoney(t) \in Int
  BY <1>2 DEF OnMoney, Signed
<1> QED
  BY <1>3, <1>4, <1>5

LEMMA TextNumbers ==
  ASSUME NEW t, Sound(t)
  PROVE  OnStock(t) \in Int /\ OnParty(t) \in Int /\ OnMoney(t) \in Int
BY ContentNumbers DEF Sound

LEMMA SeenNumber ==
  ASSUME NEW v, Numeric(v), NEW row, row[1] \in Number
  PROVE  Seen(v, row) \in Int
<1>1. row[1] \notin {"status", "cheque"}
  BY DEF Number
<1> QED
  BY <1>1 DEF Numeric, Seen

LEMMA AmountNumber ==
  ASSUME NEW v, Numeric(v), NEW r, Legal(r), r.op \in PostingOps
  PROVE  /\ AmountOf(r, v) \in Int
         /\ r.op \in Makers => AmountOf(r, v) \in Nat /\ AmountOf(r, v) <= TextOf(r).total
<1>1. Sound(TextOf(r)) /\ TextOf(r).total \in Nat
  BY TextSound DEF Sound, Content
<1>2. \A d : Seen(v, <<"owed", d>>) \in Int /\ Seen(v, Allocated(d)) \in Int
  BY SeenNumber DEF Number, Allocated
<1>3. CASE r.op = "create" /\ r.in.pays # None
  <2>1. TextOf(r) = r.in
    BY <1>3 DEF TextOf, Made, Makers
  <2> DEFINE owed == Seen(v, <<"owed", r.in.pays>>)
  <2>2. AmountOf(r, v) = IF owed < 0 THEN 0 ELSE IF owed < r.in.total THEN owed ELSE r.in.total
    BY <1>3 DEF AmountOf
  <2>3. owed \in Int /\ r.in.total \in Nat
    BY <1>1, <1>2, <2>1
  <2> QED
    BY <2>1, <2>2, <2>3
<1>4. CASE r.op \in {"delete", "restore"}
  BY <1>2, <1>4 DEF AmountOf, Makers
<1>5. CASE ~(r.op = "create" /\ r.in.pays # None) /\ r.op \notin {"delete", "restore"}
  <2>1. AmountOf(r, v) = 0
    BY <1>5 DEF AmountOf
  <2> QED
    BY <1>1, <2>1
<1> QED
  BY <1>3, <1>4, <1>5

(* Numbers are written where numbers belong. *)
WritesNumber(s) ==
  s.row[1] \in Number => /\ s.op = "add" => s.n \in Int
                         /\ s.op # "add" => s.v \in Int

LEMMA EffectNumbers ==
  ASSUME NEW c, NEW r, Legal(r), r.op \in PostingOps, NEW v, Numeric(v),
         NEW s, s.op \in Writes, IsEffect(s, c, r, v)
  PROVE  WritesNumber(s)
<1> DEFINE t == TextOf(r)
           u == Undoes(r)
<1>1. Sound(t)
  BY TextSound
<1>2. OnStock(t) \in Int /\ OnParty(t) \in Int /\ OnMoney(t) \in Int
  BY <1>1, TextNumbers
<1>3. Units(r) \in Int /\ Signed(OnParty(t), u) \in Int /\ Signed(OnMoney(t), u) \in Int
  BY <1>2 DEF Units, Signed
<1>4. Seen(v, Level(t.shop)) \in Int
  BY SeenNumber DEF Level, Number
<1>5. PaidThen(r, v) \in Int
  <2>1. AmountOf(r, v) \in Int
    BY AmountNumber
  <2>2. Seen(v, Paid(t.pays)) \in Int
    BY SeenNumber DEF Paid, Number
  <2> QED
    BY <2>1, <2>2 DEF PaidThen, Signed
<1> HIDE DEF t, u
<1>6. Seen(v, Level(t.shop)) + Units(r) \in Int
  BY <1>3, <1>4
<1>7. \/ \E row, n : s = Add(row, n) /\ n \in Int
      \/ \E row, n : s = Put(row, n) /\ n \in Int
      \/ \E d, x : s = Put(Cheque(d), x)
      \/ \E d, x : s = Put(Status(d), x)
      \/ \E row : s = Read(row)
      \/ \E row, n : s = Enough(row, n)
  BY <1>3, <1>5, <1>6, Zenon DEF IsEffect, t, u, Cashed
<1>8. \A row : Read(row).op \notin Writes /\ \A n : Enough(row, n).op \notin Writes
  BY DEF Read, Enough, Writes
<1> QED
  BY <1>7, <1>8 DEF WritesNumber, Add, Put, Cheque, Status, Number

LEMMA WriteNumbers ==
  ASSUME NEW c, NEW r, Legal(r), NEW v, Numeric(v), NEW s, s.op \in Writes, IsWrite(s, c, r, v)
  PROVE  WritesNumber(s)
<1> DEFINE t == TextOf(r)
           g == Given[r.doc].is
<1>1. CASE r.op \in PostingOps /\ IsEffect(s, c, r, v)
  BY <1>1, EffectNumbers
<1>2. r.qty \in Int /\ -r.qty \in Int
  BY DEF Legal
<1>3. \A shop : /\ Seen(v, Level(shop)) + r.qty \in Int /\ Seen(v, Level(shop)) - r.qty \in Int
  <2> TAKE shop
  <2>1. Seen(v, Level(shop)) \in Int
    BY SeenNumber DEF Level, Number
  <2> QED
    BY <1>2, <2>1
<1>4. r.op \in PostingOps => t.own \in Int /\ AmountOf(r, v) \in Int
  BY TextSound, AmountNumber DEF Sound, Content
<1>5. r.op \in {"deposit", "reopen"} =>
        Signed(OnMoney(g), TRUE) \in Int /\ Signed(OnMoney(g), FALSE) \in Int
  <2>1. r.op \in {"deposit", "reopen"} => OnMoney(g) \in Int
    BY GivenSound, TextNumbers DEF Legal
  <2> QED
    BY <2>1 DEF Signed
<1> HIDE DEF t, g
<1>6. CASE ~(r.op \in PostingOps /\ IsEffect(s, c, r, v))
  <2>1. \/ \E row, n : s = Add(row, n) /\ n \in Int
        \/ \E row, n : s = Put(row, n) /\ n \in Int
        \/ \E d, x : s = Put(Status(d), x)
        \/ \E d, x : s = Put(Deleted(d), x)
        \/ \E d, x, y : s = Claim(Cheque(d), x, y) \/ s = Claim(Status(d), x, y)
    <3>0. 1 \in Int
      OBVIOUS
    <3>1. r.op \in PostingOps \cup OtherOps
      BY DEF Legal, Ops, PostingOps, OtherOps
    <3>2. CASE r.op \in PostingOps
      <4>1. r.op \notin {"deposit", "reopen", "adjust", "count", "move", "transfer",
                         "borrow", "openLoan", "loan", "loanEntry"}
        BY <3>2 DEF PostingOps
      <4>2. t.own \in Int /\ AmountOf(r, v) \in Int
        BY <1>4, <3>2
      <4> QED
        BY <1>6, <3>0, <3>2, <4>1, <4>2, Zenon DEF IsWrite, t
    <3>3. CASE r.op \in OtherOps
      <4>1. /\ r.op \notin Makers /\ r.op # "refund" /\ r.op # "convert" /\ r.op # "resume"
            /\ r.op # "restore" /\ r.op # "delete" /\ r.op \notin PostingOps
        BY <3>3 DEF OtherOps, Makers, PostingOps
      <4>2. \/ r.op = "deposit" /\ \/ s = Claim(Cheque(r.doc), "OPEN", "CLOSED")
                                   \/ s = Add(Money(g.shop), Signed(OnMoney(g), FALSE))
            \/ r.op = "reopen" /\ \/ s = Claim(Cheque(r.doc), "CLOSED", "OPEN")
                                  \/ s = Add(Money(g.shop), Signed(OnMoney(g), TRUE))
            \/ \E row : s = Add(row, r.qty) \/ s = Add(row, -r.qty) \/ s = Put(row, r.qty)
            \/ \E shop : \/ s = Put(Level(shop), Seen(v, Level(shop)) + r.qty)
                         \/ s = Put(Level(shop), Seen(v, Level(shop)) - r.qty)
        BY <4>1, Zenon DEF IsWrite, g
      <4> QED
        BY <1>2, <1>3, <1>5, <4>2
    <3> QED
      BY <3>1, <3>2, <3>3
  <2> QED
    BY <2>1 DEF WritesNumber, Add, Put, Claim, Cheque, Status, Deleted, Number
<1> QED
  BY <1>1, <1>6

(* Which rows are read. *)
LEMMA OtherReadsAre ==
  ASSUME NEW c, NEW r, r.op \in OtherOps, NEW v,
         NEW k \in 1 .. Len(Handler(c, r, v)), Handler(c, r, v)[k].op \in Reads
  PROVE  LET s == Handler(c, r, v)[k]
         IN  \/ r.op = "deposit" /\ k = 1 /\ s = Check(Cheque(r.doc), {"OPEN"})
             \/ r.op = "reopen" /\ k = 1 /\ s = Check(Cheque(r.doc), {"CLOSED"})
             \/ r.op = "adjust" /\ k = 3 /\ s = Read(Level(r.shop))
             \/ r.op = "move" /\ k = 1 /\ s = Enough(Level(r.shop), -r.qty)
             \/ r.op = "move" /\ k = 2 /\ s = Read(Level(r.shop))
             \/ r.op = "move" /\ k = 3 /\ s = Read(Level(r.to))
<1> DEFINE q == Handler(c, r, v)
<1>1. k \in 1 .. Len(q) /\ q[k].op \in Reads
  OBVIOUS
<1>2. /\ Begin.op \notin Reads /\ Commit.op \notin Reads
      /\ \A row, n : Add(row, n).op \notin Reads /\ Put(row, n).op \notin Reads
      /\ \A row, x, y : Claim(row, x, y).op \notin Reads
  BY DEF Begin, Commit, Add, Put, Claim, Reads
<1>3. CASE r.op \in {"deposit", "reopen"}
  <2>1. \E d, from, to, n : q = <<Check(Cheque(r.doc), {from}), Begin, Claim(Cheque(d), from, to),
                                  Add(Money(Given[d].is.shop), n), Commit>>
                            /\ from = IF r.op = "deposit" THEN "OPEN" ELSE "CLOSED"
    BY <1>3 DEF Handler, Deposit
  <2>2. PICK d, from, to, n : q = <<Check(Cheque(r.doc), {from}), Begin, Claim(Cheque(d), from, to),
                                    Add(Money(Given[d].is.shop), n), Commit>>
                              /\ from = IF r.op = "deposit" THEN "OPEN" ELSE "CLOSED"
    BY <2>1
  <2> HIDE DEF q
  <2>3. Len(q) = 5 /\ q[1] = Check(Cheque(r.doc), {from}) /\ q[2] = Begin
        /\ q[3] = Claim(Cheque(d), from, to) /\ q[4] = Add(Money(Given[d].is.shop), n)
        /\ q[5] = Commit
    BY <2>2
  <2>4. k = 1
    BY <1>1, <1>2, <2>3
  <2> QED
    BY <1>3, <2>2, <2>3, <2>4 DEF q
<1>4. CASE r.op = "adjust"
  <2>1. q = Adjust(v, r.shop, r.qty)
    BY <1>4 DEF Handler
  <2> HIDE DEF q
  <2>2. k = 3 /\ q[3] = Read(Level(r.shop))
    BY <1>1, <1>2, <2>1 DEF Adjust
  <2> QED
    BY <1>4, <2>2 DEF q
<1>5. CASE r.op = "count"
  <2>1. q = Count(r.shop, r.qty)
    BY <1>5 DEF Handler
  <2> HIDE DEF q
  <2> QED
    BY <1>1, <1>2, <2>1 DEF Count
<1>6. CASE r.op = "move"
  <2>1. q = Move(v, r.shop, r.to, r.qty)
    BY <1>6 DEF Handler
  <2> HIDE DEF q
  <2>2. Len(q) = 7
    BY <2>1 DEF Move
  <2>3. q[1] = Enough(Level(r.shop), -r.qty) /\ q[2] = Read(Level(r.shop)) /\ q[3] = Read(Level(r.to))
    BY <2>1 DEF Move
  <2>4. /\ q[4] = Begin /\ \E n : q[5] = Put(Level(r.shop), n)
        /\ \E n : q[6] = Put(Level(r.to), n)
        /\ q[7] = Commit
    BY <2>1 DEF Move
  <2>5. k = 1 \/ k = 2 \/ k = 3 \/ k = 4 \/ k = 5 \/ k = 6 \/ k = 7
    BY <1>1, <2>2
  <2>6. k = 1 \/ k = 2 \/ k = 3
    BY <1>1, <1>2, <2>4, <2>5, Zenon
  <2> QED
    BY <1>6, <2>3, <2>6 DEF q
<1>7. CASE r.op = "transfer"
  <2>1. q = Transfer(r.shop, r.to, r.qty)
    BY <1>7 DEF Handler
  <2> HIDE DEF q
  <2> QED
    BY <1>1, <1>2, <2>1 DEF Transfer
<1>8. CASE r.op = "borrow"
  <2>1. q = Borrow(c, r.shop, r.qty)
    BY <1>8 DEF Handler
  <2> HIDE DEF q
  <2> QED
    BY <1>1, <1>2, <2>1 DEF Borrow
<1>9. CASE r.op = "loan"
  <2>1. q = LoanTxn(r.shop, r.qty)
    BY <1>9 DEF Handler
  <2> HIDE DEF q
  <2> QED
    BY <1>1, <1>2, <2>1 DEF LoanTxn
<1>10. CASE r.op = "openLoan"
  <2>1. q = OpenLoan(c, r.qty)
    BY <1>10 DEF Handler
  <2> HIDE DEF q
  <2> QED
    BY <1>1, <1>2, <2>1 DEF OpenLoan
<1>11. CASE r.op = "loanEntry"
  <2>1. q = LoanEntry(r.qty)
    BY <1>11 DEF Handler
  <2> HIDE DEF q
  <2> QED
    BY <1>1, <1>2, <2>1 DEF LoanEntry
<1> QED
  BY <1>3, <1>4, <1>5, <1>6, <1>7, <1>8, <1>9, <1>10, <1>11 DEF OtherOps

LEMMA ReadRows ==
  ASSUME NEW c \in Clients, NEW r \in Requests, NEW v,
         NEW k \in 1 .. Len(Handler(c, r, v)), Handler(c, r, v)[k].op \in Reads
  PROVE  LET row == Handler(c, r, v)[k].row
         IN  \/ row \in Rows
             \/ \E d \in GivenDocs : row = <<"owed", d>>
             \/ \E d \in GivenDocs, x \in {"linked", "returned", "received"} : row = <<x, d>>
<1> DEFINE s == Handler(c, r, v)[k]
<1>1. Legal(r) /\ r.op \in PostingOps \cup OtherOps /\ r.shop \in Shops
  BY RequestsAssumption DEF Legal, Ops, PostingOps, OtherOps
<1>2. CASE r.op \in OtherOps
  <2>1. s.row \in {Cheque(r.doc), Level(r.shop), Level(r.to)}
        /\ (s.row = Cheque(r.doc) => r.op \in {"deposit", "reopen"})
        /\ (s.row = Level(r.to) => r.op = "move" \/ s.row = Level(r.shop))
    <3>1. \/ r.op = "deposit" /\ k = 1 /\ s = Check(Cheque(r.doc), {"OPEN"})
          \/ r.op = "reopen" /\ k = 1 /\ s = Check(Cheque(r.doc), {"CLOSED"})
          \/ r.op = "adjust" /\ k = 3 /\ s = Read(Level(r.shop))
          \/ r.op = "move" /\ k = 1 /\ s = Enough(Level(r.shop), -r.qty)
          \/ r.op = "move" /\ k = 2 /\ s = Read(Level(r.shop))
          \/ r.op = "move" /\ k = 3 /\ s = Read(Level(r.to))
      BY <1>2, OtherReadsAre
    <3> HIDE DEF s
    <3> QED
      BY <3>1 DEF Check, Read, Enough, Cheque, Level
  <2>2. r.op \in {"deposit", "reopen"} => r.doc \in DocIds
    BY <1>1 DEF Legal, DocIds
  <2>3. r.op = "move" => r.to \in Shops
    BY <1>1 DEF Legal
  <2> QED
    BY <1>1, <2>1, <2>2, <2>3, RowsAre
<1>3. CASE r.op \in PostingOps
  <2>1. \/ FrontRead(s, k, r) \/ IsEffect(s, c, r, v)
    BY <1>3, ReadPlaces
  <2>2. s.op \in Reads
    OBVIOUS
  <2> HIDE DEF s
  <2>3. /\ r.op # "create" => r.doc \in GivenDocs
        /\ r.op = "create" => r.in.pays \in GivenDocs \cup {None}
        /\ Sound(TextOf(r))
    BY <1>1, <1>3, TextSound DEF Legal, Sound, Content
  <2>4. /\ TextOf(r).shop \in Shops /\ TextOf(r).pays \in GivenDocs \cup {None}
        /\ DocOf(c, r) \in DocIds
    BY <1>3, <2>3 DEF Sound, Content, DocOf, DocIds, Makers, PostingOps
  <2>5. CASE FrontRead(s, k, r)
    <3>1. \/ r.op = "create" /\ r.in.pays # None
             /\ s.row \in {Status(r.in.pays), Deleted(r.in.pays), <<"owed", r.in.pays>>}
          \/ r.op # "create" /\ s.row \in {Status(r.doc), Deleted(r.doc), Allocated(r.doc),
                                           <<"linked", r.doc>>, <<"returned", r.doc>>,
                                           <<"received", r.doc>>}
      <4>1. \A row, x : Check(row, x).row = row /\ Read(row).row = row
        BY DEF Check, Read
      <4>2. r.op = "create" => r.in.pays # None
        BY <2>5 DEF FrontRead
      <4>3. \/ r.op = "create" /\ \E row, x : /\ s = Check(row, x) \/ s = Read(row)
                                          /\ row \in {Status(r.in.pays), Deleted(r.in.pays),
                                                     <<"owed", r.in.pays>>}
            \/ r.op # "create"
        BY <2>5 DEF FrontRead
      <4>4. r.op # "create" =>
              \E row, x : /\ s = Check(row, x) \/ s = Read(row)
                         /\ row \in {Status(r.doc), Deleted(r.doc), Allocated(r.doc),
                                    <<"linked", r.doc>>, <<"returned", r.doc>>,
                                    <<"received", r.doc>>}
        BY <2>5 DEF FrontRead
      <4> QED
        BY <4>1, <4>2, <4>3, <4>4
    <3>2. \A d \in GivenDocs : Status(d) \in Rows /\ Deleted(d) \in Rows /\ Allocated(d) \in Rows
      BY RowsAre DEF DocIds
    <3>3. CASE r.op = "create"
      BY <2>3, <3>1, <3>2, <3>3 DEF s
    <3>4. CASE r.op # "create"
      BY <2>3, <3>1, <3>2, <3>4 DEF s
    <3> QED
      BY <3>3, <3>4
  <2>6. CASE IsEffect(s, c, r, v)
    <3>1. s.row \in Rows
      <4>1. \/ s.row = Stock \/ s.row = Level(TextOf(r).shop) \/ s.row = Cheque(DocOf(c, r))
            \/ TextOf(r).pays # None /\ s.row = Paid(TextOf(r).pays)
        BY <2>2, <2>6 DEF IsEffect, Cashed, Add, Put, Read, Enough, Reads
      <4> QED
        BY <2>4, <4>1, RowsAre DEF DocIds
    <3> QED
      BY <3>1 DEF s
  <2> QED
    BY <2>1, <2>5, <2>6
<1> QED
  BY <1>1, <1>2, <1>3

LEMMA NumbersInit == Init => Numbers
<1> SUFFICES ASSUME Init PROVE Numbers
  OBVIOUS
<1>1. ASSUME NEW row \in DOMAIN db, row[1] \in Number
      PROVE  db[row] \in Int
  <2>1. row \in Rows
    BY <1>1 DEF Init
  <2>2. row[1] # "owed"
    BY <2>1 DEF Rows, Stock, Level, Money, Seq_, Party, Loan, Status, Deleted, Paid, Allocated, Cheque
  <2>3. \A d \in GivenDocs : Given[d].paid \in Int /\ Given[d].allocated \in Int
    BY GivenSound DEF AtRest, Sound, Content
  <2>4. row[1] \in {"paid", "allocated"} =>
          db[row] = IF row[2] \notin GivenDocs THEN 0 ELSE Given[row[2]][row[1]]
    BY <2>1 DEF Init
  <2>5. row[1] = "item" \/ row[1] = "level" \/ row[1] \in {"seq", "party", "money", "loan"} =>
          db[row] \in {Stock0, 0}
    BY <2>1 DEF Init
  <2> QED
    BY <1>1, <2>2, <2>3, <2>4, <2>5, StockAssumption DEF Number
<1>2. \A c \in Clients : DOMAIN buf[c] = {} /\ DOMAIN seen[c] = {}
  BY DEF Init, NothingWritten
<1> QED
  BY <1>1, <1>2 DEF Numbers, Numeric

LEMMA WithNumeric ==
  ASSUME NEW f, Numeric(f), NEW row, NEW x, row[1] \in Number => x \in Int
  PROVE  Numeric(With(f, row, x))
BY DEF Numeric, With

LEMMA ViewNumber ==
  ASSUME Kept, Numbers, NEW c \in Clients, NEW row \in Rows, row[1] \in Number
  PROVE  View(c, row) \in Int
<1>1. DOMAIN db = Rows
  BY DEF Kept, Shapes
<1> QED
  BY <1>1, ViewOfRow DEF Numbers, Numeric

(* The value a statement gives its row. *)
LEMMA ValueNumber ==
  ASSUME Kept, Numbers, NEW c \in Clients, mode[c] = "run", Now(c).op \in Writes,
         Now(c).row[1] \in Number
  PROVE  Value(c, Now(c)) \in Int
<1>1. /\ request[c] \in Requests /\ pc[c] \in 1 .. Len(Code(c))
      /\ Placed(Now(c), pc[c], c, request[c], seen[c])
  BY NowPlaced DEF Kept
<1>2. Now(c).row \in Rows
  BY <1>1 DEF Placed
<1>3. IsWrite(Now(c), c, request[c], seen[c])
  BY <1>1, WritesAre DEF Code, Now
<1>4. WritesNumber(Now(c))
  BY <1>1, <1>3, WriteNumbers, RequestsAssumption DEF Numbers
<1>5. View(c, Now(c).row) \in Int
  BY <1>2, ViewNumber
<1> QED
  BY <1>4, <1>5 DEF WritesNumber, Value

LEMMA ReadNumber ==
  ASSUME Kept, Numbers, NEW c \in Clients, mode[c] = "run", Now(c).op \in Reads,
         Now(c).row[1] \in Number
  PROVE  View(c, Now(c).row) \in Int
<1> DEFINE row == Now(c).row
<1>1. request[c] \in Requests /\ pc[c] \in 1 .. Len(Code(c))
  BY NowPlaced DEF Kept
<1>2. \/ row \in Rows
      \/ \E d \in GivenDocs : row = <<"owed", d>>
      \/ \E d \in GivenDocs, x \in {"linked", "returned", "received"} : row = <<x, d>>
  BY <1>1, ReadRows DEF Now, Code
<1>3. CASE row \in Rows
  BY <1>3, ViewNumber
<1>4. ASSUME NEW d \in GivenDocs, row = <<"owed", d>>
      PROVE  View(c, row) \in Int
  <2>1. row \notin DOMAIN buf[c]
    <3>1. row \notin Rows
      BY <1>4 DEF Rows, Stock, Level, Money, Seq_, Party, Loan, Status, Deleted, Paid, Allocated, Cheque
    <3> QED
      BY <3>1, BufferRows
  <2>2. View(c, row) = Is(d).total - db[Paid(d)]
    BY <1>4, <2>1 DEF View
  <2>3. Is(d).total \in Nat
    BY GivenSound DEF Is, Sound, Content
  <2>4. Paid(d) \in Rows /\ DOMAIN db = Rows
    BY RowsAre DEF DocIds, Kept, Shapes
  <2>5. db[Paid(d)] \in Int
    BY <2>4 DEF Numbers, Numeric, Number, Paid
  <2> QED
    BY <2>2, <2>3, <2>5
<1> QED
  BY <1>2, <1>3, <1>4 DEF Number

LEMMA NumbersStep ==
  ASSUME Kept, Numbers, NEW c \in Clients, AStep(c)
  PROVE  Numbers'
<1>1. \A e \in Clients : e # c => Numeric(buf[e])' /\ Numeric(seen[e])'
  BY AloneSteps DEF Alone, Same, Numbers, Numeric
<1>2. Numeric(NothingWritten)
  BY DEF Numeric, NothingWritten
<1>3. Numeric(db) /\ Numeric(buf[c]) /\ Numeric(seen[c]) /\ DOMAIN db = Rows
  BY DEF Numbers, Kept, Shapes
<1>4. CASE ReadsIt(c)
  <2>1. /\ db' = db /\ buf'[c] = buf[c] /\ mode[c] = "run" /\ Now(c).op \in Reads
        /\ seen'[c] = With(seen[c], Now(c).row, View(c, Now(c).row))
    BY <1>4 DEF ReadsIt, Goes
  <2>2. Numeric(seen'[c])
    BY <1>3, <2>1, ReadNumber, WithNumeric
  <2>3. Numeric(db') /\ Numeric(buf'[c])
    BY <1>3, <2>1
  <2> QED
    BY <1>1, <2>2, <2>3 DEF Numbers, Numeric
<1>5. CASE WritesInside(c)
  <2>1. /\ db' = db /\ seen'[c] = seen[c] /\ mode[c] = "run" /\ Now(c).op \in Writes
        /\ buf'[c] = With(buf[c], Now(c).row, Value(c, Now(c)))
    BY <1>5 DEF WritesInside, Goes, MayWrite
  <2>2. Numeric(buf'[c])
    BY <1>3, <2>1, ValueNumber, WithNumeric
  <2>3. Numeric(db') /\ Numeric(seen'[c])
    BY <1>3, <2>1
  <2> QED
    BY <1>1, <2>2, <2>3 DEF Numbers, Numeric
<1>6. CASE WritesAlone(c)
  <2>1. /\ buf'[c] = buf[c] /\ seen'[c] = seen[c] /\ mode[c] = "run" /\ Now(c).op \in Writes
        /\ db' = [db EXCEPT ![Now(c).row] = Value(c, Now(c))]
    BY <1>6 DEF WritesAlone, Goes, MayWrite
  <2>2. Now(c).row[1] \in Number => Value(c, Now(c)) \in Int
    BY <2>1, ValueNumber
  <2>3. Numeric(db')
    BY <1>3, <2>1, <2>2 DEF Numeric
  <2> QED
    BY <1>1, <1>3, <2>1, <2>3 DEF Numbers, Numeric
<1>7. CASE Commits(c)
  <2>1. /\ db' = [r \in Rows |-> IF r \in DOMAIN buf[c] THEN buf[c][r] ELSE db[r]]
        /\ buf'[c] = NothingWritten /\ seen'[c] = seen[c]
    BY <1>7 DEF Commits
  <2>2. Numeric(db')
    BY <1>3, <2>1 DEF Numeric
  <2> QED
    BY <1>1, <1>2, <1>3, <2>1, <2>2 DEF Numbers, Numeric
<1>8. CASE Releases(c)
  <2>1. /\ buf'[c] = buf[c] /\ seen'[c] = seen[c]
        /\ db' = [db EXCEPT ![Status(request[c].doc)] = Seen(seen[c], Status(request[c].doc))]
    BY <1>8 DEF Releases
  <2>2. Status(request[c].doc)[1] \notin Number
    BY DEF Status, Number
  <2>3. Numeric(db')
    BY <1>3, <2>1, <2>2 DEF Numeric
  <2> QED
    BY <1>1, <1>3, <2>1, <2>3 DEF Numbers, Numeric
<1>9. CASE Starts(c) \/ Begins(c) \/ Refuses(c) \/ Loses(c) \/ Crashes(c)
  <2>1. db' = db /\ buf'[c] \in {buf[c], NothingWritten} /\ seen'[c] = seen[c]
    BY <1>9 DEF Starts, Begins, Refuses, Loses, Crashes, Fails, Stops
  <2> QED
    BY <1>1, <1>2, <1>3, <2>1 DEF Numbers, Numeric
<1> QED
  BY <1>4, <1>5, <1>6, <1>7, <1>8, <1>9 DEF AStep

(***************************************************************************)
(* What every step keeps, whatever it is that a theorem is about.          *)
(***************************************************************************)

Sane == Kept /\ SeenOpen /\ Papers /\ Pairs /\ Numbers

LEMMA SaneInit == Init => Sane
BY KeptInit, PapersInit, PairsInit, NumbersInit DEF Sane

LEMMA SaneStep ==
  ASSUME Sane, NEW c \in Clients, AStep(c)
  PROVE  Sane'
BY KeptStep, SeenOpenStep, PapersStep, PairsStep, NumbersStep DEF Sane

LEMMA SaneSame ==
  ASSUME Sane, UNCHANGED vars
  PROVE  Sane'
<1>1. Kept'
  BY KeptSame DEF Sane
<1>2. SeenOpen'
  BY DEF Sane, SeenOpen, vars
<1>3. Papers'
  BY DEF Sane, Papers, Committed, CommitAt, Upto, vars
<1>4. Pairs'
  BY DEF Sane, Pairs, Active, vars
<1>5. Numbers'
  BY DEF Sane, Numbers, vars
<1> QED
  BY <1>1, <1>2, <1>3, <1>4, <1>5 DEF Sane

LEMMA SaneNext ==
  ASSUME Sane, [Next]_vars
  PROVE  Sane' /\ (UNCHANGED vars \/ \E c \in Clients : AStep(c))
<1>1. UNCHANGED vars \/ \E c \in Clients : AStep(c)
  BY NextSteps DEF Sane, Kept
<1> QED
  BY <1>1, SaneStep, SaneSame

(* What every step keeps: each client is at a statement of its script, in a *)
(* transaction exactly between begin and commit; its buffer holds what the *)
(* statements it has passed wrote; no two transactions have written one    *)
(* row; a conversion found its source open; requests that overlap are      *)
(* recorded.                                                               *)
THEOREM RowsSane == Spec => []Sane
<1>1. Sane /\ [Next]_vars => Sane'
  BY SaneNext
<1> QED
  BY SaneInit, <1>1, PTL DEF Spec

(* A source marked CONVERTED has a conversion in force, one on its way, or *)
(* one whose process died between the two commits of convertTxn.           *)
THEOREM RowsClaimsReleased == Spec => []ClaimsAreReleased
<1>1. Init => Sane /\ Marked
  BY SaneInit, MarkedInit
<1>2. Sane /\ Marked /\ [Next]_vars => (Sane /\ Marked)'
  <2> SUFFICES ASSUME Sane, Marked, [Next]_vars PROVE Sane' /\ Marked'
    OBVIOUS
  <2>1. Sane' /\ (UNCHANGED vars \/ \E c \in Clients : AStep(c))
    BY SaneNext
  <2>2. CASE UNCHANGED vars
    BY <2>1, <2>2 DEF Marked, InForce, There, Holder, Committed, Upto, vars
  <2>3. ASSUME NEW c \in Clients, AStep(c)
        PROVE  Marked'
    BY <2>3, MarkedStep DEF Sane
  <2> QED
    BY <2>1, <2>2, <2>3
<1>3. Sane /\ Marked => ClaimsAreReleased
  BY MarkedReleases DEF Sane
<1> QED
  BY <1>1, <1>2, <1>3, PTL DEF Spec

(* An estimate or a challan whose conversions nobody deletes or restores   *)
(* has at most one in force, however many clients convert it at once.      *)
THEOREM RowsConvertedOnce == Spec => []ConvertedOnce
<1>1. Init => Sane /\ Once
  BY SaneInit, OnceInit
<1>2. Sane /\ Once /\ [Next]_vars => (Sane /\ Once)'
  <2> SUFFICES ASSUME Sane, Once, [Next]_vars PROVE Sane' /\ Once'
    OBVIOUS
  <2>1. Sane' /\ (UNCHANGED vars \/ \E c \in Clients : AStep(c))
    BY SaneNext
  <2>2. CASE UNCHANGED vars
    BY <2>1, <2>2 DEF Once, Meddled, Holder, Committed, Upto, vars
  <2>3. ASSUME NEW c \in Clients, AStep(c)
        PROVE  Once'
    BY <2>3, OnceStep DEF Sane
  <2> QED
    BY <2>1, <2>2, <2>3
<1>3. Sane /\ Once => ConvertedOnce
  BY OnceConverted DEF Sane
<1> QED
  BY <1>1, <1>2, <1>3, PTL DEF Spec

(***************************************************************************)
(* Which statement stands where, exactly.                                  *)
(***************************************************************************)

EffectAt(s, j, c, r, v) ==
  LET t == TextOf(r)
      d == DocOf(c, r)
      m == MoneyFrom(r)
      a == AllotFrom(r, v)
  IN  \/ /\ Units(r) # 0
         /\ \/ Tests(r) = 1 /\ ~Undoes(r) /\ Units(r) < 0 /\ j = 1 /\ s = Enough(Stock, Units(r))
            \/ j = Tests(r) + 1 /\ s = Add(Stock, Units(r))
            \/ j = Tests(r) + 2 /\ s = Read(Level(t.shop))
            \/ j = Tests(r) + 3 /\ s = Put(Level(t.shop), Seen(v, Level(t.shop)) + Units(r))
      \/ /\ OnParty(t) # 0 /\ j = StockLen(r) + 1
         /\ s = Add(Party(t.party), Signed(OnParty(t), Undoes(r)))
      \/ t.own # 0 /\ ~t.cheque /\ j = m + 1 /\ s = Cashed(r)
      \/ t.own # 0 /\ t.cheque /\ ~Undoes(r) /\ j = m + 1 /\ s = Put(Cheque(d), "OPEN")
      \/ /\ t.own # 0 /\ t.cheque /\ Undoes(r)
         /\ \/ j = m + 1 /\ s = Read(Cheque(d))
            \/ Seen(v, Cheque(d)) = "CLOSED" /\ \/ j = m + 2 /\ s = Cashed(r)
                                                \/ j = m + 3 /\ s = Put(Cheque(d), "NONE")
            \/ Seen(v, Cheque(d)) # "CLOSED" /\ j = m + 2 /\ s = Put(Cheque(d), "NONE")
      \/ /\ t.pays # None /\ AmountOf(r, v) # 0
         /\ \/ j = a + 1 /\ s = Read(Paid(t.pays))
            \/ j = a + 2 /\ s = Put(Paid(t.pays), PaidThen(r, v))
            \/ j = a + 3 /\ s = Put(Status(t.pays),
                                    Settlement(Given[t.pays].is.total, PaidThen(r, v)))

LEMMA EffectsAt ==
  ASSUME NEW c, NEW r, NEW v, Posts(r, v), NEW j \in 1 .. Len(Effects(c, r, v))
  PROVE  EffectAt(Effects(c, r, v)[j], j, c, r, v)
<1> DEFINE e == Effects(c, r, v)
           t == TextOf(r)
           d == DocOf(c, r)
<1>1. EffectsLaid(e, c, r, v)
  BY EffectsAre
<1>2. EffectPlace(j, r, v)
  BY <1>1, EffectPlaces DEF EffectsLaid
<1>3. Undoes(r) => d = r.doc
  BY DEF Undoes, DocOf, Makers
<1>4. Tests(r) \in {0, 1}
  BY Lengths
<1> HIDE DEF e
<1>5. CASE Units(r) # 0 /\ \/ Tests(r) = 1 /\ ~Undoes(r) /\ Units(r) < 0 /\ j = 1
                           \/ j = Tests(r) + 1 \/ j = Tests(r) + 2 \/ j = Tests(r) + 3
  BY <1>1, <1>5 DEF EffectsLaid, StockLaid, EffectAt, e, t, d
<1>6. CASE OnParty(t) # 0 /\ j = StockLen(r) + 1
  BY <1>1, <1>6 DEF EffectsLaid, EffectAt, e, t, d
<1>7. CASE t.own # 0 /\ ~(t.cheque /\ Undoes(r)) /\ j = MoneyFrom(r) + 1
  BY <1>1, <1>7 DEF EffectsLaid, MoneyLaid, EffectAt, e, t, d
<1>8. CASE /\ t.own # 0 /\ t.cheque /\ Undoes(r)
           /\ \/ j = MoneyFrom(r) + 1 \/ j = MoneyFrom(r) + 2
              \/ j = MoneyFrom(r) + 3 /\ Seen(v, Cheque(r.doc)) = "CLOSED"
  BY <1>1, <1>3, <1>8 DEF EffectsLaid, MoneyLaid, EffectAt, e, t, d
<1>9. CASE /\ t.pays # None /\ AmountOf(r, v) # 0
           /\ \/ j = AllotFrom(r, v) + 1 \/ j = AllotFrom(r, v) + 2 \/ j = AllotFrom(r, v) + 3
  BY <1>1, <1>9 DEF EffectsLaid, AllotLaid, EffectAt, e, t, d
<1> QED
  BY <1>2, <1>5, <1>6, <1>7, <1>8, <1>9 DEF EffectPlace, e

(* The writes of the other handlers. *)
OtherAt(s, k, c, r, v) ==
  LET g == Given[r.doc].is
  IN  \/ r.op = "deposit" /\ \/ k = 3 /\ s = Claim(Cheque(r.doc), "OPEN", "CLOSED")
                             \/ k = 4 /\ s = Add(Money(g.shop), Signed(OnMoney(g), FALSE))
      \/ r.op = "reopen" /\ \/ k = 3 /\ s = Claim(Cheque(r.doc), "CLOSED", "OPEN")
                            \/ k = 4 /\ s = Add(Money(g.shop), Signed(OnMoney(g), TRUE))
      \/ r.op = "adjust" /\ \/ k = 2 /\ s = Add(Stock, r.qty)
                            \/ k = 4 /\ s = Put(Level(r.shop), Seen(v, Level(r.shop)) + r.qty)
      \/ r.op = "count" /\ \/ k = 1 /\ s = Add(Level(r.shop), r.qty)
                           \/ k = 2 /\ s = Add(Stock, r.qty)
      \/ r.op = "move" /\ \/ k = 5 /\ s = Put(Level(r.shop), Seen(v, Level(r.shop)) - r.qty)
                          \/ k = 6 /\ s = Put(Level(r.to), Seen(v, Level(r.to)) + r.qty)
      \/ r.op = "transfer" /\ \/ k = 2 /\ s = Add(Money(r.shop), -r.qty)
                              \/ k = 3 /\ s = Add(Money(r.to), r.qty)
      \/ r.op = "borrow" /\ \/ k = 2 /\ s = Put(Loan(c), r.qty)
                            \/ k = 3 /\ s = Add(Money(r.shop), r.qty)
      \/ r.op = "loan" /\ \/ k = 2 /\ s = Add(Money(r.shop), r.qty)
                          \/ k = 3 /\ s = Add(Loan(None), r.qty)
      \/ r.op = "openLoan" /\ k = 2 /\ s = Put(Loan(c), r.qty)
      \/ r.op = "loanEntry" /\ k = 2 /\ s = Add(Loan(None), r.qty)

(* All of the other handlers, statement by statement. *)
OtherCode(q, c, r, v) ==
  LET g == Given[r.doc].is
  IN  /\ r.op \in {"deposit", "reopen"} =>
           /\ Len(q) = 5
           /\ \E x : q[1] = Check(Cheque(r.doc), {x}) /\ x = IF r.op = "deposit" THEN "OPEN" ELSE "CLOSED"
           /\ q[2] = Begin
           /\ r.op = "deposit" => /\ q[3] = Claim(Cheque(r.doc), "OPEN", "CLOSED")
                                  /\ q[4] = Add(Money(g.shop), Signed(OnMoney(g), FALSE))
           /\ r.op = "reopen" => /\ q[3] = Claim(Cheque(r.doc), "CLOSED", "OPEN")
                                 /\ q[4] = Add(Money(g.shop), Signed(OnMoney(g), TRUE))
           /\ q[5] = Commit
      /\ r.op = "adjust" =>
           /\ Len(q) = 5 /\ q[1] = Begin /\ q[2] = Add(Stock, r.qty) /\ q[3] = Read(Level(r.shop))
           /\ q[4] = Put(Level(r.shop), Seen(v, Level(r.shop)) + r.qty) /\ q[5] = Commit
      /\ r.op = "count" =>
           Len(q) = 2 /\ q[1] = Add(Level(r.shop), r.qty) /\ q[2] = Add(Stock, r.qty)
      /\ r.op = "move" =>
           /\ Len(q) = 7 /\ q[1] = Enough(Level(r.shop), -r.qty) /\ q[2] = Read(Level(r.shop))
           /\ q[3] = Read(Level(r.to)) /\ q[4] = Begin
           /\ q[5] = Put(Level(r.shop), Seen(v, Level(r.shop)) - r.qty)
           /\ q[6] = Put(Level(r.to), Seen(v, Level(r.to)) + r.qty) /\ q[7] = Commit
      /\ r.op = "transfer" =>
           /\ Len(q) = 4 /\ q[1] = Begin /\ q[2] = Add(Money(r.shop), -r.qty)
           /\ q[3] = Add(Money(r.to), r.qty) /\ q[4] = Commit
      /\ r.op = "borrow" =>
           /\ Len(q) = 4 /\ q[1] = Begin /\ q[2] = Put(Loan(c), r.qty)
           /\ q[3] = Add(Money(r.shop), r.qty) /\ q[4] = Commit
      /\ r.op = "loan" =>
           /\ Len(q) = 4 /\ q[1] = Begin /\ q[2] = Add(Money(r.shop), r.qty)
           /\ q[3] = Add(Loan(None), r.qty) /\ q[4] = Commit
      /\ r.op = "openLoan" =>
           Len(q) = 3 /\ q[1] = Begin /\ q[2] = Put(Loan(c), r.qty) /\ q[3] = Commit
      /\ r.op = "loanEntry" =>
           Len(q) = 3 /\ q[1] = Begin /\ q[2] = Add(Loan(None), r.qty) /\ q[3] = Commit

LEMMA OtherCodes ==
  ASSUME NEW c, NEW r, r.op \in OtherOps, NEW v
  PROVE  OtherCode(Handler(c, r, v), c, r, v)
<1> DEFINE q == Handler(c, r, v)
           g == Given[r.doc].is
<1>1. CASE r.op = "deposit"
  <2>1. q = Deposit(r.doc, "OPEN", "CLOSED")
    BY <1>1 DEF Handler
  <2>2. Signed(OnMoney(g), "CLOSED" = "OPEN") = Signed(OnMoney(g), FALSE)
    OBVIOUS
  <2> HIDE DEF q
  <2>3. /\ Len(q) = 5 /\ q[1] = Check(Cheque(r.doc), {"OPEN"}) /\ q[2] = Begin
        /\ q[3] = Claim(Cheque(r.doc), "OPEN", "CLOSED")
        /\ q[4] = Add(Money(g.shop), Signed(OnMoney(g), "CLOSED" = "OPEN"))
        /\ q[5] = Commit
    BY <2>1 DEF Deposit
  <2>4. OtherCode(q, c, r, v)
    BY <1>1, <2>2, <2>3 DEF OtherCode
  <2> QED
    BY <2>4 DEF q
<1>2. CASE r.op = "reopen"
  <2>1. q = Deposit(r.doc, "CLOSED", "OPEN")
    BY <1>2 DEF Handler
  <2>2. Signed(OnMoney(g), "OPEN" = "OPEN") = Signed(OnMoney(g), TRUE)
    OBVIOUS
  <2> HIDE DEF q
  <2>3. /\ Len(q) = 5 /\ q[1] = Check(Cheque(r.doc), {"CLOSED"}) /\ q[2] = Begin
        /\ q[3] = Claim(Cheque(r.doc), "CLOSED", "OPEN")
        /\ q[4] = Add(Money(g.shop), Signed(OnMoney(g), "OPEN" = "OPEN"))
        /\ q[5] = Commit
    BY <2>1 DEF Deposit
  <2>4. OtherCode(q, c, r, v)
    BY <1>2, <2>2, <2>3 DEF OtherCode
  <2> QED
    BY <2>4 DEF q
<1>3. CASE r.op = "adjust"
  <2>1. q = Adjust(v, r.shop, r.qty)
    BY <1>3 DEF Handler
  <2> HIDE DEF q
  <2>2. OtherCode(q, c, r, v)
    BY <1>3, <2>1 DEF Adjust, OtherCode
  <2> QED
    BY <2>2 DEF q
<1>4. CASE r.op = "count"
  <2>1. q = Count(r.shop, r.qty)
    BY <1>4 DEF Handler
  <2> HIDE DEF q
  <2>2. OtherCode(q, c, r, v)
    BY <1>4, <2>1 DEF Count, OtherCode
  <2> QED
    BY <2>2 DEF q
<1>5. CASE r.op = "move"
  <2>1. q = Move(v, r.shop, r.to, r.qty)
    BY <1>5 DEF Handler
  <2> HIDE DEF q
  <2>2. /\ Len(q) = 7 /\ q[1] = Enough(Level(r.shop), -r.qty) /\ q[2] = Read(Level(r.shop))
        /\ q[3] = Read(Level(r.to)) /\ q[4] = Begin /\ q[7] = Commit
    BY <2>1 DEF Move
  <2>3. /\ q[5] = Put(Level(r.shop), Seen(v, Level(r.shop)) - r.qty)
        /\ q[6] = Put(Level(r.to), Seen(v, Level(r.to)) + r.qty)
    BY <2>1 DEF Move
  <2>4. OtherCode(q, c, r, v)
    BY <1>5, <2>2, <2>3 DEF OtherCode
  <2> QED
    BY <2>4 DEF q
<1>6. CASE r.op = "transfer"
  <2>1. q = Transfer(r.shop, r.to, r.qty)
    BY <1>6 DEF Handler
  <2> HIDE DEF q
  <2>2. OtherCode(q, c, r, v)
    BY <1>6, <2>1 DEF Transfer, OtherCode
  <2> QED
    BY <2>2 DEF q
<1>7. CASE r.op = "borrow"
  <2>1. q = Borrow(c, r.shop, r.qty)
    BY <1>7 DEF Handler
  <2> HIDE DEF q
  <2>2. OtherCode(q, c, r, v)
    BY <1>7, <2>1 DEF Borrow, OtherCode
  <2> QED
    BY <2>2 DEF q
<1>8. CASE r.op = "loan"
  <2>1. q = LoanTxn(r.shop, r.qty)
    BY <1>8 DEF Handler
  <2> HIDE DEF q
  <2>2. OtherCode(q, c, r, v)
    BY <1>8, <2>1 DEF LoanTxn, OtherCode
  <2> QED
    BY <2>2 DEF q
<1>9. CASE r.op = "openLoan"
  <2>1. q = OpenLoan(c, r.qty)
    BY <1>9 DEF Handler
  <2> HIDE DEF q
  <2>2. OtherCode(q, c, r, v)
    BY <1>9, <2>1 DEF OpenLoan, OtherCode
  <2> QED
    BY <2>2 DEF q
<1>10. CASE r.op = "loanEntry"
  <2>1. q = LoanEntry(r.qty)
    BY <1>10 DEF Handler
  <2> HIDE DEF q
  <2>2. OtherCode(q, c, r, v)
    BY <1>10, <2>1 DEF LoanEntry, OtherCode
  <2> QED
    BY <2>2 DEF q
<1> QED
  BY <1>1, <1>2, <1>3, <1>4, <1>5, <1>6, <1>7, <1>8, <1>9, <1>10 DEF OtherOps

LEMMA OthersAt ==
  ASSUME NEW c, NEW r, r.op \in OtherOps, NEW v,
         NEW k \in 1 .. Len(Handler(c, r, v)), Handler(c, r, v)[k].op \in Writes
  PROVE  OtherAt(Handler(c, r, v)[k], k, c, r, v)
<1> DEFINE q == Handler(c, r, v)
<1>1. OtherCode(q, c, r, v)
  BY OtherCodes
<1>2. /\ Begin.op \notin Writes /\ Commit.op \notin Writes
      /\ \A row : Read(row).op \notin Writes
      /\ \A row, x : Check(row, x).op \notin Writes /\ Enough(row, x).op \notin Writes
  BY DEF Begin, Commit, Read, Check, Enough, Writes
<1>3. k \in 1 .. Len(q) /\ q[k].op \in Writes
  OBVIOUS
<1> HIDE DEF q
<1>4. CASE r.op \in {"deposit", "reopen"}
  <2>0. Len(q) = 5
    BY <1>1, <1>4 DEF OtherCode
  <2>1. k = 1 \/ k = 2 \/ k = 3 \/ k = 4 \/ k = 5
    BY <1>3, <2>0
  <2>2. q[1].op \notin Writes /\ q[2].op \notin Writes /\ q[5].op \notin Writes
    <3>1. PICK x : q[1] = Check(Cheque(r.doc), {x})
      BY <1>1, <1>4 DEF OtherCode
    <3>2. q[2] = Begin /\ q[5] = Commit
      BY <1>1, <1>4 DEF OtherCode
    <3> QED
      BY <1>2, <3>1, <3>2
  <2>3. k = 3 \/ k = 4
    BY <1>3, <2>1, <2>2
  <2> QED
    BY <1>1, <1>4, <2>3 DEF OtherCode, OtherAt, q
<1>5. CASE r.op = "adjust"
  <2>0. Len(q) = 5
    BY <1>1, <1>5 DEF OtherCode
  <2>1. k = 1 \/ k = 2 \/ k = 3 \/ k = 4 \/ k = 5
    BY <1>3, <2>0
  <2>2. k = 2 \/ k = 4
    BY <1>1, <1>2, <1>3, <1>5, <2>1 DEF OtherCode
  <2> QED
    BY <1>1, <1>5, <2>2 DEF OtherCode, OtherAt, q
<1>6. CASE r.op = "count"
  <2>0. Len(q) = 2
    BY <1>1, <1>6 DEF OtherCode
  <2>1. k = 1 \/ k = 2
    BY <1>3, <2>0
  <2> QED
    BY <1>1, <1>6, <2>1 DEF OtherCode, OtherAt, q
<1>7. CASE r.op = "move"
  <2>0. Len(q) = 7
    BY <1>1, <1>7 DEF OtherCode
  <2>1. k = 1 \/ k = 2 \/ k = 3 \/ k = 4 \/ k = 5 \/ k = 6 \/ k = 7
    BY <1>3, <2>0
  <2>2. k = 5 \/ k = 6
    BY <1>1, <1>2, <1>3, <1>7, <2>1 DEF OtherCode
  <2> QED
    BY <1>1, <1>7, <2>2 DEF OtherCode, OtherAt, q
<1>8. CASE r.op \in {"transfer", "borrow", "loan"}
  <2>0. Len(q) = 4
    BY <1>1, <1>8 DEF OtherCode
  <2>1. k = 1 \/ k = 2 \/ k = 3 \/ k = 4
    BY <1>3, <2>0
  <2>2. k = 2 \/ k = 3
    BY <1>1, <1>2, <1>3, <1>8, <2>1 DEF OtherCode
  <2> QED
    BY <1>1, <1>8, <2>2 DEF OtherCode, OtherAt, q
<1>9. CASE r.op \in {"openLoan", "loanEntry"}
  <2>0. Len(q) = 3
    BY <1>1, <1>9 DEF OtherCode
  <2>1. k = 1 \/ k = 2 \/ k = 3
    BY <1>3, <2>0
  <2>2. k = 2
    BY <1>1, <1>2, <1>3, <1>9, <2>1 DEF OtherCode
  <2> QED
    BY <1>1, <1>9, <2>2 DEF OtherCode, OtherAt, q
<1> QED
  BY <1>4, <1>5, <1>6, <1>7, <1>8, <1>9 DEF OtherOps

(* Every write of a handler. *)
WroteAt(s, k, c, r, v) ==
  \/ /\ r.op \in PostingOps /\ Posts(r, v)
     /\ k \in Base(r) + 1 .. Base(r) + Len(Effects(c, r, v))
     /\ EffectAt(s, k - Base(r), c, r, v)
  \/ r.op \in PostingOps /\ Frame(s, k, Len(Effects(c, r, v)), c, r, v)
  \/ r.op \in OtherOps /\ OtherAt(s, k, c, r, v)

LEMMA WritesAt ==
  ASSUME NEW c, NEW r, Legal(r), NEW v,
         NEW k \in 1 .. Len(Handler(c, r, v)), Handler(c, r, v)[k].op \in Writes
  PROVE  WroteAt(Handler(c, r, v)[k], k, c, r, v)
<1>1. r.op \in PostingOps \cup OtherOps
  BY DEF Legal, Ops, PostingOps, OtherOps
<1>2. CASE r.op \in OtherOps
  BY <1>2, OthersAt DEF WroteAt
<1>3. CASE r.op \in PostingOps
  <2>1. WriteAt(Handler(c, r, v)[k], k, c, r, v)
    BY <1>3, WritePlaces
  <2>2. CASE k \in Base(r) + 1 .. Base(r) + Len(Effects(c, r, v))
    BY <1>3, <2>2, EffectPosts, EffectsAt DEF WroteAt
  <2> QED
    BY <1>3, <2>1, <2>2 DEF WriteAt, WroteAt
<1> QED
  BY <1>1, <1>2, <1>3

(***************************************************************************)
(* The writes of one kind of row.                                          *)
(***************************************************************************)

EffectKinds(s, j, c, r, v) ==
  LET t == TextOf(r)
      d == DocOf(c, r)
      m == MoneyFrom(r)
      a == AllotFrom(r, v)
  IN  /\ s.row[1] \in {"item", "level", "party", "money", "cheque", "paid", "status"}
      /\ s.row[1] = "item" => Units(r) # 0 /\ j = Tests(r) + 1 /\ s = Add(Stock, Units(r))
      /\ s.row[1] = "level" =>
           /\ Units(r) # 0 /\ j = Tests(r) + 3
           /\ s = Put(Level(t.shop), Seen(v, Level(t.shop)) + Units(r))
      /\ s.row[1] = "party" =>
           /\ OnParty(t) # 0 /\ j = StockLen(r) + 1
           /\ s = Add(Party(t.party), Signed(OnParty(t), Undoes(r)))
      /\ s.row[1] = "money" =>
           /\ t.own # 0 /\ s = Cashed(r)
           /\ \/ ~t.cheque /\ j = m + 1
              \/ t.cheque /\ Undoes(r) /\ Seen(v, Cheque(d)) = "CLOSED" /\ j = m + 2
      /\ s.row[1] = "cheque" =>
           /\ t.own # 0 /\ t.cheque
           /\ \/ ~Undoes(r) /\ j = m + 1 /\ s = Put(Cheque(d), "OPEN")
              \/ /\ Undoes(r) /\ s = Put(Cheque(d), "NONE")
                 /\ j = IF Seen(v, Cheque(d)) = "CLOSED" THEN m + 3 ELSE m + 2
      /\ s.row[1] = "paid" =>
           /\ t.pays # None /\ AmountOf(r, v) # 0 /\ j = a + 2
           /\ s = Put(Paid(t.pays), PaidThen(r, v))
      /\ s.row[1] = "status" =>
           /\ t.pays # None /\ AmountOf(r, v) # 0 /\ j = a + 3
           /\ s = Put(Status(t.pays), Settlement(Given[t.pays].is.total, PaidThen(r, v)))

LEMMA EffectsKinds ==
  ASSUME NEW c, NEW r, NEW v, NEW s, NEW j, EffectAt(s, j, c, r, v), s.op \in Writes
  PROVE  EffectKinds(s, j, c, r, v)
<1> DEFINE t == TextOf(r)
           d == DocOf(c, r)
           m == MoneyFrom(r)
           a == AllotFrom(r, v)
           n == Units(r)
           level == Seen(v, Level(t.shop)) + n
           settled == Settlement(Given[t.pays].is.total, PaidThen(r, v))
<1>1. \/ n # 0 /\ j = Tests(r) + 1 /\ s = Add(Stock, n)
      \/ n # 0 /\ j = Tests(r) + 3 /\ s = Put(Level(t.shop), level)
      \/ /\ OnParty(t) # 0 /\ j = StockLen(r) + 1
         /\ s = Add(Party(t.party), Signed(OnParty(t), Undoes(r)))
      \/ /\ t.own # 0 /\ s = Cashed(r)
         /\ \/ ~t.cheque /\ j = m + 1
            \/ t.cheque /\ Undoes(r) /\ Seen(v, Cheque(d)) = "CLOSED" /\ j = m + 2
      \/ t.own # 0 /\ t.cheque /\ ~Undoes(r) /\ j = m + 1 /\ s = Put(Cheque(d), "OPEN")
      \/ /\ t.own # 0 /\ t.cheque /\ Undoes(r) /\ s = Put(Cheque(d), "NONE")
         /\ j = IF Seen(v, Cheque(d)) = "CLOSED" THEN m + 3 ELSE m + 2
      \/ /\ t.pays # None /\ AmountOf(r, v) # 0 /\ j = a + 2
         /\ s = Put(Paid(t.pays), PaidThen(r, v))
      \/ /\ t.pays # None /\ AmountOf(r, v) # 0 /\ j = a + 3 /\ s = Put(Status(t.pays), settled)
  <2>1. \A row : Read(row).op \notin Writes /\ \A x : Enough(row, x).op \notin Writes
    BY DEF Read, Enough, Writes
  <2> HIDE DEF t, d, m, a, n
  <2> QED
    BY <2>1 DEF EffectAt, t, d, m, a, n
<1>2. /\ Stock[1] = "item" /\ \A x : Level(x)[1] = "level" /\ Party(x)[1] = "party"
                                    /\ Money(x)[1] = "money" /\ Cheque(x)[1] = "cheque"
                                    /\ Paid(x)[1] = "paid" /\ Status(x)[1] = "status"
  BY DEF Stock, Level, Party, Money, Cheque, Paid, Status
<1>3. \A row, x : Add(row, x).row = row /\ Put(row, x).row = row
  BY DEF Add, Put
<1>4. Cashed(r).row = Money(t.shop)
  BY <1>3 DEF Cashed
<1> HIDE DEF t, d, m, a, n, level, settled
<1>5. CASE s.row[1] = "item"
  <2>1. n # 0 /\ j = Tests(r) + 1 /\ s = Add(Stock, n)
    BY <1>1, <1>2, <1>3, <1>4, <1>5
  <2> QED
    BY <1>5, <2>1 DEF EffectKinds, n
<1>6. CASE s.row[1] = "level"
  <2>1. n # 0 /\ j = Tests(r) + 3 /\ s = Put(Level(t.shop), level)
    BY <1>1, <1>2, <1>3, <1>4, <1>6
  <2> QED
    BY <1>6, <2>1 DEF EffectKinds, n, t, level
<1>7. CASE s.row[1] = "party"
  <2>1. /\ OnParty(t) # 0 /\ j = StockLen(r) + 1
        /\ s = Add(Party(t.party), Signed(OnParty(t), Undoes(r)))
    BY <1>1, <1>2, <1>3, <1>4, <1>7
  <2> QED
    BY <1>7, <2>1 DEF EffectKinds, t
<1>8. CASE s.row[1] = "money"
  <2>1. /\ t.own # 0 /\ s = Cashed(r)
        /\ \/ ~t.cheque /\ j = m + 1
           \/ t.cheque /\ Undoes(r) /\ Seen(v, Cheque(d)) = "CLOSED" /\ j = m + 2
    BY <1>1, <1>2, <1>3, <1>4, <1>8
  <2> QED
    BY <1>8, <2>1 DEF EffectKinds, t, d, m
<1>9. CASE s.row[1] = "cheque"
  <2>1. /\ t.own # 0 /\ t.cheque
        /\ \/ ~Undoes(r) /\ j = m + 1 /\ s = Put(Cheque(d), "OPEN")
           \/ /\ Undoes(r) /\ s = Put(Cheque(d), "NONE")
              /\ j = IF Seen(v, Cheque(d)) = "CLOSED" THEN m + 3 ELSE m + 2
    BY <1>1, <1>2, <1>3, <1>4, <1>9
  <2> QED
    BY <1>9, <2>1 DEF EffectKinds, t, d, m
<1>10. CASE s.row[1] = "paid"
  <2>1. /\ t.pays # None /\ AmountOf(r, v) # 0 /\ j = a + 2
        /\ s = Put(Paid(t.pays), PaidThen(r, v))
    BY <1>1, <1>2, <1>3, <1>4, <1>10
  <2> QED
    BY <1>10, <2>1 DEF EffectKinds, t, a
<1>11. CASE s.row[1] = "status"
  <2>1. /\ t.pays # None /\ AmountOf(r, v) # 0 /\ j = a + 3 /\ s = Put(Status(t.pays), settled)
    BY <1>1, <1>2, <1>3, <1>4, <1>11
  <2> QED
    BY <1>11, <2>1 DEF EffectKinds, t, a, settled
<1>12. s.row[1] \in {"item", "level", "party", "money", "cheque", "paid", "status"}
  BY <1>1, <1>2, <1>3, <1>4
<1> QED
  BY <1>5, <1>6, <1>7, <1>8, <1>9, <1>10, <1>11, <1>12

FrameKinds(s, k, c, r) ==
  LET t == TextOf(r)
  IN  /\ s.row[1] \in {"seq", "status", "paid", "allocated", "deleted"}
      /\ s.row[1] = "seq" =>
           r.op \in Makers /\ k = Base(r) - 3 /\ s = Add(Seq_(t.shop, t.type), 1)
      /\ s.row[1] = "paid" =>
           \/ r.op \in Makers /\ k = Base(r) - 1 /\ s = Put(Paid(c), t.own)
           \/ r.op = "resume" /\ k = 6 /\ s = Put(Paid(r.doc), t.own)

LEMMA FramesKinds ==
  ASSUME NEW c, NEW r, NEW v, NEW s, NEW k, NEW n, Frame(s, k, n, c, r, v), s.op \in Writes
  PROVE  FrameKinds(s, k, c, r)
<1> DEFINE t == TextOf(r)
<1>1. Begin.op \notin Writes /\ Commit.op \notin Writes
  BY DEF Begin, Commit, Writes
<1>2. \/ r.op \in Makers /\ k = Base(r) - 3 /\ s = Add(Seq_(t.shop, t.type), 1)
      \/ r.op \in Makers /\ k = Base(r) - 1 /\ s = Put(Paid(c), t.own)
      \/ r.op = "resume" /\ k = 6 /\ s = Put(Paid(r.doc), t.own)
      \/ \E x, y, z : s = Put(Status(x), y) \/ s = Put(Allocated(x), y) \/ s = Put(Deleted(x), y)
                      \/ s = Claim(Status(x), y, z)
  <2> HIDE DEF t
  <2> QED
    BY <1>1, Zenon DEF Frame, t
<1> HIDE DEF t
<1> QED
  BY <1>2 DEF FrameKinds, t, Put, Add, Claim, Seq_, Status, Paid, Allocated, Deleted

OtherKinds(s, k, c, r, v) ==
  LET g == Given[r.doc].is
  IN  /\ s.row[1] \in {"item", "level", "money", "loan", "cheque"}
      /\ s.row[1] = "item" => r.op \in {"adjust", "count"} /\ k = 2 /\ s = Add(Stock, r.qty)
      /\ s.row[1] = "level" =>
           \/ r.op = "adjust" /\ k = 4 /\ s = Put(Level(r.shop), Seen(v, Level(r.shop)) + r.qty)
           \/ r.op = "count" /\ k = 1 /\ s = Add(Level(r.shop), r.qty)
           \/ r.op = "move" /\ k = 5 /\ s = Put(Level(r.shop), Seen(v, Level(r.shop)) - r.qty)
           \/ r.op = "move" /\ k = 6 /\ s = Put(Level(r.to), Seen(v, Level(r.to)) + r.qty)
      /\ s.row[1] = "money" =>
           \/ r.op = "deposit" /\ k = 4 /\ s = Add(Money(g.shop), Signed(OnMoney(g), FALSE))
           \/ r.op = "reopen" /\ k = 4 /\ s = Add(Money(g.shop), Signed(OnMoney(g), TRUE))
           \/ r.op = "transfer" /\ k = 2 /\ s = Add(Money(r.shop), -r.qty)
           \/ r.op = "transfer" /\ k = 3 /\ s = Add(Money(r.to), r.qty)
           \/ r.op = "borrow" /\ k = 3 /\ s = Add(Money(r.shop), r.qty)
           \/ r.op = "loan" /\ k = 2 /\ s = Add(Money(r.shop), r.qty)
      /\ s.row[1] = "loan" =>
           \/ r.op = "borrow" /\ k = 2 /\ s = Put(Loan(c), r.qty)
           \/ r.op = "loan" /\ k = 3 /\ s = Add(Loan(None), r.qty)
           \/ r.op = "openLoan" /\ k = 2 /\ s = Put(Loan(c), r.qty)
           \/ r.op = "loanEntry" /\ k = 2 /\ s = Add(Loan(None), r.qty)
      /\ s.row[1] = "cheque" =>
           \/ r.op = "deposit" /\ k = 3 /\ s = Claim(Cheque(r.doc), "OPEN", "CLOSED")
           \/ r.op = "reopen" /\ k = 3 /\ s = Claim(Cheque(r.doc), "CLOSED", "OPEN")

LEMMA OthersKinds ==
  ASSUME NEW c, NEW r, NEW v, NEW s, NEW k, OtherAt(s, k, c, r, v)
  PROVE  OtherKinds(s, k, c, r, v)
<1> DEFINE g == Given[r.doc].is
<1>1. /\ Stock[1] = "item"
      /\ \A x : Level(x)[1] = "level" /\ Money(x)[1] = "money" /\ Cheque(x)[1] = "cheque"
                /\ Loan(x)[1] = "loan"
  BY DEF Stock, Level, Money, Cheque, Loan
<1>2. /\ \A row, x : Add(row, x).row = row /\ Put(row, x).row = row
      /\ \A row, x, y : Claim(row, x, y).row = row
  BY DEF Add, Put, Claim
<1> HIDE DEF g
<1>3. CASE r.op = "deposit"
  <2>1. CASE k = 3 /\ s = Claim(Cheque(r.doc), "OPEN", "CLOSED")
    BY <1>1, <1>2, <1>3, <2>1 DEF OtherKinds, g
  <2>2. CASE k = 4 /\ s = Add(Money(g.shop), Signed(OnMoney(g), FALSE))
    <3>0. \E n : s = Add(Money(g.shop), n)
      BY <2>2
    <3>1. s.row = Money(g.shop) /\ s.row[1] = "money"
      BY <1>1, <1>2, <3>0
    <3> QED
      BY <1>3, <2>2, <3>1 DEF OtherKinds, g
  <2> QED
    BY <1>3, <2>1, <2>2 DEF OtherAt, g
<1>4. CASE r.op = "reopen"
  <2>1. CASE k = 3 /\ s = Claim(Cheque(r.doc), "CLOSED", "OPEN")
    BY <1>1, <1>2, <1>4, <2>1 DEF OtherKinds, g
  <2>2. CASE k = 4 /\ s = Add(Money(g.shop), Signed(OnMoney(g), TRUE))
    <3>0. \E n : s = Add(Money(g.shop), n)
      BY <2>2
    <3>1. s.row = Money(g.shop) /\ s.row[1] = "money"
      BY <1>1, <1>2, <3>0
    <3> QED
      BY <1>4, <2>2, <3>1 DEF OtherKinds, g
  <2> QED
    BY <1>4, <2>1, <2>2 DEF OtherAt, g
<1>5. CASE r.op = "adjust"
  <2>1. CASE k = 2 /\ s = Add(Stock, r.qty)
    BY <1>1, <1>2, <1>5, <2>1 DEF OtherKinds, g
  <2>2. CASE k = 4 /\ s = Put(Level(r.shop), Seen(v, Level(r.shop)) + r.qty)
    BY <1>1, <1>2, <1>5, <2>2 DEF OtherKinds, g
  <2> QED
    BY <1>5, <2>1, <2>2 DEF OtherAt, g
<1>6. CASE r.op = "count"
  <2>1. CASE k = 1 /\ s = Add(Level(r.shop), r.qty)
    BY <1>1, <1>2, <1>6, <2>1 DEF OtherKinds, g
  <2>2. CASE k = 2 /\ s = Add(Stock, r.qty)
    BY <1>1, <1>2, <1>6, <2>2 DEF OtherKinds, g
  <2> QED
    BY <1>6, <2>1, <2>2 DEF OtherAt, g
<1>7. CASE r.op = "move"
  <2>1. CASE k = 5 /\ s = Put(Level(r.shop), Seen(v, Level(r.shop)) - r.qty)
    BY <1>1, <1>2, <1>7, <2>1 DEF OtherKinds, g
  <2>2. CASE k = 6 /\ s = Put(Level(r.to), Seen(v, Level(r.to)) + r.qty)
    BY <1>1, <1>2, <1>7, <2>2 DEF OtherKinds, g
  <2> QED
    BY <1>7, <2>1, <2>2 DEF OtherAt, g
<1>8. CASE r.op = "transfer"
  <2>1. CASE k = 2 /\ s = Add(Money(r.shop), -r.qty)
    BY <1>1, <1>2, <1>8, <2>1 DEF OtherKinds, g
  <2>2. CASE k = 3 /\ s = Add(Money(r.to), r.qty)
    BY <1>1, <1>2, <1>8, <2>2 DEF OtherKinds, g
  <2> QED
    BY <1>8, <2>1, <2>2 DEF OtherAt, g
<1>9. CASE r.op = "borrow"
  <2>1. CASE k = 2 /\ s = Put(Loan(c), r.qty)
    BY <1>1, <1>2, <1>9, <2>1 DEF OtherKinds, g
  <2>2. CASE k = 3 /\ s = Add(Money(r.shop), r.qty)
    BY <1>1, <1>2, <1>9, <2>2 DEF OtherKinds, g
  <2> QED
    BY <1>9, <2>1, <2>2 DEF OtherAt, g
<1>10. CASE r.op = "loan"
  <2>1. CASE k = 2 /\ s = Add(Money(r.shop), r.qty)
    BY <1>1, <1>2, <1>10, <2>1 DEF OtherKinds, g
  <2>2. CASE k = 3 /\ s = Add(Loan(None), r.qty)
    BY <1>1, <1>2, <1>10, <2>2 DEF OtherKinds, g
  <2> QED
    BY <1>10, <2>1, <2>2 DEF OtherAt, g
<1>11. CASE r.op = "openLoan" /\ k = 2 /\ s = Put(Loan(c), r.qty)
  BY <1>1, <1>2, <1>11 DEF OtherKinds, g
<1>12. CASE r.op = "loanEntry" /\ k = 2 /\ s = Add(Loan(None), r.qty)
  BY <1>1, <1>2, <1>12 DEF OtherKinds, g
<1> QED
  BY <1>3, <1>4, <1>5, <1>6, <1>7, <1>8, <1>9, <1>10, <1>11, <1>12 DEF OtherAt

(* What a handler writes to a row of some kind. *)
WroteKinds(s, k, c, r, v) ==
  \/ /\ r.op \in PostingOps /\ Posts(r, v)
     /\ k \in Base(r) + 1 .. Base(r) + Len(Effects(c, r, v))
     /\ EffectKinds(s, k - Base(r), c, r, v)
  \/ r.op \in PostingOps /\ FrameKinds(s, k, c, r)
  \/ r.op \in OtherOps /\ OtherKinds(s, k, c, r, v)

LEMMA WritesKinds ==
  ASSUME NEW c, NEW r \in Requests, NEW v,
         NEW k \in 1 .. Len(Handler(c, r, v)), Handler(c, r, v)[k].op \in Writes
  PROVE  WroteKinds(Handler(c, r, v)[k], k, c, r, v)
BY RequestsAssumption, WritesAt, EffectsKinds, FramesKinds, OthersKinds DEF WroteAt, WroteKinds

(***************************************************************************)
(* What a commit adds to a column.                                         *)
(***************************************************************************)

LEMMA WrittenKinds ==
  ASSUME Kept, NEW c \in Clients, Commits(c), NEW j, Written(c, j)
  PROVE  /\ j \in 1 .. Len(Code(c)) /\ WroteKinds(Code(c)[j], j, c, request[c], seen[c])
         /\ Code(c)[j].op \in Writes
<1>1. /\ pc[c] \in 1 .. Len(Code(c)) /\ Len(Code(c)) \in Nat /\ request[c] \in Requests
      /\ From(c) \in Nat
  BY NowPlaced DEF Kept, Commits, Goes
<1>2. j \in 1 .. Len(Code(c)) /\ Code(c)[j].op \in Writes
  BY <1>1 DEF Written
<1> QED
  BY <1>1, <1>2, WritesKinds DEF Code

PutKinds(s, k, c, r, v) ==
  \/ /\ r.op \in PostingOps /\ Commits(c) /\ Posts(r, v)
     /\ k \in Base(r) + 1 .. Base(r) + Len(Effects(c, r, v))
     /\ EffectKinds(s, k - Base(r), c, r, v)
  \/ r.op \in PostingOps /\ FrameKinds(s, k, c, r)
  \/ r.op \in OtherOps /\ OtherKinds(s, k, c, r, v) /\ Commits(c) /\ r.op # "count"
  \/ r.op = "count" /\ OtherKinds(s, k, c, r, v) /\ WritesAlone(c) /\ k = pc[c]

LEMMA PutsKinds ==
  ASSUME Kept, NEW c \in Clients, NEW row, NEW k, Puts(c, k, row)
  PROVE  /\ PutKinds(Code(c)[k], k, c, request[c], seen[c])
         /\ k \in 1 .. Len(Code(c)) /\ Code(c)[k].op \in Writes /\ Code(c)[k].row = row
<1> DEFINE r == request[c]
           v == seen[c]
           s == Code(c)[k]
<1>1. /\ r \in Requests /\ k \in 1 .. Len(Code(c)) /\ s.op \in Writes /\ s.row = row
  BY DEF Puts
<1>2. \/ Commits(c) /\ From(c) < k /\ k < Upto(c)
      \/ WritesAlone(c) /\ k = pc[c] /\ k = 3 /\ r.op = "convert"
      \/ /\ WritesAlone(c) /\ k = pc[c] /\ k = Upto(c) + 1 /\ r.op = "refund"
      \/ WritesAlone(c) /\ k = pc[c] /\ r.op = "count"
  BY PutsWhere
<1>3. WroteKinds(s, k, c, r, v)
  BY <1>1, WritesKinds DEF Code
<1>4. Len(Effects(c, r, v)) \in Nat
  BY EffectsSeq
<1>5. CASE r.op = "count"
  <2>1. ~Commits(c)
    BY <1>5, CommitPlace
  <2>2. r.op \notin PostingOps /\ r.op # "convert" /\ r.op # "refund"
    BY <1>5 DEF PostingOps
  <2> QED
    BY <1>1, <1>2, <1>3, <1>5, <2>1, <2>2 DEF WroteKinds, PutKinds
<1>6. CASE r.op \in OtherOps /\ r.op # "count"
  <2>1. r.op \notin PostingOps /\ r.op # "convert" /\ r.op # "refund"
    BY <1>6 DEF PostingOps, OtherOps
  <2> QED
    BY <1>1, <1>2, <1>3, <1>6, <2>1 DEF WroteKinds, PutKinds
<1>7. CASE r.op \in PostingOps
  <2>1. r.op \notin OtherOps /\ r.op # "count"
    BY <1>7 DEF PostingOps, OtherOps
  <2>2. CASE FrameKinds(s, k, c, r)
    BY <1>1, <1>7, <2>2 DEF PutKinds
  <2>3. CASE /\ Posts(r, v) /\ k \in Base(r) + 1 .. Base(r) + Len(Effects(c, r, v))
             /\ EffectKinds(s, k - Base(r), c, r, v)
    <3>1. r.op = "convert" => Base(r) = 8
      BY DEF Base
    <3>2. r.op = "refund" => Base(r) = 8 /\ Upto(c) = Len(Effects(c, r, v)) + 9
      BY DEF Base, Upto, CommitAt
    <3>3. Commits(c)
      <4> HIDE DEF r, s, v
      <4>1. r.op = "convert" => k # 3
        BY <1>4, <2>3, <3>1
      <4>2. r.op = "refund" => k # Upto(c) + 1
        BY <1>4, <2>3, <3>2
      <4> QED
        BY <1>2, <2>1, <4>1, <4>2
    <3> QED
      BY <1>1, <1>7, <2>3, <3>3 DEF PutKinds
  <2> QED
    BY <1>3, <2>1, <2>2, <2>3 DEF WroteKinds
<1> QED
  BY <1>3, <1>5, <1>6, <1>7 DEF WroteKinds

(* A column that one statement of the transaction adds to.                 *)
LEMMA EffectCommits ==
  ASSUME Kept, NEW c \in Clients, Commits(c), request[c].op \in PostingOps,
         Posts(request[c], seen[c]), NEW j \in 1 .. Len(Effects(c, request[c], seen[c]))
  PROVE  /\ Base(request[c]) + j \in 1 .. Len(Code(c))
         /\ Code(c)[Base(request[c]) + j] = Effects(c, request[c], seen[c])[j]
         /\ From(c) < Base(request[c]) + j /\ Base(request[c]) + j < Upto(c)
         /\ pc[c] = Upto(c) /\ Base(request[c]) \in Nat
<1>1. pc[c] = Upto(c)
  BY CommitPlace
<1>2. Base(request[c]) \in Nat
  BY DEF Base, PostingOps
<1> QED
  BY <1>1, <1>2, EffectInside DEF Code, From, Upto

StockGain(c) ==
  LET r == request[c]
  IN  IF Commits(c) /\ r.op \in PostingOps /\ Posts(r, seen[c]) THEN Units(r)
      ELSE IF Commits(c) /\ r.op = "adjust" THEN r.qty
      ELSE IF WritesAlone(c) /\ r.op = "count" /\ pc[c] = 2 THEN r.qty ELSE 0

LEMMA StockPosted ==
  ASSUME NEW c, NEW r, NEW v, Posts(r, v), Units(r) # 0
  PROVE  /\ Tests(r) + 1 \in 1 .. Len(Effects(c, r, v))
         /\ Effects(c, r, v)[Tests(r) + 1] = Add(Stock, Units(r))
<1>1. EffectsLaid(Effects(c, r, v), c, r, v)
  BY EffectsAre
<1>2. /\ Len(Effects(c, r, v)) = AllotFrom(r, v) + AllotLen(r, v)
      /\ Effects(c, r, v)[Tests(r) + 1] = Add(Stock, Units(r))
  BY <1>1 DEF EffectsLaid, StockLaid
<1>3. /\ Tests(r) \in {0, 1} /\ PartyLen(r) \in {0, 1} /\ MoneyLen(r, v) \in {0, 1, 2, 3}
      /\ AllotLen(r, v) \in {0, 3}
  BY Lengths
<1>4. StockLen(r) = Tests(r) + 3
  BY DEF StockLen
<1> QED
  BY <1>2, <1>3, <1>4 DEF AllotFrom, MoneyFrom

LEMMA StockStep ==
  ASSUME Kept, Numbers, NEW c \in Clients, AStep(c)
  PROVE  db'[Stock] = db[Stock] + StockGain(c)
<1> DEFINE r == request[c]
           v == seen[c]
<1>1. Stock \in Rows /\ DOMAIN db = Rows /\ Stock[1] = "item"
  BY RowsAre DEF Kept, Shapes, Stock
<1>2. db[Stock] \in Int
  BY <1>1 DEF Numbers, Numeric, Number
<1>3. CASE Commits(c) /\ r.op \in PostingOps /\ Posts(r, v) /\ Units(r) # 0
  <2> DEFINE j == Tests(r) + 1
             k == Base(r) + j
  <2>1. j \in 1 .. Len(Effects(c, r, v)) /\ Effects(c, r, v)[j] = Add(Stock, Units(r))
    BY <1>3, StockPosted
  <2>2. /\ k \in 1 .. Len(Code(c)) /\ Code(c)[k] = Add(Stock, Units(r))
        /\ From(c) < k /\ k < Upto(c) /\ Base(r) \in Nat
    BY <1>3, <2>1, EffectCommits
  <2>3. Code(c)[k].op = "add" /\ Code(c)[k].row = Stock /\ Code(c)[k].n = Units(r)
    BY <2>2 DEF Add
  <2>4. ASSUME NEW i, Written(c, i), i # k
        PROVE  Code(c)[i].row # Stock
    <3>1. WroteKinds(Code(c)[i], i, c, r, v) /\ i \in 1 .. Len(Code(c))
      BY <1>3, <2>4, WrittenKinds
    <3>2. r.op \notin OtherOps
      BY <1>3 DEF PostingOps, OtherOps
    <3>3. Len(Code(c)) \in Nat
      BY <1>3, NowPlaced DEF Kept, Commits, Goes
    <3> HIDE DEF r, v
    <3>4. CASE EffectKinds(Code(c)[i], i - Base(r), c, r, v)
      <4>1. Code(c)[i].row[1] = "item" => i - Base(r) = j
        BY <3>4 DEF EffectKinds
      <4> QED
        BY <1>1, <2>2, <2>4, <3>1, <3>3, <4>1
    <3>5. CASE FrameKinds(Code(c)[i], i, c, r)
      BY <1>1, <3>5 DEF FrameKinds
    <3> QED
      BY <3>1, <3>2, <3>4, <3>5 DEF WroteKinds
  <2> HIDE DEF k
  <2>5. db'[Stock] = db[Stock] + Units(r)
    BY <1>3, <2>2, <2>3, <2>4, AddedOnce
  <2> QED
    BY <1>3, <2>5 DEF StockGain
<1>4. CASE Commits(c) /\ r.op = "adjust"
  <2>0. OtherCode(Code(c), c, r, v)
    BY <1>4, OtherCodes DEF OtherOps, Code
  <2>1. /\ From(c) = 1 /\ Len(Code(c)) = 5 /\ Code(c)[2] = Add(Stock, r.qty)
    <3>1. From(c) = 1
      BY <1>4 DEF From, BeginAt, Makers, LoanOps
    <3> QED
      BY <1>4, <2>0, <3>1 DEF OtherCode
  <2>2. Upto(c) = 5
    BY <1>4, <2>1 DEF Upto, CommitAt, Code
  <2>3. Code(c)[2].op = "add" /\ Code(c)[2].row = Stock /\ Code(c)[2].n = r.qty
    BY <2>1 DEF Add
  <2>4. ASSUME NEW i, Written(c, i), i # 2
        PROVE  Code(c)[i].row # Stock
    <3>1. WroteKinds(Code(c)[i], i, c, r, v)
      BY <1>4, <2>4, WrittenKinds
    <3>2. r.op \notin PostingOps
      BY <1>4 DEF PostingOps
    <3> QED
      BY <1>1, <2>4, <3>1, <3>2 DEF WroteKinds, OtherKinds
  <2>5. db'[Stock] = db[Stock] + r.qty
    BY <1>4, <2>1, <2>2, <2>3, <2>4, AddedOnce
  <2>6. r.op \notin PostingOps
    BY <1>4 DEF PostingOps
  <2> QED
    BY <1>4, <2>5, <2>6 DEF StockGain
<1>5. CASE WritesAlone(c) /\ r.op = "count" /\ pc[c] = 2
  <2>0. OtherCode(Code(c), c, r, v)
    BY <1>5, OtherCodes DEF OtherOps, Code
  <2>1. Now(c) = Add(Stock, r.qty)
    BY <1>5, <2>0 DEF OtherCode, Now
  <2>2. /\ c \notin open /\ db' = [db EXCEPT ![Now(c).row] = Value(c, Now(c))]
    BY <1>5 DEF WritesAlone
  <2>3. buf[c] = NothingWritten
    BY <2>2 DEF Kept, Shapes, Shape
  <2>4. Value(c, Now(c)) = db[Stock] + r.qty /\ Now(c).row = Stock
    BY <1>1, <2>1, <2>3, ViewOfRow DEF Value, Add, NothingWritten
  <2>5. db'[Stock] = db[Stock] + r.qty
    BY <1>1, <2>2, <2>4
  <2>6. ~Commits(c)
    BY <1>5, CommitPlace
  <2> QED
    BY <1>5, <2>5, <2>6 DEF StockGain
<1>6. CASE /\ ~(Commits(c) /\ r.op \in PostingOps /\ Posts(r, v) /\ Units(r) # 0)
           /\ ~(Commits(c) /\ r.op = "adjust")
           /\ ~(WritesAlone(c) /\ r.op = "count" /\ pc[c] = 2)
  <2>1. StockGain(c) = 0
    BY <1>6 DEF StockGain
  <2>2. SUFFICES ASSUME db'[Stock] # db[Stock]
                 PROVE  FALSE
    BY <1>2, <2>1
  <2>3. PICK k : Puts(c, k, Stock)
    <3>1. Stock # Status(r.doc)
      BY <1>1 DEF Status
    <3> QED
      BY <1>1, <2>2, <3>1, RowChanges
  <2>4. PutKinds(Code(c)[k], k, c, r, v) /\ Code(c)[k].row[1] = "item"
    BY <1>1, <2>3, PutsKinds
  <2>5. CASE Commits(c) /\ r.op \in PostingOps /\ Posts(r, v)
             /\ EffectKinds(Code(c)[k], k - Base(r), c, r, v)
    BY <1>6, <2>4, <2>5 DEF EffectKinds
  <2>6. CASE FrameKinds(Code(c)[k], k, c, r)
    BY <2>4, <2>6 DEF FrameKinds
  <2>7. CASE OtherKinds(Code(c)[k], k, c, r, v) /\ Commits(c) /\ r.op # "count"
    BY <1>6, <2>4, <2>7 DEF OtherKinds
  <2>8. CASE r.op = "count" /\ OtherKinds(Code(c)[k], k, c, r, v) /\ WritesAlone(c) /\ k = pc[c]
    BY <1>6, <2>4, <2>8 DEF OtherKinds
  <2> HIDE DEF r, v
  <2> QED
    BY <2>4, <2>5, <2>6, <2>7, <2>8 DEF PutKinds
<1> QED
  BY <1>3, <1>4, <1>5, <1>6

(***************************************************************************)
(* Stock is sold once.                                                     *)
(***************************************************************************)

(* The front of a handler that makes a document, and where all end. *)
MakerCode(q, e, b, c, r, v) ==
  /\ b \in {5, 8} /\ FrontReads(r) \in 0 .. b - 5 /\ BeginAt(r) = b - 4
  /\ Len(e) \in Nat /\ CommitAt(c, r, v) = b + Len(e) + 1 /\ b + Len(e) + 1 <= Len(q)
  /\ q[b - 3] = Add(Seq_(TextOf(r).shop, TextOf(r).type), 1)
  /\ q[b - 2] = Put(Status(c), FirstStatus(TextOf(r)))
  /\ q[b - 1] = Put(Paid(c), TextOf(r).own)
  /\ q[b] = Put(Allocated(c), AmountOf(r, v))

LEMMA MakerCodes ==
  ASSUME NEW c, NEW r, r.op \in Makers, NEW v
  PROVE  MakerCode(Handler(c, r, v), Effects(c, r, v), Base(r), c, r, v)
<1> DEFINE q == Handler(c, r, v)
           e == Effects(c, r, v)
           b == Base(r)
<1>1. HandlerLaid(q, e, c, r, v)
  BY PostingHandler DEF PostingOps, Makers
<1>2. b \in {5, 8} /\ FrontReads(r) \in 0 .. b - 5 /\ BeginAt(r) = b - 4
      /\ (r.op # "create" => b = 8)
  BY DEF Base, FrontReads, BeginAt, Makers, LoanOps
<1>3. r.op # "create" => AmountOf(r, v) = 0
  BY DEF AmountOf, Makers
<1>4. e = Effects(c, r, v) /\ CommitAt(c, r, v) = IF r.op = "refund" THEN Len(e) + 9 ELSE Len(q)
  BY DEF CommitAt, Makers
<1>5. Len(e) \in Nat
  BY EffectsSeq
<1> HIDE DEF q, e, b
<1>6. /\ MadeLaid(q, e, b, c, TextOf(r), AmountOf(r, v))
      /\ r.op # "refund" => Len(q) = b + Len(e) + 1
      /\ r.op = "refund" => Len(q) >= Len(e) + 9
  <2>1. CASE r.op = "create"
    BY <1>1, <2>1 DEF HandlerLaid, OpLaid, b
  <2>2. CASE r.op = "refund"
    BY <1>1, <1>2, <1>3, <1>5, <2>2 DEF HandlerLaid, OpLaid
  <2>3. CASE r.op = "convert"
    BY <1>1, <1>2, <1>3, <1>5, <2>3 DEF HandlerLaid, OpLaid
  <2> QED
    BY <2>1, <2>2, <2>3 DEF Makers
<1>7. CommitAt(c, r, v) = b + Len(e) + 1 /\ b + Len(e) + 1 <= Len(q)
  BY <1>2, <1>4, <1>5, <1>6
<1>8. MakerCode(q, e, b, c, r, v)
  BY <1>2, <1>5, <1>6, <1>7 DEF MakerCode, MadeLaid
<1> QED
  BY <1>8 DEF q, e, b

(* Inside the transaction nothing a request decides on changes any more. *)
LEMMA DecidedStep ==
  ASSUME Kept, NEW c \in Clients, AStep(c), mode[c] = "run", request[c].op \in PostingOps,
         FrontReads(request[c]) < pc[c]
  PROVE  /\ request'[c] = request[c]
         /\ Posts(request[c], seen'[c]) <=> Posts(request[c], seen[c])
         /\ AmountOf(request[c], seen'[c]) = AmountOf(request[c], seen[c])
         /\ \A d : Seen(seen'[c], Status(d)) = Seen(seen[c], Status(d))
<1> DEFINE r == request[c]
           v == seen[c]
<1>1. CASE ReadsIt(c)
  <2>1. /\ pc[c] \in 1 .. Len(Code(c)) /\ Now(c).op \in Reads
        /\ seen'[c] = With(v, Now(c).row, View(c, Now(c).row)) /\ request'[c] = r
    BY <1>1, NowPlaced DEF Kept, ReadsIt, Goes
  <2>2. pc[c] \in Base(r) + 1 .. Base(r) + Len(Effects(c, r, v))
    <3>1. FrontReads(r) \in 0 .. 4
      BY DEF FrontReads, PostingOps
    <3> QED
      BY <2>1, <3>1, PostingReads DEF Now, Code
  <2> DEFINE j == pc[c] - Base(r)
  <2>3. /\ Posts(r, v) /\ j \in 1 .. Len(Effects(c, r, v)) /\ Now(c) = Effects(c, r, v)[j]
    BY <2>2, EffectPosts DEF Now, Code
  <2>4. EffectsKept(c, r, v, With(v, Effects(c, r, v)[j].row, View(c, Now(c).row)), j)
    BY <2>1, <2>3, EffectsStable
  <2>5. EffectsKept(c, r, v, seen'[c], j)
    BY <2>1, <2>3, <2>4
  <2> QED
    BY <2>1, <2>3, <2>5, Zenon DEF EffectsKept
<1>2. CASE ~ReadsIt(c)
  BY <1>2 DEF AStep, Starts, Begins, WritesInside, WritesAlone, Commits, Releases, Refuses, Loses,
              Crashes, Goes, Fails, Stops
<1> QED
  BY <1>1, <1>2, Zenon

(* The stock a posting needs has been tested and is not yet taken. *)
Taking(c) ==
  /\ mode[c] = "run" /\ request[c].op \in PostingOps /\ Posts(request[c], seen[c])
  /\ Units(request[c]) < 0 /\ ~Undoes(request[c])
  /\ Base(request[c]) + 1 < pc[c] /\ pc[c] <= Upto(c)

Escaped ==
  \/ \E c \in Clients : request[c].op \in {"adjust", "count"} /\ request[c].qty < 0
  \/ \E c \in Clients : request[c].op = "delete" /\ OnStock(Is(request[c].doc)) > 0
  \/ \E pair \in together : \E c, e \in pair :
       /\ c # e /\ TakesStock(c) /\ TakesStock(e)
       /\ \/ ~MakesDoc(c) \/ ~MakesDoc(e)
          \/ Made(request[c]).type # Made(request[e]).type

Covered ==
  Escaped \/ (db[Stock] >= 0 /\ \A c \in Clients : Taking(c) => db[Stock] + Units(request[c]) >= 0)

LEMMA EscapedStep ==
  ASSUME Kept, Pairs, NEW c \in Clients, AStep(c), Escaped
  PROVE  Escaped'
<1>1. /\ \A e \in Clients : mode[e] # "idle" => request'[e] = request[e] /\ mode'[e] # "idle"
      /\ \A e \in Clients : request'[e] # request[e] => request[e] = NoRequest
      /\ together \subseteq together'
  BY RequestKept
<1>2. CASE \E e \in Clients : request[e].op \in {"adjust", "count"} /\ request[e].qty < 0
  <2>1. PICK e \in Clients : request[e].op \in {"adjust", "count"} /\ request[e].qty < 0
    BY <1>2
  <2>2. request'[e] = request[e]
    BY <1>1, <2>1 DEF NoRequest
  <2> QED
    BY <2>1, <2>2 DEF Escaped
<1>3. CASE \E e \in Clients : request[e].op = "delete" /\ OnStock(Is(request[e].doc)) > 0
  <2>1. PICK e \in Clients : request[e].op = "delete" /\ OnStock(Is(request[e].doc)) > 0
    BY <1>3
  <2>2. request'[e] = request[e] /\ request[e] # NoRequest
    BY <1>1, <2>1 DEF NoRequest
  <2>3. request[e] \in Requests
    BY <2>2 DEF Kept, Shapes, Shape
  <2>4. request[e].doc \in GivenDocs
    BY <2>1, <2>3, RequestsAssumption DEF Legal
  <2>5. Is(request[e].doc)' = Is(request[e].doc)
    BY <2>2, <2>4 DEF Is
  <2>6. OnStock(Is(request[e].doc))' = OnStock(Is(request[e].doc))
    BY <2>5 DEF OnStock
  <2> QED
    BY <2>1, <2>2, <2>6 DEF Escaped
<1>4. ASSUME NEW pair \in together, NEW x \in pair, NEW e \in pair,
             x # e /\ TakesStock(x) /\ TakesStock(e),
             \/ ~MakesDoc(x) \/ ~MakesDoc(e)
             \/ Made(request[x]).type # Made(request[e]).type
      PROVE  Escaped'
  <2>1. x \in Clients /\ e \in Clients
    BY DEF Pairs
  <2>2. mode[x] # "idle" /\ mode[e] # "idle"
    BY <1>4 DEF TakesStock
  <2>3. /\ request'[x] = request[x] /\ request'[e] = request[e]
        /\ mode'[x] # "idle" /\ mode'[e] # "idle"
    BY <1>1, <2>1, <2>2
  <2>4. /\ TakesStock(x)' /\ TakesStock(e)'
        /\ MakesDoc(x)' <=> MakesDoc(x)
        /\ MakesDoc(e)' <=> MakesDoc(e)
    BY <1>4, <2>2, <2>3 DEF TakesStock, MakesDoc
  <2>5. pair \in together'
    BY <1>1
  <2> QED
    BY <1>4, <2>3, <2>4, <2>5 DEF Escaped
<1> QED
  BY <1>2, <1>3, <1>4 DEF Escaped

(* One that takes stock, as the property counts them. *)
LEMMA TakingTakes ==
  ASSUME Kept, NEW c \in Clients, Taking(c)
  PROVE  /\ TakesStock(c) /\ c \in open /\ Active(c)
         /\ MakesDoc(c) <=> request[c].op \in Makers
         /\ request[c].op \in Makers => TextOf(request[c]) = Made(request[c])
         /\ request[c].op \in Makers => Made(request[c]).shop = HomeShop
         /\ request[c].op \in Makers =>
              Seq_(Made(request[c]).shop, Made(request[c]).type) \in DOMAIN buf[c]
<1> DEFINE r == request[c]
           v == seen[c]
           t == TextOf(r)
<1>1. /\ mode[c] = "run" /\ r.op \in PostingOps /\ ~Undoes(r) /\ Units(r) < 0
      /\ Base(r) + 1 < pc[c] /\ pc[c] <= Upto(c)
  BY DEF Taking
<1>2. /\ r \in Requests /\ pc[c] \in Nat /\ From(c) \in Nat /\ Upto(c) \in Nat
      /\ c \in open <=> From(c) < pc[c] /\ pc[c] <= Upto(c)
      /\ Legal(r) /\ pc[c] \in 1 .. Len(Code(c)) /\ Len(Code(c)) \in Nat
  BY <1>1, NowPlaced, RequestsAssumption DEF Kept
<1>3. From(c) <= Base(r) /\ Base(r) \in Nat
  BY <1>1 DEF From, BeginAt, Base, PostingOps, Makers, LoanOps
<1>4. c \in open
  BY <1>1, <1>2, <1>3
<1>5. r.op \in Makers => t = Made(r)
  BY DEF TextOf
<1>6. Sound(t) /\ Units(r) = OnStock(t)
  BY <1>1, <1>2, TextSound DEF Units, Signed
<1>7. t.item
  BY <1>1, <1>6 DEF OnStock
<1>8. TakesStock(c)
  <2>1. CASE r.op \in Makers
    BY <1>1, <1>5, <1>6, <2>1 DEF TakesStock, MakesDoc
  <2>2. CASE r.op \in {"resume", "restore"}
    BY <1>1, <2>2 DEF TakesStock
  <2> QED
    BY <1>1, <2>1, <2>2 DEF PostingOps, Makers, Undoes
<1>9. ASSUME r.op \in Makers
      PROVE  Made(r).shop = HomeShop /\ Seq_(Made(r).shop, Made(r).type) \in DOMAIN buf[c]
  <2>1. Made(r).shop = HomeShop
    BY <1>5, <1>6, <1>7, <1>9 DEF Sound
  <2> DEFINE b == Base(r)
  <2>2. /\ b \in {5, 8} /\ From(c) = b - 4
        /\ Code(c)[b - 3] = Add(Seq_(t.shop, t.type), 1)
    <3>1. MakerCode(Code(c), Effects(c, r, v), Base(r), c, r, v)
      BY <1>9, MakerCodes DEF Code
    <3> QED
      BY <3>1 DEF MakerCode, From
  <2> HIDE DEF b
  <2>3. PICK k : k = b - 3
    OBVIOUS
  <2>4. Code(c)[k].op \in Writes /\ Code(c)[k].row = Seq_(t.shop, t.type)
    BY <2>2, <2>3 DEF Add, Writes
  <2>5. Written(c, k)
    BY <1>1, <1>2, <2>2, <2>3, <2>4 DEF Written, b
  <2>6. Code(c)[k].row \in DOMAIN buf[c]
    BY <1>4, <2>5 DEF Kept, Buffers, Buffer
  <2> QED
    BY <1>5, <1>9, <2>1, <2>4, <2>6
<1> QED
  BY <1>1, <1>4, <1>5, <1>8, <1>9 DEF MakesDoc, Active, t

(* Two of them cannot be under way, unless the property excepts them. *)
LEMMA TakingOne ==
  ASSUME Kept, Pairs, ~Escaped, NEW c \in Clients, Taking(c), NEW e \in Clients, Taking(e)
  PROVE  c = e
<1> SUFFICES ASSUME c # e PROVE FALSE
  OBVIOUS
<1>1. TakesStock(c) /\ TakesStock(e) /\ Active(c) /\ Active(e)
  BY TakingTakes
<1>2. {c, e} \in together
  BY <1>1 DEF Pairs
<1>3. MakesDoc(c) /\ MakesDoc(e) /\ Made(request[c]).type = Made(request[e]).type
  BY <1>1, <1>2 DEF Escaped
<1>4. request[c].op \in Makers /\ request[e].op \in Makers
  BY <1>3, TakingTakes
<1> DEFINE x == Seq_(Made(request[c]).shop, Made(request[c]).type)
           y == Seq_(Made(request[e]).shop, Made(request[e]).type)
<1>5. x \in DOMAIN buf[c] /\ y \in DOMAIN buf[e]
  BY <1>4, TakingTakes
<1>6. x = y
  BY <1>3, <1>4, TakingTakes
<1> HIDE DEF x, y
<1> QED
  BY <1>5, <1>6 DEF Kept, Apart

LEMMA TakingStep ==
  ASSUME Kept, Numbers, NEW c \in Clients, AStep(c), NEW e \in Clients, Taking(e)'
  PROVE  /\ request'[e] = request[e]
         /\ Taking(e) \/ (e = c /\ db' = db /\ db[Stock] + Units(request[e]) >= 0)
<1>1. CASE e # c
  <2>1. Same(e)
    BY <1>1, AloneSteps DEF Alone
  <2>2. Upto(e)' = Upto(e)
    BY <2>1, CodeSame DEF Same
  <2> QED
    BY <2>1, <2>2 DEF Same, Taking
<1>2. CASE e = c
  <2> DEFINE r == request[c]
             v == seen[c]
  <2>1. /\ mode'[c] = "run" /\ request'[c].op \in PostingOps /\ Posts(request'[c], seen'[c])
        /\ Units(request'[c]) < 0 /\ ~Undoes(request'[c])
        /\ Base(request'[c]) + 1 < pc'[c] /\ pc'[c] <= Upto(c)'
    BY <1>2 DEF Taking
  <2>2. Base(request'[c]) \in Nat
    BY <2>1 DEF Base, PostingOps
  <2>3. ~Starts(c)
    BY <2>1, <2>2 DEF Starts, Kept, Shapes, Shape
  <2>4. /\ mode[c] = "run" /\ request'[c] = r /\ pc'[c] = pc[c] + 1
        /\ Begins(c) \/ ReadsIt(c) \/ WritesInside(c) \/ WritesAlone(c) \/ Commits(c)
    BY <2>1, <2>3 DEF AStep, Begins, ReadsIt, WritesInside, WritesAlone, Commits, Goes, Releases,
                      Refuses, Loses, Crashes, Fails, Stops
  <2>5. /\ r \in Requests /\ Len(Code(c)) \in Nat /\ pc[c] \in 1 .. Len(Code(c))
        /\ Placed(Now(c), pc[c], c, r, v) /\ Upto(c) \in Nat
    BY <2>4, NowPlaced DEF Kept
  <2>6. FrontReads(r) <= Base(r) /\ Base(r) \in Nat /\ FrontReads(r) \in Nat
    BY <2>1, <2>4 DEF FrontReads, Base, PostingOps
  <2>7. Base(r) < pc[c]
    BY <2>1, <2>4, <2>5, <2>6
  <2>8. Posts(r, v)
    BY <2>1, <2>4, <2>5, <2>6, <2>7, DecidedStep
  <2>9. pc[c] <= Upto(c)
    <3>1. CASE ReadsIt(c)
      BY <2>5, <3>1 DEF ReadsIt, Placed, Upto
    <3>2. CASE ~ReadsIt(c)
      <4>1. seen'[c] = v
        BY <2>4, <3>2 DEF Begins, WritesInside, WritesAlone, Commits
      <4>2. Upto(c)' = Upto(c)
        BY <2>4, <4>1, CodeSame
      <4> QED
        BY <2>1, <2>4, <2>5, <4>2
    <3> QED
      BY <3>1, <3>2
  <2>10. CASE Base(r) + 1 < pc[c]
    BY <1>2, <2>1, <2>4, <2>8, <2>9, <2>10 DEF Taking
  <2>11. CASE pc[c] = Base(r) + 1
    <3>1. /\ Tests(r) = 1 /\ Units(r) # 0 /\ Units(r) < 0
      BY <2>1, <2>4 DEF Tests
    <3>2. Now(c) = Enough(Stock, Units(r))
      <4>1. EffectsLaid(Effects(c, r, v), c, r, v)
        BY <2>8, EffectsAre
      <4>2. Effects(c, r, v)[1] = Enough(Stock, Units(r))
        BY <3>1, <4>1 DEF EffectsLaid, StockLaid
      <4>3. 1 \in 1 .. Len(Effects(c, r, v))
        BY <2>8, <3>1, StockPosted, EffectsSeq
      <4>4. Handler(c, r, v)[Base(r) + 1] = Effects(c, r, v)[1]
        BY <2>1, <2>4, <2>8, <4>3, EffectInside
      <4> QED
        BY <2>11, <4>2, <4>4 DEF Now, Code
    <3>3. /\ Now(c).op = "enough" /\ Now(c).row = Stock /\ Now(c).n = Units(r)
      BY <3>2 DEF Enough
    <3>4. ReadsIt(c)
      BY <2>4, <3>3 DEF Begins, WritesInside, WritesAlone, Commits, MayWrite, Writes
    <3>5. db' = db /\ ~(View(c, Stock) + Units(r) < 0)
      BY <3>3, <3>4 DEF ReadsIt
    <3>6. Stock \notin DOMAIN buf[c]
      <4>1. SUFFICES ASSUME Stock \in DOMAIN buf[c] PROVE FALSE
        OBVIOUS
      <4>2. PICK k \in 1 .. Len(Code(c)) : Written(c, k) /\ Code(c)[k].row = Stock /\ k < pc[c]
        BY <4>1, BufferRows
      <4>3. WroteKinds(Code(c)[k], k, c, r, v)
        BY <2>5, <4>2, WritesKinds DEF Written, Code
      <4>4. Code(c)[k].row[1] = "item"
        BY <4>2 DEF Stock
      <4>5. r.op \notin OtherOps
        BY <2>1, <2>4 DEF OtherOps, PostingOps
      <4>6. k - Base(r) = Tests(r) + 1
        BY <4>3, <4>4, <4>5 DEF WroteKinds, EffectKinds, FrameKinds
      <4> QED
        BY <2>6, <2>11, <3>1, <4>2, <4>6
    <3>7. View(c, Stock) = db[Stock] /\ db[Stock] \in Int
      BY <3>6, ViewOfRow, RowsAre DEF Numbers, Numeric, Kept, Shapes, Stock, Number
    <3>8. Units(r) \in Int
      BY <2>1, <2>4, <2>5, TextSound, TextNumbers, RequestsAssumption DEF Units, Signed
    <3> QED
      BY <1>2, <2>4, <3>5, <3>7, <3>8
  <2> QED
    BY <1>2, <2>5, <2>6, <2>7, <2>10, <2>11
<1> QED
  BY <1>1, <1>2

LEMMA CoveredStep ==
  ASSUME Kept, Numbers, Pairs, Covered, NEW c \in Clients, AStep(c)
  PROVE  Covered'
<1>1. CASE Escaped
  BY <1>1, EscapedStep DEF Covered
<1>2. CASE ~Escaped
  <2>1. db[Stock] >= 0 /\ \A e \in Clients : Taking(e) => db[Stock] + Units(request[e]) >= 0
    BY <1>2 DEF Covered
  <2>2. SUFFICES db'[Stock] >= 0
                 /\ \A e \in Clients : Taking(e)' => db'[Stock] + Units(request'[e]) >= 0
    BY DEF Covered
  <2>3. db'[Stock] = db[Stock] + StockGain(c)
    BY StockStep
  <2>4. \A e \in Clients : Taking(e)' =>
          /\ request'[e] = request[e]
          /\ Taking(e) \/ (e = c /\ db' = db /\ db[Stock] + Units(request[e]) >= 0)
    BY TakingStep
  <2>5. db[Stock] \in Int
    BY RowsAre DEF Numbers, Numeric, Kept, Shapes, Stock, Number
  <2>6. \A e \in Clients : Taking(e) => Units(request[e]) \in Int
    <3> SUFFICES ASSUME NEW e \in Clients, Taking(e) PROVE Units(request[e]) \in Int
      OBVIOUS
    <3>1. request[e] \in Requests /\ request[e].op \in PostingOps
      BY DEF Taking, Kept, Shapes, Shape
    <3> QED
      BY <3>1, TextSound, TextNumbers, RequestsAssumption DEF Units, Signed
  <2>7. CASE Taking(c) /\ Commits(c)
    <3>1. StockGain(c) = Units(request[c])
      BY <2>7 DEF StockGain, Taking
    <3>2. \A e \in Clients : Taking(e) => e = c
      BY <1>2, <2>7, TakingOne
    <3>3. ~Taking(c)'
      <4>1. pc'[c] = Upto(c) + 1 /\ Upto(c)' = Upto(c) /\ Upto(c) \in Nat
        BY <2>7, CommitPlace
      <4> QED
        BY <4>1 DEF Taking
    <3>4. db'[Stock] = db[Stock] + Units(request[c])
      BY <2>3, <3>1
    <3>5. db'[Stock] >= 0
      BY <2>1, <2>7, <3>4
    <3>6. \A e \in Clients : ~Taking(e)'
      <4> TAKE e \in Clients
      <4>1. CASE e = c
        BY <3>3, <4>1
      <4>2. CASE e # c
        BY <2>4, <3>2, <4>2
      <4> QED
        BY <4>1, <4>2
    <3> QED
      BY <3>5, <3>6
  <2>8. CASE ~(Taking(c) /\ Commits(c))
    <3>1. StockGain(c) >= 0 /\ StockGain(c) \in Int
      <4> DEFINE r == request[c]
      <4>1. CASE Commits(c) /\ r.op \in PostingOps /\ Posts(r, seen[c])
        <5>1. StockGain(c) = Units(r) /\ Units(r) \in Int /\ OnStock(TextOf(r)) \in Int
          <6>1. r \in Requests
            BY <4>1, CommitPlace
          <6> QED
            BY <4>1, <6>1, TextSound, TextNumbers, RequestsAssumption
               DEF StockGain, Units, Signed
        <5>2. SUFFICES ASSUME Units(r) < 0 PROVE FALSE
          BY <5>1
        <5>3. CASE Undoes(r)
          <6>1. r.op = "delete" /\ OnStock(TextOf(r)) > 0 /\ TextOf(r) = Given[r.doc].is
            BY <5>1, <5>2, <5>3 DEF Undoes, Units, Signed, TextOf, Makers
          <6>2. r.doc \in GivenDocs
            BY <4>1, <6>1, CommitPlace, RequestsAssumption DEF Legal
          <6>3. Is(r.doc) = TextOf(r)
            BY <6>1, <6>2 DEF Is
          <6> QED
            BY <1>2, <6>1, <6>3 DEF Escaped
        <5>4. CASE ~Undoes(r)
          <6>1. Tests(r) = 1 /\ Units(r) # 0
            BY <5>2, <5>4, <5>1 DEF Tests
          <6>2. Tests(r) + 1 \in 1 .. Len(Effects(c, r, seen[c]))
            BY <4>1, <6>1, StockPosted
          <6>3. Base(r) + (Tests(r) + 1) < Upto(c) /\ pc[c] = Upto(c) /\ Base(r) \in Nat
            BY <4>1, <6>2, EffectCommits
          <6>4. mode[c] = "run" /\ Upto(c) \in Nat
            BY <4>1, CommitPlace
          <6>5. Base(r) + 1 < pc[c] /\ pc[c] <= Upto(c)
            BY <6>1, <6>3, <6>4
          <6>6. Taking(c)
            BY <4>1, <5>2, <5>4, <6>4, <6>5 DEF Taking
          <6> QED
            BY <2>8, <4>1, <6>6
        <5> QED
          BY <5>3, <5>4
      <4>2. CASE (Commits(c) /\ r.op = "adjust") \/ (WritesAlone(c) /\ r.op = "count" /\ pc[c] = 2)
        <5>1. r.op \notin PostingOps /\ StockGain(c) = r.qty
          BY <4>2 DEF StockGain, PostingOps
        <5>2. r.qty >= 0
          <6>1. r \in Requests
            BY <4>2, CommitPlace, NowPlaced DEF Kept, WritesAlone, Goes
          <6>2. r.qty \in Int
            BY <6>1, RequestsAssumption DEF Legal
          <6> QED
            BY <1>2, <4>2, <6>2 DEF Escaped
        <5>3. r.qty \in Int
          <6>1. r \in Requests
            BY <4>2, CommitPlace, NowPlaced DEF Kept, WritesAlone, Goes
          <6> QED
            BY <6>1, RequestsAssumption DEF Legal
        <5> QED
          BY <5>1, <5>2, <5>3
      <4>3. CASE /\ ~(Commits(c) /\ r.op \in PostingOps /\ Posts(r, seen[c]))
                 /\ ~(Commits(c) /\ r.op = "adjust")
                 /\ ~(WritesAlone(c) /\ r.op = "count" /\ pc[c] = 2)
        BY <4>3 DEF StockGain
      <4> QED
        BY <4>1, <4>2, <4>3
    <3>2. db'[Stock] >= db[Stock]
      BY <2>3, <2>5, <3>1
    <3>3. ASSUME NEW e \in Clients, Taking(e)'
          PROVE  db'[Stock] + Units(request'[e]) >= 0
      <4>1. request'[e] = request[e]
        BY <2>4, <3>3
      <4>2. CASE Taking(e)
        BY <2>1, <2>3, <2>5, <2>6, <3>1, <4>1, <4>2
      <4>3. CASE ~Taking(e)
        BY <2>4, <3>3, <4>1, <4>3
      <4> QED
        BY <4>2, <4>3
    <3> QED
      BY <2>1, <2>3, <2>5, <3>1, <3>3
  <2> QED
    BY <2>7, <2>8
<1> QED
  BY <1>1, <1>2

(* A document that takes stock finds it there, although the test is a      *)
(* plain read: no second document of its kind is under way between the     *)
(* test and the commit, for both take their numbers from one row.          *)
THEOREM RowsOversoldOnlyAcross == Spec => []OversoldOnlyAcrossCounters
<1>1. Init => Sane /\ Covered
  <2>1. ASSUME Init PROVE Covered
    <3>1. db[Stock] = Stock0
      BY <2>1, RowsAre DEF Init, Stock
    <3>2. \A c \in Clients : ~Taking(c)
      BY <2>1 DEF Init, Taking
    <3> QED
      BY <3>1, <3>2, StockAssumption DEF Covered
  <2> QED
    BY <2>1, SaneInit
<1>2. Sane /\ Covered /\ [Next]_vars => (Sane /\ Covered)'
  <2> SUFFICES ASSUME Sane, Covered, [Next]_vars PROVE Sane' /\ Covered'
    OBVIOUS
  <2>1. Sane' /\ (UNCHANGED vars \/ \E c \in Clients : AStep(c))
    BY SaneNext
  <2>2. CASE UNCHANGED vars
    BY <2>1, <2>2 DEF Covered, Escaped, TakesStock, MakesDoc, Is, Taking, Upto, vars
  <2>3. ASSUME NEW c \in Clients, AStep(c)
        PROVE  Covered'
    BY <2>3, CoveredStep DEF Sane
  <2> QED
    BY <2>1, <2>2, <2>3
<1>3. Sane /\ Covered => OversoldOnlyAcrossCounters
  <2> SUFFICES ASSUME Sane, Covered, db[Stock] < 0 PROVE Escaped
    BY DEF OversoldOnlyAcrossCounters, Escaped
  <2>1. db[Stock] \in Int
    BY RowsAre DEF Sane, Numbers, Numeric, Kept, Shapes, Stock, Number
  <2> QED
    BY <2>1 DEF Covered
<1> QED
  BY <1>1, <1>2, <1>3, PTL DEF Spec

(***************************************************************************)
(* What the statements that read inside a transaction read.                *)
(***************************************************************************)

EffectRead(s, j, c, r, v) ==
  LET t == TextOf(r)
  IN  /\ s.row[1] \in {"item", "level", "cheque", "paid"}
      /\ s.row[1] = "level" => Units(r) # 0 /\ j = Tests(r) + 2 /\ s = Read(Level(t.shop))
      /\ s.row[1] = "cheque" =>
           /\ t.own # 0 /\ t.cheque /\ Undoes(r) /\ j = MoneyFrom(r) + 1
           /\ s = Read(Cheque(DocOf(c, r)))
      /\ s.row[1] = "paid" =>
           /\ t.pays # None /\ AmountOf(r, v) # 0 /\ j = AllotFrom(r, v) + 1
           /\ s = Read(Paid(t.pays))

LEMMA ReadsInside ==
  ASSUME Kept, NEW c \in Clients, ReadsIt(c), request[c].op \in PostingOps,
         FrontReads(request[c]) < pc[c]
  PROVE  /\ Posts(request[c], seen[c])
         /\ pc[c] - Base(request[c]) \in 1 .. Len(Effects(c, request[c], seen[c]))
         /\ EffectRead(Now(c), pc[c] - Base(request[c]), c, request[c], seen[c])
<1> DEFINE r == request[c]
           v == seen[c]
           j == pc[c] - Base(r)
           s == Now(c)
           t == TextOf(r)
<1>1. pc[c] \in 1 .. Len(Code(c)) /\ s.op \in Reads
  BY NowPlaced DEF Kept, ReadsIt, Goes
<1>2. pc[c] \in Base(r) + 1 .. Base(r) + Len(Effects(c, r, v))
  <2>1. FrontReads(r) \in 0 .. 4
    BY DEF FrontReads, PostingOps
  <2> QED
    BY <1>1, <2>1, PostingReads DEF Now, Code
<1>3. Posts(r, v) /\ j \in 1 .. Len(Effects(c, r, v)) /\ s = Effects(c, r, v)[j]
  BY <1>2, EffectPosts DEF Now, Code
<1>4. EffectAt(s, j, c, r, v)
  BY <1>3, EffectsAt
<1> HIDE DEF j, s
<1>5. \/ s = Enough(Stock, Units(r))
      \/ Units(r) # 0 /\ j = Tests(r) + 2 /\ s = Read(Level(t.shop))
      \/ /\ t.own # 0 /\ t.cheque /\ Undoes(r) /\ j = MoneyFrom(r) + 1
         /\ s = Read(Cheque(DocOf(c, r)))
      \/ /\ t.pays # None /\ AmountOf(r, v) # 0 /\ j = AllotFrom(r, v) + 1
         /\ s = Read(Paid(t.pays))
      \/ \E x, y : s = Add(x, y) \/ s = Put(x, y)
  BY <1>4, Zenon DEF EffectAt, Cashed
<1>6. ~\E x, y : s = Add(x, y) \/ s = Put(x, y)
  BY <1>1 DEF Add, Put, Reads
<1>7. EffectRead(s, j, c, r, v)
  BY <1>5, <1>6 DEF EffectRead, Enough, Read, Stock, Level, Cheque, Paid
<1> QED
  BY <1>3, <1>7 DEF s, j

(***************************************************************************)
(* The stock levels of the shops.                                          *)
(***************************************************************************)

(* Requests that write the item and, under its lock, the level of a shop.  *)
Stocks(c) ==
  /\ mode[c] = "run"
  /\ \/ request[c].op \in PostingOps /\ Posts(request[c], seen[c]) /\ Units(request[c]) # 0
     \/ request[c].op = "adjust"

StockAt(r) == IF r.op = "adjust" THEN 1 ELSE Base(r) + Tests(r)
StockShop(r) == IF r.op = "adjust" THEN r.shop ELSE TextOf(r).shop
StockBy(r) == IF r.op = "adjust" THEN r.qty ELSE Units(r)

LEMMA StockCode ==
  ASSUME Kept, NEW c \in Clients, Stocks(c)
  PROVE  LET r == request[c]
             f == StockAt(r)
         IN  /\ f \in Nat /\ From(c) <= f /\ f + 3 < Upto(c) /\ f + 3 \in 1 .. Len(Code(c))
             /\ Code(c)[f + 1] = Add(Stock, StockBy(r))
             /\ Code(c)[f + 2] = Read(Level(StockShop(r)))
             /\ Code(c)[f + 3] = Put(Level(StockShop(r)),
                                     Seen(seen[c], Level(StockShop(r))) + StockBy(r))
             /\ StockShop(r) \in Shops /\ StockBy(r) \in Int
<1> DEFINE r == request[c]
           v == seen[c]
           f == StockAt(r)
<1>1. r \in Requests /\ Legal(r)
  BY RequestsAssumption DEF Stocks, Kept, Shapes, Shape
<1>2. CASE r.op = "adjust"
  <2>1. OtherCode(Code(c), c, r, v)
    BY <1>2, OtherCodes DEF OtherOps, Code
  <2>2. From(c) = 1
    BY <1>2 DEF From, BeginAt, Makers, LoanOps
  <2>3. /\ Len(Code(c)) = 5 /\ Code(c)[2] = Add(Stock, r.qty) /\ Code(c)[3] = Read(Level(r.shop))
        /\ Code(c)[4] = Put(Level(r.shop), Seen(v, Level(r.shop)) + r.qty)
    BY <1>2, <2>1 DEF OtherCode
  <2>4. Upto(c) = 5
    BY <1>2, <2>3 DEF Upto, CommitAt, Code
  <2>5. f = 1 /\ StockShop(r) = r.shop /\ StockBy(r) = r.qty
    BY <1>2 DEF StockAt, StockShop, StockBy
  <2>6. r.shop \in Shops /\ r.qty \in Int
    BY <1>1 DEF Legal
  <2> QED
    BY <2>2, <2>3, <2>4, <2>5, <2>6
<1>3. CASE r.op # "adjust"
  <2>0. r.op \in PostingOps /\ Posts(r, v) /\ Units(r) # 0
    BY <1>3 DEF Stocks
  <2> DEFINE e == Effects(c, r, v)
             s == Tests(r)
  <2>1. EffectsLaid(e, c, r, v)
    BY <2>0, EffectsAre
  <2>2. /\ Len(e) = AllotFrom(r, v) + AllotLen(r, v)
        /\ e[s + 1] = Add(Stock, Units(r)) /\ e[s + 2] = Read(Level(TextOf(r).shop))
        /\ e[s + 3] = Put(Level(TextOf(r).shop), Seen(v, Level(TextOf(r).shop)) + Units(r))
    BY <2>0, <2>1 DEF EffectsLaid, StockLaid
  <2>3. /\ s \in {0, 1} /\ PartyLen(r) \in {0, 1} /\ MoneyLen(r, v) \in {0, 1, 2, 3}
        /\ AllotLen(r, v) \in {0, 3} /\ StockLen(r) = s + 3
    BY <2>0, Lengths DEF StockLen
  <2>4. s + 3 <= Len(e) /\ Len(e) \in Nat
    BY <2>2, <2>3 DEF AllotFrom, MoneyFrom
  <2>5. Base(r) \in Nat /\ From(c) <= Base(r)
    BY <2>0 DEF Base, From, BeginAt, PostingOps, Makers, LoanOps
  <2> HIDE DEF e
  <2>6. \A j \in 1 .. Len(e) : /\ Base(r) + j \in 1 .. Len(Code(c))
                               /\ Code(c)[Base(r) + j] = e[j] /\ Base(r) + j < Upto(c)
    BY <2>0, EffectInside DEF Code, Upto, e
  <2>7. f = Base(r) + s /\ StockShop(r) = TextOf(r).shop /\ StockBy(r) = Units(r)
    BY <1>3 DEF StockAt, StockShop, StockBy
  <2>8. f + 1 = Base(r) + (s + 1) /\ f + 2 = Base(r) + (s + 2) /\ f + 3 = Base(r) + (s + 3)
    BY <2>3, <2>5, <2>7
  <2>9. s + 1 \in 1 .. Len(e) /\ s + 2 \in 1 .. Len(e) /\ s + 3 \in 1 .. Len(e)
    BY <2>3, <2>4
  <2>10. Sound(TextOf(r))
    BY <1>1, <2>0, TextSound
  <2>11. TextOf(r).shop \in Shops /\ Units(r) \in Int
    BY <2>10, TextNumbers DEF Sound, Content, Units, Signed
  <2>12. f \in Nat /\ From(c) <= f
    <3>1. From(c) \in Nat
      BY NowPlaced DEF Stocks, Kept
    <3> QED
      BY <2>3, <2>5, <2>7, <3>1
  <2>13. f + 3 < Upto(c) /\ f + 3 \in 1 .. Len(Code(c))
    BY <2>6, <2>8, <2>9
  <2> QED
    BY <2>2, <2>6, <2>7, <2>8, <2>9, <2>11, <2>12, <2>13
<1> QED
  BY <1>2, <1>3

LEMMA StockWrites ==
  ASSUME Kept, NEW c \in Clients, Stocks(c), NEW k \in 1 .. Len(Code(c)), Code(c)[k].op \in Writes
  PROVE  /\ Code(c)[k].row[1] = "item" => k = StockAt(request[c]) + 1
         /\ Code(c)[k].row[1] = "level" => k = StockAt(request[c]) + 3
<1> DEFINE r == request[c]
           v == seen[c]
           s == Code(c)[k]
<1>1. r \in Requests /\ Len(Code(c)) \in Nat /\ k \in Nat
  BY NowPlaced DEF Stocks, Kept
<1>2. WroteKinds(s, k, c, r, v)
  BY <1>1, WritesKinds DEF Code
<1>3. CASE r.op = "adjust"
  <2>1. r.op \notin PostingOps /\ StockAt(r) = 1
    BY <1>3 DEF PostingOps, StockAt
  <2>2. OtherKinds(s, k, c, r, v)
    BY <1>2, <2>1 DEF WroteKinds
  <2> HIDE DEF r, s
  <2>3. (s.row[1] = "item" => k = 2) /\ (s.row[1] = "level" => k = 4)
    BY <1>3, <2>2 DEF OtherKinds
  <2> QED
    BY <2>1, <2>3 DEF r, s
<1>4. CASE r.op # "adjust"
  <2>1. r.op \in PostingOps /\ r.op \notin OtherOps
    BY <1>4 DEF Stocks, PostingOps, OtherOps
  <2>2. Base(r) \in Nat /\ Tests(r) \in {0, 1} /\ StockAt(r) = Base(r) + Tests(r)
    BY <1>4, <2>1, Lengths DEF Base, PostingOps, StockAt
  <2> HIDE DEF r, s, v
  <2>3. CASE EffectKinds(s, k - Base(r), c, r, v)
    <3>1. /\ s.row[1] = "item" => k - Base(r) = Tests(r) + 1
          /\ s.row[1] = "level" => k - Base(r) = Tests(r) + 3
      BY <2>3 DEF EffectKinds
    <3> QED
      BY <1>1, <2>2, <3>1 DEF r, s
  <2>4. CASE FrameKinds(s, k, c, r)
    BY <2>4 DEF FrameKinds, r, s
  <2> QED
    BY <1>2, <2>1, <2>3, <2>4 DEF WroteKinds
<1> QED
  BY <1>3, <1>4

LevelGain(c, s) ==
  LET r == request[c]
  IN  IF Commits(c) /\ Stocks(c) THEN IF s = StockShop(r) THEN StockBy(r) ELSE 0
      ELSE IF WritesAlone(c) /\ r.op = "count" /\ pc[c] = 1 THEN IF s = r.shop THEN r.qty ELSE 0
      ELSE IF Commits(c) /\ r.op = "move"
           THEN (IF s = r.to THEN r.qty ELSE 0) - (IF s = r.shop THEN r.qty ELSE 0)
      ELSE 0

(* The level that a request has read is still what the database holds.     *)
KnowsLevel(c) ==
  /\ Stocks(c) /\ StockAt(request[c]) + 2 < pc[c] /\ pc[c] <= Upto(c)

Knows(c, s) ==
  \/ KnowsLevel(c) /\ s = StockShop(request[c])
  \/ /\ mode[c] = "run" /\ request[c].op = "move"
     /\ \/ 2 < pc[c] /\ s = request[c].shop
        \/ 3 < pc[c] /\ s = request[c].to

LevelsKnown ==
  \A c \in Clients, s \in Shops : Knows(c, s) => Seen(seen[c], Level(s)) = db[Level(s)]

(* What the property excepts for good. *)
Irregular ==
  \/ \E pair \in together : \E c \in pair : request[c].op \in {"count", "move"}
  \/ \E c \in Clients : request[c].op = "move" /\ request[c].to = request[c].shop

LEMMA IrregularStep ==
  ASSUME Kept, Pairs, NEW c \in Clients, AStep(c), Irregular
  PROVE  Irregular'
<1>1. /\ \A e \in Clients : request'[e] # request[e] => request[e] = NoRequest
      /\ together \subseteq together'
  BY RequestKept
<1>2. \A e \in Clients : request[e].op \in {"count", "move"} => request'[e] = request[e]
  BY <1>1 DEF NoRequest
<1>3. \A pair \in together : \A e \in pair : e \in Clients
  BY DEF Pairs
<1> QED
  BY <1>1, <1>2, <1>3 DEF Irregular

(* A request that keeps to itself is alone. *)
LEMMA LoneStep ==
  ASSUME Kept, Pairs, NEW c \in Clients, AStep(c), ~Irregular',
         NEW e \in Clients, e # c, Active(e), request[e].op \in {"count", "move"}
  PROVE  FALSE
<1>1. ~Irregular
  BY IrregularStep
<1>2. request'[e] = request[e]
  BY AloneSteps DEF Alone, Same
<1>3. CASE Starts(c)
  <2>1. {c, e} \in together'
    BY <1>3 DEF Starts
  <2> QED
    BY <1>2, <2>1 DEF Irregular
<1>4. CASE ~Starts(c)
  <2>1. Active(c)
    BY <1>4 DEF AStep, Begins, ReadsIt, WritesInside, WritesAlone, Commits, Goes,
                Releases, Refuses, Loses, Crashes, Fails, Stops, Active
  <2>2. {c, e} \in together
    BY <2>1 DEF Pairs
  <2> QED
    BY <1>1, <2>2 DEF Irregular
<1> QED
  BY <1>3, <1>4

LEMMA LevelStep ==
  ASSUME Kept, Numbers, LevelsKnown, NEW c \in Clients, AStep(c),
         request[c].op = "move" => request[c].to # request[c].shop, NEW s \in Shops
  PROVE  LevelGain(c, s) \in Int /\ db'[Level(s)] = db[Level(s)] + LevelGain(c, s)
<1> DEFINE r == request[c]
           v == seen[c]
<1>1. /\ Level(s) \in Rows /\ DOMAIN db = Rows /\ Level(s)[1] = "level"
      /\ \A x : Level(x) = Level(s) => x = s
  BY RowsAre DEF Kept, Shapes, Level
<1>2. db[Level(s)] \in Int
  BY <1>1 DEF Numbers, Numeric, Number
<1>3. CASE Commits(c) /\ Stocks(c)
  <2> DEFINE f == StockAt(r)
             h == StockShop(r)
             k == f + 3
  <2>1. /\ f \in Nat /\ From(c) <= f /\ k < Upto(c) /\ k \in 1 .. Len(Code(c))
        /\ Code(c)[k] = Put(Level(h), Seen(v, Level(h)) + StockBy(r))
        /\ h \in Shops /\ StockBy(r) \in Int
    BY <1>3, StockCode
  <2>2. pc[c] = Upto(c) /\ Upto(c) \in Nat /\ From(c) \in Nat
    BY <1>3, CommitPlace
  <2>3. Knows(c, h)
    BY <1>3, <2>1, <2>2 DEF Knows, KnowsLevel
  <2>4. Seen(v, Level(h)) = db[Level(h)]
    BY <2>1, <2>3 DEF LevelsKnown
  <2>5. \A i : Written(c, i) /\ i # k => Code(c)[i].row[1] # "level"
    BY <1>3, WrittenKinds, StockWrites
  <2>6. LevelGain(c, s) = IF s = h THEN StockBy(r) ELSE 0
    BY <1>3 DEF LevelGain
  <2>7. Code(c)[k].op = "put" /\ Code(c)[k].row = Level(h)
        /\ Code(c)[k].v = Seen(v, Level(h)) + StockBy(r)
    BY <2>1 DEF Put
  <2> HIDE DEF k, f
  <2>8. From(c) < k
    BY <2>1, <2>2 DEF k, f
  <2>9. CASE s = h
    <3>1. db'[Level(h)] = Seen(v, Level(h)) + StockBy(r)
      BY <1>1, <1>3, <2>1, <2>5, <2>7, <2>8, <2>9, PutOnce
    <3> QED
      BY <2>1, <2>4, <2>6, <2>9, <3>1
  <2>10. CASE s # h
    <3>1. \A i : Written(c, i) => Code(c)[i].row # Level(s)
      BY <1>1, <2>5, <2>7, <2>10
    <3>2. db'[Level(s)] = db[Level(s)]
      BY <1>1, <1>3, <3>1, Untouched
    <3> QED
      BY <1>2, <2>6, <2>10, <3>2
  <2> QED
    BY <2>9, <2>10
<1>4. CASE WritesAlone(c) /\ r.op = "count" /\ pc[c] = 1
  <2>0. OtherCode(Code(c), c, r, v)
    BY <1>4, OtherCodes DEF OtherOps, Code
  <2>1. Now(c) = Add(Level(r.shop), r.qty)
    BY <1>4, <2>0 DEF OtherCode, Now
  <2>2. r \in Requests
    BY <1>4, NowPlaced DEF Kept, WritesAlone, Goes
  <2>3. r.shop \in Shops /\ r.qty \in Int
    BY <2>2, RequestsAssumption DEF Legal
  <2>4. /\ c \notin open /\ db' = [db EXCEPT ![Now(c).row] = Value(c, Now(c))]
    BY <1>4 DEF WritesAlone
  <2>5. buf[c] = NothingWritten
    BY <2>4 DEF Kept, Shapes, Shape
  <2>6. Level(r.shop) \in Rows
    BY <2>3, RowsAre
  <2>7. Value(c, Now(c)) = db[Level(r.shop)] + r.qty /\ Now(c).row = Level(r.shop)
    BY <2>1, <2>5, <2>6, ViewOfRow DEF Value, Add, NothingWritten
  <2>8. ~Commits(c)
    BY <1>4, CommitPlace
  <2>9. LevelGain(c, s) = IF s = r.shop THEN r.qty ELSE 0
    BY <1>4, <2>8 DEF LevelGain
  <2>10. db'[Level(s)] = IF s = r.shop THEN db[Level(s)] + r.qty ELSE db[Level(s)]
    BY <1>1, <2>4, <2>7
  <2> QED
    BY <1>2, <2>3, <2>9, <2>10
<1>5. CASE Commits(c) /\ r.op = "move"
  <2>0. OtherCode(Code(c), c, r, v)
    BY <1>5, OtherCodes DEF OtherOps, Code
  <2>1. /\ Code(c)[5] = Put(Level(r.shop), Seen(v, Level(r.shop)) - r.qty)
        /\ Code(c)[6] = Put(Level(r.to), Seen(v, Level(r.to)) + r.qty)
        /\ Len(Code(c)) = 7
    BY <1>5, <2>0 DEF OtherCode
  <2>2. From(c) = 4 /\ Upto(c) = 7
    BY <1>5, <2>1 DEF From, Upto, BeginAt, CommitAt, Makers, LoanOps, Code
  <2>3. r \in Requests /\ pc[c] = 7 /\ mode[c] = "run"
    BY <1>5, <2>2, CommitPlace
  <2>4. r.shop \in Shops /\ r.to \in Shops /\ r.qty \in Int /\ r.to # r.shop
    BY <1>5, <2>3, RequestsAssumption DEF Legal
  <2>5. Knows(c, r.shop) /\ Knows(c, r.to)
    BY <1>5, <2>3 DEF Knows
  <2>6. Seen(v, Level(r.shop)) = db[Level(r.shop)] /\ Seen(v, Level(r.to)) = db[Level(r.to)]
    BY <2>4, <2>5 DEF LevelsKnown
  <2>7. \A i : Written(c, i) => i \in {5, 6}
    <3> SUFFICES ASSUME NEW i, Written(c, i) PROVE i \in {5, 6}
      OBVIOUS
    <3> QED
      BY <2>2, <2>3 DEF Written
  <2>8. /\ Code(c)[5].op = "put" /\ Code(c)[5].row = Level(r.shop)
        /\ Code(c)[5].v = Seen(v, Level(r.shop)) - r.qty
        /\ Code(c)[6].op = "put" /\ Code(c)[6].row = Level(r.to)
        /\ Code(c)[6].v = Seen(v, Level(r.to)) + r.qty
    BY <2>1 DEF Put
  <2>9. Level(r.shop) # Level(r.to)
    BY <2>4 DEF Level
  <2>10. db'[Level(r.shop)] = Seen(v, Level(r.shop)) - r.qty
    BY <1>5, <2>1, <2>2, <2>7, <2>8, <2>9, PutOnce
  <2>11. db'[Level(r.to)] = Seen(v, Level(r.to)) + r.qty
    BY <1>5, <2>1, <2>2, <2>7, <2>8, <2>9, PutOnce
  <2>12. s \notin {r.shop, r.to} => db'[Level(s)] = db[Level(s)]
    BY <1>1, <1>5, <2>7, <2>8, Untouched
  <2>13. ~Stocks(c)
    BY <1>5 DEF Stocks, PostingOps
  <2>14. LevelGain(c, s) = (IF s = r.to THEN r.qty ELSE 0) - (IF s = r.shop THEN r.qty ELSE 0)
    BY <1>5, <2>13, CommitPlace DEF LevelGain
  <2>15. CASE s = r.shop
    BY <1>2, <2>4, <2>6, <2>10, <2>14, <2>15
  <2>16. CASE s = r.to
    BY <1>2, <2>4, <2>6, <2>11, <2>14, <2>16
  <2>17. CASE s \notin {r.shop, r.to}
    BY <1>2, <2>12, <2>14, <2>17
  <2> QED
    BY <2>15, <2>16, <2>17
<1>6. CASE /\ ~(Commits(c) /\ Stocks(c))
           /\ ~(WritesAlone(c) /\ r.op = "count" /\ pc[c] = 1)
           /\ ~(Commits(c) /\ r.op = "move")
  <2>1. LevelGain(c, s) = 0
    BY <1>6 DEF LevelGain
  <2>2. SUFFICES ASSUME db'[Level(s)] # db[Level(s)]
                 PROVE  FALSE
    BY <1>2, <2>1
  <2>3. PICK k : Puts(c, k, Level(s))
    <3>1. Level(s) # Status(r.doc)
      BY DEF Status, Level
    <3> QED
      BY <1>1, <2>2, <3>1, RowChanges
  <2>4. /\ PutKinds(Code(c)[k], k, c, r, v) /\ Code(c)[k].row[1] = "level"
        /\ mode[c] = "run"
    BY <1>1, <2>3, PutsKinds DEF Puts
  <2>5. CASE r.op \in PostingOps /\ Commits(c) /\ Posts(r, v)
             /\ EffectKinds(Code(c)[k], k - Base(r), c, r, v)
    <3>1. Units(r) # 0
      BY <2>4, <2>5 DEF EffectKinds
    <3> QED
      BY <1>6, <2>4, <2>5, <3>1 DEF Stocks
  <2>6. CASE FrameKinds(Code(c)[k], k, c, r)
    BY <2>4, <2>6 DEF FrameKinds
  <2>7. CASE OtherKinds(Code(c)[k], k, c, r, v) /\ Commits(c) /\ r.op # "count"
    <3>1. r.op \in {"adjust", "move"}
      BY <2>4, <2>7 DEF OtherKinds
    <3> QED
      BY <1>6, <2>4, <2>7, <3>1 DEF Stocks
  <2>8. CASE r.op = "count" /\ OtherKinds(Code(c)[k], k, c, r, v) /\ WritesAlone(c) /\ k = pc[c]
    BY <1>6, <2>4, <2>8 DEF OtherKinds
  <2> HIDE DEF r, v
  <2> QED
    BY <2>4, <2>5, <2>6, <2>7, <2>8 DEF PutKinds
<1> QED
  BY <1>3, <1>4, <1>5, <1>6

(* Two requests cannot have the item's row at once. *)
LEMMA StocksApart ==
  ASSUME Kept, NEW c \in Clients, Stocks(c), StockAt(request[c]) + 1 < pc[c], pc[c] <= Upto(c),
         NEW e \in Clients, Stocks(e), StockAt(request[e]) + 1 < pc[e], pc[e] <= Upto(e)
  PROVE  c = e
<1>1. ASSUME NEW x \in Clients, Stocks(x), StockAt(request[x]) + 1 < pc[x], pc[x] <= Upto(x)
      PROVE  Stock \in DOMAIN buf[x]
  <2> DEFINE f == StockAt(request[x])
             k == f + 1
  <2>1. /\ f \in Nat /\ From(x) <= f /\ f + 3 < Upto(x) /\ f + 3 \in 1 .. Len(Code(x))
        /\ Code(x)[k] = Add(Stock, StockBy(request[x]))
    BY <1>1, StockCode
  <2>2. /\ mode[x] = "run" /\ pc[x] \in Nat /\ Len(Code(x)) \in Nat
        /\ From(x) \in Nat /\ Upto(x) \in Nat
        /\ x \in open <=> From(x) < pc[x] /\ pc[x] <= Upto(x)
    BY <1>1, NowPlaced DEF Stocks, Kept
  <2>3. Code(x)[k].op \in Writes /\ Code(x)[k].row = Stock
    BY <2>1 DEF Add, Writes
  <2> HIDE DEF k
  <2>4. Written(x, k) /\ x \in open
    BY <1>1, <2>1, <2>2, <2>3 DEF Written, k
  <2> QED
    BY <2>3, <2>4 DEF Kept, Buffers, Buffer
<1>2. Stock \in DOMAIN buf[c] /\ Stock \in DOMAIN buf[e]
  BY <1>1
<1> QED
  BY <1>2 DEF Kept, Apart

LEMMA LevelsKnownOthers ==
  ASSUME Kept, Numbers, Pairs, LevelsKnown, NEW c \in Clients, AStep(c), ~Irregular',
         NEW e \in Clients, e # c, NEW s \in Shops, Knows(e, s)'
  PROVE  Seen(seen'[e], Level(s)) = db'[Level(s)]
<1>1. Same(e)
  BY AloneSteps DEF Alone
<1>2. Upto(e)' = Upto(e)
  BY <1>1, CodeSame DEF Same
<1>3. Knows(e, s) /\ seen'[e] = seen[e] /\ mode[e] = "run"
  BY <1>1, <1>2 DEF Same, Knows, KnowsLevel, Stocks
<1>4. ~Irregular
  BY IrregularStep
<1>5. request[e].op # "move"
  BY <1>3, LoneStep DEF Active
<1>6. KnowsLevel(e)
  BY <1>3, <1>5 DEF Knows
<1>7. ASSUME Active(c)
      PROVE  request[c].op \notin {"count", "move"}
  <2>1. {c, e} \in together
    BY <1>3, <1>7 DEF Pairs, Active
  <2> QED
    BY <1>4, <2>1 DEF Irregular
<1>8. request[c].op = "move" => request[c].to # request[c].shop
  BY <1>4 DEF Irregular
<1>9. LevelGain(c, s) = 0
  <2>1. ~(Commits(c) /\ Stocks(c))
    <3> SUFFICES ASSUME Commits(c), Stocks(c) PROVE FALSE
      OBVIOUS
    <3>1. pc[c] = Upto(c) /\ Upto(c) \in Nat
      BY CommitPlace
    <3>2. StockAt(request[c]) \in Nat /\ StockAt(request[c]) + 3 < Upto(c)
      BY StockCode
    <3>3. StockAt(request[e]) \in Nat /\ pc[e] \in Nat
      BY <1>6, StockCode DEF KnowsLevel, Kept, Shapes, Shape
    <3> QED
      BY <1>6, <3>1, <3>2, <3>3, StocksApart DEF KnowsLevel
  <2>2. Commits(c) \/ WritesAlone(c) => Active(c)
    BY DEF Commits, WritesAlone, Goes, Active
  <2> QED
    BY <1>7, <2>1, <2>2 DEF LevelGain
<1>10. db'[Level(s)] = db[Level(s)]
  <2>1. db[Level(s)] \in Int
    BY RowsAre DEF Numbers, Numeric, Number, Kept, Shapes, Level
  <2> QED
    BY <1>8, <1>9, <2>1, LevelStep
<1> QED
  BY <1>3, <1>10 DEF LevelsKnown

LEMMA LevelsKnownOwn ==
  ASSUME Kept, Numbers, LevelsKnown, NEW c \in Clients, AStep(c),
         request[c].op = "move" => request[c].to # request[c].shop,
         NEW s \in Shops, Knows(c, s)'
  PROVE  Seen(seen'[c], Level(s)) = db'[Level(s)]
<1> DEFINE r == request[c]
           v == seen[c]
<1>1. mode'[c] = "run"
  BY DEF Knows, KnowsLevel, Stocks
<1>2. ~Starts(c)
  <2> SUFFICES ASSUME Starts(c) PROVE FALSE
    OBVIOUS
  <2>1. pc'[c] = 1
    BY DEF Starts, Kept, Shapes, Shape
  <2>2. ~(request'[c].op = "move" /\ (2 < pc'[c] \/ 3 < pc'[c]))
    BY <2>1
  <2>3. KnowsLevel(c)'
    BY <2>2 DEF Knows
  <2>4. StockAt(request'[c]) \in Nat
    BY <2>3, Lengths DEF KnowsLevel, Stocks, StockAt, Base, PostingOps
  <2> QED
    BY <2>1, <2>3, <2>4 DEF KnowsLevel
<1>3. /\ mode[c] = "run" /\ request'[c] = r /\ pc'[c] = pc[c] + 1
      /\ Begins(c) \/ ReadsIt(c) \/ WritesInside(c) \/ WritesAlone(c) \/ Commits(c)
  BY <1>1, <1>2 DEF AStep, Begins, ReadsIt, WritesInside, WritesAlone, Commits, Goes, Releases,
                    Refuses, Loses, Crashes, Fails, Stops
<1>4. /\ r \in Requests /\ Len(Code(c)) \in Nat /\ pc[c] \in 1 .. Len(Code(c))
      /\ Placed(Now(c), pc[c], c, r, v) /\ Upto(c) \in Nat /\ From(c) \in Nat
      /\ c \in open <=> From(c) < pc[c] /\ pc[c] <= Upto(c)
  BY <1>3, NowPlaced DEF Kept
<1>5. db[Level(s)] \in Int /\ Level(s) \in Rows
  BY RowsAre DEF Numbers, Numeric, Number, Kept, Shapes, Level
<1>6. CASE r.op = "move"
  <2>0. OtherCode(Code(c), c, r, v)
    BY <1>6, OtherCodes DEF OtherOps, Code
  <2>1. /\ Len(Code(c)) = 7 /\ Code(c)[2] = Read(Level(r.shop))
        /\ Code(c)[3] = Read(Level(r.to))
    BY <1>6, <2>0 DEF OtherCode
  <2>2. From(c) = 4 /\ Upto(c) = 7
    BY <1>6, <2>1 DEF From, Upto, BeginAt, CommitAt, Makers, LoanOps, Code
  <2>3. ~Commits(c)
    <3>1. Commits(c) => pc[c] = 7
      BY <2>2, CommitPlace
    <3> QED
      BY <1>1, <2>1, <3>1 DEF Commits, EndsOrNot
  <2>4. LevelGain(c, s) = 0
    BY <1>6, <2>3 DEF LevelGain
  <2>5. db'[Level(s)] = db[Level(s)]
    BY <1>5, <1>6, <2>4, LevelStep
  <2>6. \/ 2 < pc[c] + 1 /\ s = r.shop
        \/ 3 < pc[c] + 1 /\ s = r.to
    BY <1>3, <1>6 DEF Knows, KnowsLevel, Stocks, PostingOps
  <2>7. ReadsIt(c) => /\ seen'[c] = With(v, Now(c).row, View(c, Now(c).row))
                      /\ Now(c).op \in Reads
    BY DEF ReadsIt
  <2>8. ~ReadsIt(c) => seen'[c] = v
    BY <1>3 DEF Begins, WritesInside, WritesAlone, Commits
  <2>9. pc[c] > 3 => ~ReadsIt(c)
    <3> SUFFICES ASSUME pc[c] > 3, ReadsIt(c) PROVE FALSE
      OBVIOUS
    <3>1. r.op \in OtherOps
      BY <1>6 DEF OtherOps
    <3>2. pc[c] \in {1, 2, 3}
      BY <1>4, <2>7, <3>1, OtherReadsAre DEF Now, Code
    <3> QED
      BY <3>2
  <2>10. pc[c] \in {2, 3} => ReadsIt(c) /\ View(c, Level(s)) = db[Level(s)]
    <3> SUFFICES ASSUME pc[c] \in {2, 3} PROVE ReadsIt(c) /\ View(c, Level(s)) = db[Level(s)]
      OBVIOUS
    <3>1. c \notin open
      BY <1>4, <2>2
    <3>2. buf[c] = NothingWritten
      BY <3>1 DEF Kept, Shapes, Shape
    <3>3. Now(c).op = "read"
      BY <2>1 DEF Now, Read
    <3>4. ReadsIt(c)
      BY <1>3, <3>3 DEF Begins, WritesInside, WritesAlone, Commits, MayWrite, Writes
    <3> QED
      BY <1>5, <3>2, <3>4, ViewOfRow DEF NothingWritten
  <2>11. pc[c] \in {2, 3} =>
           Seen(seen'[c], Level(s)) = IF Level(s) = Now(c).row THEN View(c, Now(c).row)
                                      ELSE Seen(v, Level(s))
    BY <2>7, <2>10, SeenWith
  <2>12. /\ pc[c] = 2 => Now(c).row = Level(r.shop)
         /\ pc[c] = 3 => Now(c).row = Level(r.to)
    BY <2>1 DEF Now, Read
  <2>13. CASE pc[c] = 2
    BY <2>5, <2>6, <2>10, <2>11, <2>12, <2>13
  <2>14. CASE pc[c] = 3
    <3>1. s = r.shop => Knows(c, s)
      BY <1>3, <1>6, <2>14 DEF Knows
    <3>2. s = r.shop => Seen(v, Level(s)) = db[Level(s)]
      BY <3>1 DEF LevelsKnown
    <3> QED
      BY <2>5, <2>6, <2>10, <2>11, <2>12, <2>14, <3>2
  <2>15. CASE pc[c] > 3
    <3>1. Knows(c, s)
      BY <1>3, <1>4, <1>6, <2>6, <2>15 DEF Knows
    <3> QED
      BY <2>5, <2>8, <2>9, <2>15, <3>1 DEF LevelsKnown
  <2> QED
    BY <1>4, <2>6, <2>13, <2>14, <2>15
<1>7. CASE r.op # "move"
  <2>1. /\ Stocks(c)' /\ StockAt(r) + 2 < pc[c] + 1 /\ pc'[c] <= Upto(c)' /\ s = StockShop(r)
    BY <1>3, <1>7 DEF Knows, KnowsLevel
  <2>2. r.op \in PostingOps \cup {"adjust"}
    BY <1>3, <2>1 DEF Stocks
  <2>3. StockAt(r) \in Nat /\ (r.op \in PostingOps => StockAt(r) >= Base(r))
    BY <2>2, Lengths DEF StockAt, Base, PostingOps
  <2>4. r.op \in PostingOps => FrontReads(r) < pc[c] /\ Base(r) \in Nat
    BY <1>4, <2>1, <2>3 DEF FrontReads, Base, PostingOps
  <2>5. Stocks(c)
    BY <1>3, <2>1, <2>4, DecidedStep DEF Stocks
  <2>6. pc[c] <= Upto(c)
    <3>1. CASE ReadsIt(c)
      BY <1>4, <3>1 DEF ReadsIt, Placed, Upto
    <3>2. CASE ~ReadsIt(c)
      <4>1. seen'[c] = v
        BY <1>3, <3>2 DEF Begins, WritesInside, WritesAlone, Commits
      <4>2. Upto(c)' = Upto(c)
        BY <1>3, <4>1, CodeSame
      <4> QED
        BY <1>3, <1>4, <2>1, <4>2
    <3> QED
      BY <3>1, <3>2
  <2>7. ~Commits(c)
    BY <1>3, <1>4, <2>1, CommitPlace
  <2>8. LevelGain(c, s) = 0
    BY <2>2, <2>7 DEF LevelGain, PostingOps
  <2>9. db'[Level(s)] = db[Level(s)]
    BY <1>5, <1>7, <2>8, LevelStep
  <2>10. ReadsIt(c) => /\ seen'[c] = With(v, Now(c).row, View(c, Now(c).row))
                       /\ Now(c).op \in Reads
    BY DEF ReadsIt
  <2>11. CASE pc[c] = StockAt(r) + 2
    <3>1. Now(c).op = "read" /\ Now(c).row = Level(s)
      <4>1. Code(c)[StockAt(r) + 2] = Read(Level(StockShop(r)))
        BY <2>5, StockCode
      <4> QED
        BY <2>1, <2>11, <4>1 DEF Now, Read
    <3>2. ReadsIt(c)
      BY <1>3, <3>1 DEF Begins, WritesInside, WritesAlone, Commits, MayWrite, Writes
    <3>3. Level(s) \notin DOMAIN buf[c]
      <4> SUFFICES ASSUME Level(s) \in DOMAIN buf[c] PROVE FALSE
        OBVIOUS
      <4>1. PICK k \in 1 .. Len(Code(c)) : Written(c, k) /\ Code(c)[k].row = Level(s) /\ k < pc[c]
        BY BufferRows
      <4>2. k = StockAt(r) + 3
        BY <2>5, <4>1, StockWrites DEF Written, Level
      <4> QED
        BY <2>3, <2>11, <4>1, <4>2
    <3>4. View(c, Level(s)) = db[Level(s)]
      BY <1>5, <3>3, ViewOfRow
    <3> QED
      BY <2>9, <2>10, <3>1, <3>2, <3>4, SeenWith
  <2>12. CASE pc[c] > StockAt(r) + 2
    <3>1. Seen(v, Level(s)) = db[Level(s)]
      BY <2>1, <2>5, <2>6, <2>12 DEF Knows, KnowsLevel, LevelsKnown
    <3>2. CASE ~ReadsIt(c)
      <4>1. seen'[c] = v
        BY <1>3, <3>2 DEF Begins, WritesInside, WritesAlone, Commits
      <4> QED
        BY <2>9, <3>1, <4>1
    <3>3. CASE ReadsIt(c)
      <4>1. Now(c).row # Level(s)
        <5>1. CASE r.op = "adjust"
          <6>1. pc[c] = 3 /\ StockAt(r) = 1
            BY <1>4, <2>10, <3>3, <5>1, OtherReadsAre DEF Now, Code, OtherOps, StockAt
          <6> QED
            BY <2>12, <6>1
        <5>2. CASE r.op # "adjust"
          <6>1. r.op \in PostingOps
            BY <2>2, <5>2
          <6>2. EffectRead(Now(c), pc[c] - Base(r), c, r, v)
            BY <2>4, <3>3, <6>1, ReadsInside
          <6>3. Now(c).row[1] = "level" => pc[c] - Base(r) = Tests(r) + 2
            BY <6>2 DEF EffectRead
          <6>4. StockAt(r) = Base(r) + Tests(r) /\ Tests(r) \in {0, 1}
            BY <5>2, Lengths DEF StockAt
          <6>5. Now(c).row[1] # "level"
            BY <1>4, <2>4, <2>12, <6>1, <6>3, <6>4
          <6> QED
            BY <6>5 DEF Level
        <5> QED
          BY <5>1, <5>2
      <4> QED
        BY <2>9, <2>10, <3>1, <3>3, <4>1, SeenWith
    <3> QED
      BY <3>2, <3>3
  <2> QED
    BY <1>4, <2>1, <2>3, <2>11, <2>12
<1> QED
  BY <1>6, <1>7

(* An adjustment by inventory is between its two statements.               *)
Counting(c) == request[c].op = "count" /\ pc[c] = 2

LevelSum == SumFunctionOnSet([s \in Shops |-> db[Level(s)]], Shops)

Levelled ==
  \/ \E c \in Clients : Counting(c) /\ mode[c] # "run"
  \/ (\A c \in Clients : ~Counting(c)) /\ db[Stock] = LevelSum
  \/ \E c \in Clients : /\ Counting(c) /\ mode[c] = "run"
                        /\ \A e \in Clients : Counting(e) => e = c
                        /\ LevelSum = db[Stock] + request[c].qty

Levels == Irregular \/ (LevelsKnown /\ Levelled)

LEMMA LevelSums ==
  ASSUME Kept, Numbers, LevelsKnown, NEW c \in Clients, AStep(c),
         request[c].op = "move" => request[c].to # request[c].shop
  PROVE  /\ LevelSum \in Int /\ LevelSum' \in Int
         /\ Commits(c) /\ Stocks(c) => LevelSum' = LevelSum + StockBy(request[c])
         /\ WritesAlone(c) /\ request[c].op = "count" /\ pc[c] = 1 =>
              LevelSum' = LevelSum + request[c].qty
         /\ ~(Commits(c) /\ Stocks(c)) /\ ~(WritesAlone(c) /\ request[c].op = "count" /\ pc[c] = 1)
              => LevelSum' = LevelSum
<1> DEFINE r == request[c]
           f == [s \in Shops |-> db[Level(s)]]
           g == [s \in Shops |-> LevelGain(c, s)]
           h == [s \in Shops |-> db'[Level(s)]]
<1>1. \A s \in Shops : /\ LevelGain(c, s) \in Int /\ db[Level(s)] \in Int
                       /\ db'[Level(s)] = db[Level(s)] + LevelGain(c, s)
  <2> TAKE s \in Shops
  <2>1. db[Level(s)] \in Int
    BY RowsAre DEF Numbers, Numeric, Number, Kept, Shapes, Level
  <2> QED
    BY <2>1, LevelStep
<1>2. LevelSum = SumFunctionOnSet(f, Shops) /\ LevelSum' = SumFunctionOnSet(h, Shops)
  BY DEF LevelSum
<1>3. IsFiniteSet(Shops)
  BY NamesAssumption
<1>4. \A s \in Shops : f[s] \in Int /\ g[s] \in Int /\ h[s] = f[s] + g[s]
  BY <1>1
<1>5. \A s \in Shops : g[s] = LevelGain(c, s)
  OBVIOUS
<1> HIDE DEF f, g, h
<1>6. LevelSum' = LevelSum + SumFunctionOnSet(g, Shops)
  BY <1>2, <1>3, <1>4, SumPlus
<1>7. LevelSum \in Int /\ LevelSum' \in Int
  BY <1>2, <1>3, <1>4, SumInt
<1>8. ASSUME Commits(c), Stocks(c)
      PROVE  SumFunctionOnSet(g, Shops) = StockBy(r)
  <2>1. StockShop(r) \in Shops
    BY <1>8, StockCode
  <2>2. \A s \in Shops : g[s] = IF s = StockShop(r) THEN StockBy(r) ELSE 0
    BY <1>5, <1>8 DEF LevelGain
  <2> QED
    BY <1>3, <1>4, <2>1, <2>2, SumPoint
<1>9. ASSUME WritesAlone(c), r.op = "count", pc[c] = 1
      PROVE  SumFunctionOnSet(g, Shops) = r.qty
  <2>1. r \in Requests
    BY <1>9, NowPlaced DEF Kept, WritesAlone, Goes
  <2>2. r.shop \in Shops
    BY <2>1, RequestsAssumption DEF Legal
  <2>3. ~Commits(c)
    BY <1>9, CommitPlace
  <2>4. \A s \in Shops : g[s] = IF s = r.shop THEN r.qty ELSE 0
    BY <1>5, <1>9, <2>3 DEF LevelGain
  <2> QED
    BY <1>3, <1>4, <2>2, <2>4, SumPoint
<1>10. ASSUME Commits(c), r.op = "move"
       PROVE  SumFunctionOnSet(g, Shops) = 0
  <2>1. r \in Requests
    BY <1>10, CommitPlace
  <2>2. r.shop \in Shops /\ r.to \in Shops /\ r.qty \in Int
    BY <1>10, <2>1, RequestsAssumption DEF Legal
  <2>3. ~Stocks(c)
    BY <1>10 DEF Stocks, PostingOps
  <2> DEFINE a == [s \in Shops |-> IF s = r.to THEN r.qty ELSE 0]
             b == [s \in Shops |-> IF s = r.shop THEN r.qty ELSE 0]
  <2>4. \A s \in Shops : a[s] \in Int /\ b[s] \in Int /\ g[s] = a[s] - b[s]
    BY <1>5, <1>10, <2>2, <2>3 DEF LevelGain
  <2>5. /\ a[r.to] = r.qty /\ b[r.shop] = r.qty
        /\ \A s \in Shops \ {r.to} : a[s] = 0
        /\ \A s \in Shops \ {r.shop} : b[s] = 0
    BY <2>2
  <2> HIDE DEF a, b
  <2>6. SumFunctionOnSet(g, Shops) = SumFunctionOnSet(a, Shops) - SumFunctionOnSet(b, Shops)
    BY <1>3, <2>4, SumMinus
  <2>7. SumFunctionOnSet(a, Shops) = r.qty
    BY <1>3, <2>2, <2>5, SumPoint
  <2>8. SumFunctionOnSet(b, Shops) = r.qty
    BY <1>3, <2>2, <2>5, SumPoint
  <2> QED
    BY <2>2, <2>6, <2>7, <2>8
<1>11. ASSUME ~(Commits(c) /\ Stocks(c)), ~(WritesAlone(c) /\ r.op = "count" /\ pc[c] = 1)
       PROVE  SumFunctionOnSet(g, Shops) = 0
  <2>1. CASE Commits(c) /\ r.op = "move"
    BY <1>10, <2>1
  <2>2. CASE ~(Commits(c) /\ r.op = "move")
    <3>1. \A s \in Shops : g[s] = 0
      BY <1>5, <1>11, <2>2 DEF LevelGain
    <3> QED
      BY <1>3, <3>1, SumZero
  <2> QED
    BY <2>1, <2>2
<1> QED
  BY <1>6, <1>7, <1>8, <1>9, <1>11

LEMMA LevelledStep ==
  ASSUME Kept, Numbers, Pairs, LevelsKnown, Levelled, NEW c \in Clients, AStep(c), ~Irregular'
  PROVE  Levelled'
<1> DEFINE r == request[c]
<1>1. ~Irregular
  BY IrregularStep
<1>2. /\ LevelSum \in Int /\ LevelSum' \in Int
      /\ Commits(c) /\ Stocks(c) => LevelSum' = LevelSum + StockBy(r)
      /\ WritesAlone(c) /\ r.op = "count" /\ pc[c] = 1 => LevelSum' = LevelSum + r.qty
      /\ ~(Commits(c) /\ Stocks(c)) /\ ~(WritesAlone(c) /\ r.op = "count" /\ pc[c] = 1)
           => LevelSum' = LevelSum
  BY <1>1, LevelSums DEF Irregular
<1>3. db'[Stock] = db[Stock] + StockGain(c) /\ db[Stock] \in Int
  BY StockStep, RowsAre DEF Numbers, Numeric, Kept, Shapes, Stock, Number
<1>4. \A e \in Clients : e # c => request'[e] = request[e] /\ mode'[e] = mode[e] /\ pc'[e] = pc[e]
  BY AloneSteps DEF Alone, Same
<1>5. \A e \in Clients : e # c => (Counting(e)' <=> Counting(e))
  BY <1>4 DEF Counting
<1>6. Commits(c) => Counting(c)' = FALSE /\ Counting(c) = FALSE
  BY CommitPlace DEF Counting
<1>7. CASE \E e \in Clients : Counting(e) /\ mode[e] # "run"
  <2>1. PICK e \in Clients : Counting(e) /\ mode[e] # "run"
    BY <1>7
  <2>2. mode[e] # "idle" /\ mode[e] # "undo"
    BY <2>1 DEF Counting, NoRequest, Kept, Shapes, Shape
  <2>3. e # c
    BY <2>1, <2>2 DEF AStep, Starts, Begins, ReadsIt, WritesInside, WritesAlone, Commits, Goes,
                      Releases, Refuses, Loses, Crashes, Fails, Stops, Active
  <2> QED
    BY <1>4, <1>5, <2>1, <2>3 DEF Levelled
<1>8. CASE \E e \in Clients : /\ Counting(e) /\ mode[e] = "run"
                              /\ \A x \in Clients : Counting(x) => x = e
                              /\ LevelSum = db[Stock] + request[e].qty
  <2>1. PICK e \in Clients : /\ Counting(e) /\ mode[e] = "run"
                             /\ \A x \in Clients : Counting(x) => x = e
                             /\ LevelSum = db[Stock] + request[e].qty
    BY <1>8
  <2>2. e = c
    <3>1. Active(e) /\ request[e].op = "count"
      BY <2>1 DEF Active, Counting
    <3> QED
      BY <3>1, LoneStep
  <2>3. r.op = "count" /\ pc[c] = 2 /\ mode[c] = "run"
    BY <2>1, <2>2 DEF Counting
  <2>4. r \in Requests /\ r.qty \in Int
    <3>1. r \in Requests
      BY <2>3, NowPlaced DEF Kept
    <3> QED
      BY <3>1, RequestsAssumption DEF Legal
  <2>5. Now(c) = Add(Stock, r.qty)
    <3>1. OtherCode(Code(c), c, r, seen[c])
      BY <2>3, OtherCodes DEF OtherOps, Code
    <3> QED
      BY <2>3, <3>1 DEF OtherCode, Now
  <2>6. c \notin open
    <3>1. Upto(c) = 0
      BY <2>3 DEF Upto, CommitAt
    <3> QED
      BY <2>3, <3>1, NowPlaced DEF Kept
  <2>7. CASE WritesAlone(c)
    <3>1. StockGain(c) = r.qty
      BY <2>3, <2>7, CommitPlace DEF StockGain
    <3>2. LevelSum' = LevelSum
      BY <1>2, <2>3, <2>7, CommitPlace
    <3>3. ~Counting(c)'
      BY <2>3, <2>7 DEF WritesAlone, Goes, Counting
    <3>4. \A x \in Clients : ~Counting(x)'
      <4> TAKE x \in Clients
      <4>1. CASE x = c
        BY <3>3, <4>1
      <4>2. CASE x # c
        BY <1>5, <2>1, <2>2, <4>2
      <4> QED
        BY <4>1, <4>2
    <3>5. db'[Stock] = LevelSum'
      BY <1>2, <1>3, <2>1, <2>2, <2>4, <3>1, <3>2
    <3> QED
      BY <3>4, <3>5 DEF Levelled
  <2>8. CASE ~WritesAlone(c)
    <3>1. mode'[c] # "run" /\ Counting(c)'
      <4>1. Now(c).op = "add"
        BY <2>5 DEF Add
      <4>2. ~Claimed(c)
        BY <2>3 DEF Claimed
      <4>3. Refuses(c) \/ Loses(c) \/ Crashes(c)
        BY <2>3, <2>6, <2>8, <4>1 DEF AStep, Starts, Begins, ReadsIt, WritesInside, Commits,
                                      Releases, Reads
      <4>4. request'[c] = r /\ pc'[c] = pc[c] /\ mode'[c] # "run"
        BY <4>2, <4>3 DEF Refuses, Loses, Crashes, Fails, Stops
      <4> QED
        BY <2>3, <4>4 DEF Counting
    <3> QED
      BY <3>1 DEF Levelled
  <2> QED
    BY <2>7, <2>8
<1>9. CASE (\A e \in Clients : ~Counting(e)) /\ db[Stock] = LevelSum
  <2>1. CASE WritesAlone(c) /\ r.op = "count" /\ pc[c] = 1
    <3>1. StockGain(c) = 0
      BY <2>1, CommitPlace DEF StockGain
    <3>2. LevelSum' = LevelSum + r.qty
      BY <1>2, <2>1
    <3>3. Counting(c)' /\ request'[c] = r
      BY <2>1 DEF WritesAlone, Goes, Counting
    <3>4. mode'[c] = "run" \/ mode'[c] # "run"
      OBVIOUS
    <3>5. \A x \in Clients : Counting(x)' => x = c
      BY <1>5, <1>9
    <3>6. LevelSum' = db'[Stock] + r.qty
      BY <1>2, <1>3, <1>9, <3>1, <3>2
    <3> QED
      BY <3>3, <3>5, <3>6 DEF Levelled
  <2>2. CASE ~(WritesAlone(c) /\ r.op = "count" /\ pc[c] = 1)
    <3>1. ~Counting(c)'
      <4> SUFFICES ASSUME Counting(c)' PROVE FALSE
        OBVIOUS
      <4>1. request'[c].op = "count" /\ pc'[c] = 2
        BY DEF Counting
      <4>2. ~Starts(c)
        BY <4>1 DEF Starts, Kept, Shapes, Shape
      <4>3. request'[c] = r
        BY <4>2 DEF AStep, Begins, ReadsIt, WritesInside, WritesAlone, Commits, Goes, Releases,
                    Refuses, Loses, Crashes, Fails, Stops
      <4>4. pc[c] # 2 /\ r.op = "count"
        BY <1>9, <4>1, <4>3 DEF Counting
      <4>5. ~Claimed(c) /\ mode[c] # "undo"
        BY <4>4 DEF Claimed, Kept, Shapes, Shape
      <4>6. Goes(c)
        BY <4>1, <4>2, <4>4, <4>5 DEF AStep, Begins, ReadsIt, WritesInside, WritesAlone, Commits,
                          Releases, Refuses, Loses, Crashes, Fails, Stops
      <4>7. mode[c] = "run" /\ pc[c] = 1
        BY <4>1, <4>6 DEF Goes, Kept, Shapes, Shape
      <4>8. Now(c) = Add(Level(r.shop), r.qty)
        <5>1. OtherCode(Code(c), c, r, seen[c])
          BY <4>4, OtherCodes DEF OtherOps, Code
        <5> QED
          BY <4>4, <4>7, <5>1 DEF OtherCode, Now
      <4>9. Now(c).op = "add"
        BY <4>8 DEF Add
      <4>10. c \notin open
        <5>1. Upto(c) = 0
          BY <4>4 DEF Upto, CommitAt
        <5> QED
          BY <4>7, <5>1, NowPlaced DEF Kept
      <4>11. WritesAlone(c)
        BY <4>1, <4>2, <4>4, <4>5, <4>9, <4>10
           DEF AStep, Begins, ReadsIt, WritesInside, Commits, Releases, Refuses, Loses, Crashes,
               Fails, Stops, Reads
      <4> QED
        BY <2>2, <4>4, <4>7, <4>11
    <3>2. \A x \in Clients : ~Counting(x)'
      BY <1>5, <1>9, <3>1
    <3>3. LevelSum' - LevelSum = StockGain(c)
      <4>1. CASE Commits(c) /\ Stocks(c)
        <5>1. StockBy(r) = StockGain(c) /\ StockBy(r) \in Int
          <6>1. StockBy(r) \in Int
            BY <4>1, StockCode
          <6>2. CASE r.op = "adjust"
            BY <4>1, <6>1, <6>2 DEF StockBy, StockGain, PostingOps
          <6>3. CASE r.op # "adjust"
            BY <4>1, <6>1, <6>3 DEF StockBy, StockGain, Stocks
          <6> QED
            BY <6>2, <6>3
        <5> QED
          BY <1>2, <4>1, <5>1
      <4>2. CASE ~(Commits(c) /\ Stocks(c))
        <5>1. StockGain(c) = 0
          <6>1. ~(WritesAlone(c) /\ r.op = "count" /\ pc[c] = 2)
            BY <1>9 DEF Counting
          <6>2. Commits(c) => mode[c] = "run"
            BY DEF Commits, Goes
          <6>3. CASE Commits(c) /\ r.op \in PostingOps /\ Posts(r, seen[c])
            BY <4>2, <6>2, <6>3 DEF StockGain, Stocks
          <6>4. CASE ~(Commits(c) /\ r.op \in PostingOps /\ Posts(r, seen[c]))
            <7>1. ~(Commits(c) /\ r.op = "adjust")
              BY <4>2, <6>2 DEF Stocks
            <7> QED
              BY <6>1, <6>4, <7>1 DEF StockGain
          <6> QED
            BY <6>3, <6>4
        <5> QED
          BY <1>2, <2>2, <4>2, <5>1
      <4> QED
        BY <4>1, <4>2
    <3>4. StockGain(c) \in Int
      BY <1>2, <3>3
    <3>5. db'[Stock] = LevelSum'
      BY <1>2, <1>3, <1>9, <3>3, <3>4
    <3> QED
      BY <3>2, <3>5 DEF Levelled
  <2> QED
    BY <2>1, <2>2
<1> QED
  BY <1>7, <1>8, <1>9 DEF Levelled

LEMMA LevelsStep ==
  ASSUME Kept, Numbers, Pairs, Levels, NEW c \in Clients, AStep(c)
  PROVE  Levels'
<1>1. CASE Irregular'
  BY <1>1 DEF Levels
<1>2. CASE ~Irregular'
  <2>1. ~Irregular
    BY <1>2, IrregularStep
  <2>2. LevelsKnown /\ Levelled
    BY <2>1 DEF Levels
  <2>3. Levelled'
    BY <1>2, <2>2, LevelledStep
  <2>4. LevelsKnown'
    <3> SUFFICES ASSUME NEW e \in Clients, NEW s \in Shops, Knows(e, s)'
                 PROVE  Seen(seen'[e], Level(s)) = db'[Level(s)]
      BY DEF LevelsKnown, Seen
    <3>1. CASE e = c
      BY <2>1, <2>2, <3>1, LevelsKnownOwn DEF Irregular
    <3>2. CASE e # c
      BY <1>2, <2>2, <3>2, LevelsKnownOthers
    <3> QED
      BY <3>1, <3>2
  <2> QED
    BY <2>3, <2>4 DEF Levels
<1> QED
  BY <1>1, <1>2

(* The levels of the shops add up to the stock: whoever writes a level     *)
(* back from a read holds the item's row from before that read to its      *)
(* commit, and inventory's requests, which do not, had nobody beside them. *)
THEOREM RowsLevelsAddUp == Spec => []LevelsAddUp
<1>1. Init => Sane /\ Levels
  <2> SUFFICES ASSUME Init PROVE Levels
    BY SaneInit
  <2> DEFINE f == [s \in Shops |-> db[Level(s)]]
  <2>1. db[Stock] = Stock0 /\ \A s \in Shops : db[Level(s)] = IF s = HomeShop THEN Stock0 ELSE 0
    BY RowsAre DEF Init, Stock, Level
  <2>2. /\ \A s \in Shops : f[s] = IF s = HomeShop THEN Stock0 ELSE 0
        /\ LevelSum = SumFunctionOnSet(f, Shops)
    BY <2>1 DEF LevelSum
  <2>3. /\ \A c \in Clients : request[c] = NoRequest /\ mode[c] = "idle"
    BY DEF Init
  <2> HIDE DEF f
  <2>4. LevelSum = Stock0
    <3>1. f[HomeShop] \in Int /\ \A s \in Shops \ {HomeShop} : f[s] = 0
      BY <2>2, StockAssumption
    <3> QED
      BY <2>2, <3>1, SumPoint, StockAssumption, NamesAssumption
  <2>5. Levelled
    BY <2>1, <2>3, <2>4 DEF Levelled, Counting, NoRequest
  <2>6. LevelsKnown
    BY <2>3 DEF LevelsKnown, Knows, KnowsLevel, Stocks
  <2> QED
    BY <2>5, <2>6 DEF Levels
<1>2. Sane /\ Levels /\ [Next]_vars => (Sane /\ Levels)'
  <2> SUFFICES ASSUME Sane, Levels, [Next]_vars PROVE Sane' /\ Levels'
    OBVIOUS
  <2>1. Sane' /\ (UNCHANGED vars \/ \E c \in Clients : AStep(c))
    BY SaneNext
  <2>2. CASE UNCHANGED vars
    BY <2>1, <2>2 DEF Levels, Irregular, LevelsKnown, Levelled, Knows, KnowsLevel, Stocks, Counting,
                      LevelSum, Upto, vars
  <2>3. ASSUME NEW c \in Clients, AStep(c)
        PROVE  Levels'
    BY <2>3, LevelsStep DEF Sane
  <2> QED
    BY <2>1, <2>2, <2>3
<1>3. Sane /\ Levels => LevelsAddUp
  <2>1. LevelSum = Sum(LAMBDA s : db[Level(s)], Shops)
    BY DEF LevelSum, Sum
  <2> QED
    BY <2>1 DEF Levels, Irregular, Levelled, Counting, LevelsAddUp
<1> QED
  BY <1>1, <1>2, <1>3, PTL DEF Spec

=============================================================================

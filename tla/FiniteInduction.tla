--------------------------- MODULE FiniteInduction ---------------------------
(***************************************************************************)
(* Induction over finite sets and numbers by a smallest counterexample      *)
(* (WFMin of WellFoundedInduction), which needs no operator as a parameter, *)
(* and what the proofs about recursive functions need: that a recursion     *)
(* over the subsets of a finite set defines a function at all, and that a   *)
(* finite set has a last element in any total order.                        *)
(***************************************************************************)
EXTENDS Integers, FiniteSets, FiniteSetTheorems, WellFoundedInduction, TLAPS

LEMMA LeastNumber ==
  ASSUME NEW T \in SUBSET Nat, T # {}
  PROVE  \E x \in T : \A y \in T : x <= y
<1>. DEFINE R == {ss \in Nat \X Nat : ss[1] < ss[2]}
<1>1. IsWellFoundedOn(R, Nat)
  BY NatLessThanWellFounded DEF OpToRel
<1>. HIDE DEF R
<1>2. \E x \in T : \A y \in T : <<y, x>> \notin R
  BY <1>1, WFMin
<1>3. \A x, y \in T : y < x => <<y, x>> \in R
  BY DEF R
<1>4. \A x, y \in T : x <= y \/ y < x
  OBVIOUS
<1>. QED  BY <1>2, <1>3, <1>4

\* Of some subsets of a finite set, one contains none of the others.
LEMMA SmallestSet ==
  ASSUME NEW S, IsFiniteSet(S), NEW Some \in SUBSET (SUBSET S), Some # {}
  PROVE  \E E \in Some : IsFiniteSet(E) /\ \A D \in Some : D \subseteq E => D = E
<1>. DEFINE R == StrictSubsetOrdering(S)
<1>1. IsWellFoundedOn(R, SUBSET S)
  BY FS_StrictSubsetOrderingWellFounded, FS_FiniteSubsetsOfFinite
<1>. HIDE DEF R
<1>2. \E E \in Some : \A D \in Some : <<D, E>> \notin R
  BY <1>1, WFMin
<1>3. \A E \in Some : IsFiniteSet(E)
  BY FS_Subset
<1>. QED  BY <1>2, <1>3 DEF R, StrictSubsetOrdering

\* The values of a function on a finite set.
LEMMA ImageFinite ==
  ASSUME NEW S, IsFiniteSet(S), NEW f, DOMAIN f = S, f = [x \in S |-> f[x]]
  PROVE  IsFiniteSet({f[x] : x \in S})
<1>. DEFINE T == {f[x] : x \in S}
<1>1. f \in Surjection(S, T)
  BY DEF Surjection
<1>. QED  BY <1>1, FS_Surjection

\* f is defined on the subsets of S by its value on a smaller subset.
Recursive(f, S, first, less, next) ==
  \A E \in SUBSET S : f[E] = IF E = {} THEN first ELSE next[<<E, f[less[E]]>>]

Shrinking(less, S) == \A E \in SUBSET S : E # {} => less[E] \subseteq E /\ less[E] # E

LEMMA RecursionExists ==
  ASSUME NEW S, NEW V, NEW first \in V, NEW less \in [SUBSET S -> SUBSET S],
         NEW next \in [(SUBSET S) \X V -> V], IsFiniteSet(S), Shrinking(less, S)
  PROVE  \E f \in [SUBSET S -> V] : Recursive(f, S, first, less, next)
<1>. DEFINE Value(f, E) == IF E = {} THEN first ELSE next[<<E, f[less[E]]>>]
            UpTo(f, n) == \A E \in SUBSET S : Cardinality(E) <= n => f[E] = Value(f, E)
            Bad == {n \in Nat : ~\E f \in [SUBSET S -> V] : UpTo(f, n)}
<1>1. \A E \in SUBSET S : IsFiniteSet(E) /\ Cardinality(E) \in Nat
  BY FS_Subset, FS_CardinalityType
<1>2. \A E \in SUBSET S : E # {} =>
        less[E] \in SUBSET S /\ Cardinality(less[E]) < Cardinality(E)
  BY <1>1, FS_Subset DEF Shrinking
<1>3. \E f \in [SUBSET S -> V] : UpTo(f, 0)
  <2>. DEFINE f == [E \in SUBSET S |-> first]
  <2>1. \A E \in SUBSET S : Cardinality(E) <= 0 => E = {}
    BY <1>1, FS_EmptySet
  <2>2. f \in [SUBSET S -> V] /\ UpTo(f, 0)
    BY <2>1
  <2>. HIDE DEF f, UpTo
  <2>. QED  BY <2>2
<1>4. ASSUME NEW n \in Nat, NEW f \in [SUBSET S -> V], UpTo(f, n)
      PROVE  \E g \in [SUBSET S -> V] : UpTo(g, n + 1)
  <2>. DEFINE g == [E \in SUBSET S |-> Value(f, E)]
  <2>0. g \in [SUBSET S -> V]
    OBVIOUS
  <2>1. ASSUME NEW E \in SUBSET S, Cardinality(E) <= n + 1 PROVE g[E] = Value(g, E)
    <3>1. CASE E = {}
      BY <3>1
    <3>2. CASE E # {}
      <4>1. less[E] \in SUBSET S /\ Cardinality(less[E]) <= n
        BY <1>1, <1>2, <2>1, <3>2
      <4>2. g[less[E]] = f[less[E]]
        BY <1>4, <4>1
      <4>. QED  BY <3>2, <4>2
    <3>. QED  BY <3>1, <3>2
  <2>. HIDE DEF g, Value
  <2>. QED  BY <2>0, <2>1
<1>5. Cardinality(S) \in Nat /\ \A E \in SUBSET S : Cardinality(E) <= Cardinality(S)
  BY <1>1, FS_Subset
<1>6. \E f \in [SUBSET S -> V] : UpTo(f, Cardinality(S))
  <2>1. SUFFICES ASSUME Bad # {} PROVE FALSE
    BY <1>5
  <2>2. PICK n \in Bad : \A m \in Bad : n <= m
    <3>1. Bad \in SUBSET Nat
      OBVIOUS
    <3>. HIDE DEF Bad
    <3>. QED  BY <2>1, <3>1, LeastNumber
  <2>. HIDE DEF UpTo
  <2>3. n # 0
    BY <1>3
  <2>4. n \in Nat /\ n - 1 \in Nat /\ n = (n - 1) + 1
    BY <2>3
  <2>5. n - 1 \notin Bad
    <3>. HIDE DEF Bad
    <3>. QED  BY <2>2, <2>4
  <2>6. \E f \in [SUBSET S -> V] : UpTo(f, n - 1)
    BY <2>4, <2>5
  <2>7. \E f \in [SUBSET S -> V] : UpTo(f, n)
    <3>1. \A m \in Nat : (\E f \in [SUBSET S -> V] : UpTo(f, m))
                          => \E f \in [SUBSET S -> V] : UpTo(f, m + 1)
      BY <1>4
    <3>. DEFINE Exists(m) == \E f \in [SUBSET S -> V] : UpTo(f, m)
    <3>2. Exists(n - 1) => Exists((n - 1) + 1)
      BY <2>4, <3>1
    <3>. HIDE DEF Exists
    <3>3. Exists(n)
      BY <2>4, <2>6, <3>2 DEF Exists
    <3>. QED  BY <3>3 DEF Exists
  <2>. QED  BY <2>7
<1>. QED  BY <1>5, <1>6 DEF Recursive

\* A finite set that R orders totally has a last element.
LEMMA LastExists ==
  ASSUME NEW S, IsFiniteSet(S), S # {}, NEW R,
         \A p, q \in S : p # q => <<p, q>> \in R \/ <<q, p>> \in R,
         \A p, q, r \in S : <<p, q>> \in R /\ <<q, r>> \in R => <<p, r>> \in R
  PROVE  \E w \in S : \A q \in S \ {w} : <<q, w>> \in R
<1>. DEFINE HasLast(E) == \E w \in E : \A q \in E \ {w} : <<q, w>> \in R
            Bad == {E \in SUBSET S : E # {} /\ ~HasLast(E)}
<1>1. SUFFICES ASSUME Bad # {} PROVE FALSE
  OBVIOUS
<1>2. PICK E \in Bad : \A D \in Bad : D \subseteq E => D = E
  <2>1. Bad \in SUBSET (SUBSET S)
    OBVIOUS
  <2>. HIDE DEF Bad
  <2>. QED  BY <1>1, <2>1, SmallestSet
<1>3. PICK p \in E : TRUE
  OBVIOUS
<1>4. E \ {p} = {} \/ HasLast(E \ {p})
  <2>1. E \ {p} \subseteq E /\ E \ {p} # E /\ E \ {p} \in SUBSET S
    BY <1>3
  <2>2. E \ {p} \notin Bad
    BY <1>2, <2>1
  <2>. QED  BY <2>1, <2>2
<1>5. CASE E \ {p} = {}
  BY <1>5
<1>6. CASE HasLast(E \ {p})
  <2>1. PICK w \in E \ {p} : \A q \in (E \ {p}) \ {w} : <<q, w>> \in R
    BY <1>6
  <2>2. CASE <<p, w>> \in R
    BY <2>1, <2>2
  <2>3. CASE <<w, p>> \in R
    <3>1. \A q \in E \ {p} : <<q, p>> \in R
      BY <2>1, <2>3
    <3>. QED  BY <3>1
  <2>. QED  BY <2>1, <2>2, <2>3
<1>. QED  BY <1>4, <1>5, <1>6

=============================================================================

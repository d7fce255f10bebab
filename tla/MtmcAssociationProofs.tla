------------------------ MODULE MtmcAssociationProofs ------------------------
(***************************************************************************)
(* The association's algorithms for every input: the pairs supported in a  *)
(* bucket, and the clusters of any tracklets with any statistics.          *)
(***************************************************************************)
EXTENDS MtmcAssociationProps, ClusteringProofs

-----------------------------------------------------------------------------
(* The order of the candidates: the cheaper first, the smaller on equal cost. *)

Cheaper(cost, p, q) ==
  \/ cost[p] < cost[q]
  \/ cost[p] = cost[q] /\ PairBefore(p, q)

\* The candidates of one bucket with their costs.
Costs(cost) ==
  /\ IsFiniteSet(DOMAIN cost) /\ DOMAIN cost \subseteq Triple \X Triple
  /\ \A p \in DOMAIN cost : cost[p] \in Int

LEMMA CheaperOrder ==
  ASSUME NEW cost, Costs(cost)
  PROVE  /\ \A p, q \in DOMAIN cost : p # q => Cheaper(cost, p, q) \/ Cheaper(cost, q, p)
         /\ \A p, q, r \in DOMAIN cost :
              Cheaper(cost, p, q) /\ Cheaper(cost, q, r) => Cheaper(cost, p, r)
         /\ \A p \in DOMAIN cost : ~Cheaper(cost, p, p)
<1>1. \A p \in DOMAIN cost : p \in Triple \X Triple /\ cost[p] \in Int
  BY DEF Costs
<1>2. \A p \in Triple \X Triple : ~PairBefore(p, p)
  BY BeforeOrder DEF PairBefore
<1>3. ASSUME NEW p \in DOMAIN cost, NEW q \in DOMAIN cost, p # q
      PROVE  Cheaper(cost, p, q) \/ Cheaper(cost, q, p)
  <2>1. PairBefore(p, q) \/ PairBefore(q, p)
    BY <1>1, <1>3, PairBeforeOrder
  <2>. QED  BY <1>1, <2>1 DEF Cheaper
<1>4. ASSUME NEW p \in DOMAIN cost, NEW q \in DOMAIN cost, NEW r \in DOMAIN cost,
             Cheaper(cost, p, q), Cheaper(cost, q, r)
      PROVE  Cheaper(cost, p, r)
  <2>1. PairBefore(p, q) /\ PairBefore(q, r) => PairBefore(p, r)
    BY <1>1, PairBeforeOrder
  <2>. QED  BY <1>1, <1>4, <2>1 DEF Cheaper
<1>. QED  BY <1>1, <1>2, <1>3, <1>4 DEF Cheaper

\* Some candidates have exactly one that is cheaper than the others.
LEMMA LeastExists ==
  ASSUME NEW cost, Costs(cost), NEW S \in SUBSET DOMAIN cost, S # {}
  PROVE  \E p \in S : \A q \in S \ {p} : Cheaper(cost, p, q)
<1>. DEFINE R == {ss \in S \X S : Cheaper(cost, ss[2], ss[1])}
<1>1. \A p, q \in S : <<p, q>> \in R <=> Cheaper(cost, q, p)
  OBVIOUS
<1>. HIDE DEF R
<1>2. IsFiniteSet(S)
  BY FS_Subset DEF Costs
<1>3. \A p, q \in S : p # q => <<p, q>> \in R \/ <<q, p>> \in R
  BY <1>1, CheaperOrder
<1>4. \A p, q, r \in S : <<p, q>> \in R /\ <<q, r>> \in R => <<p, r>> \in R
  BY <1>1, CheaperOrder
<1>5. \E p \in S : \A q \in S \ {p} : <<q, p>> \in R
  BY <1>2, <1>3, <1>4, LastExists
<1>. QED  BY <1>1, <1>5

LEMMA LeastUnique ==
  ASSUME NEW cost, Costs(cost), NEW S \in SUBSET DOMAIN cost, NEW p \in S, NEW q \in S,
         \A r \in S \ {p} : Cheaper(cost, p, r), \A r \in S \ {q} : Cheaper(cost, q, r)
  PROVE  p = q
BY CheaperOrder

LEMMA CheapestIs ==
  ASSUME NEW cost, Costs(cost), NEW S \in SUBSET DOMAIN cost, S # {}
  PROVE  /\ Cheapest(cost, S) \in S
         /\ \A q \in S \ {Cheapest(cost, S)} : Cheaper(cost, Cheapest(cost, S), q)
<1>1. \E p \in S : \A q \in S \ {p} : cost[p] < cost[q] \/ (cost[p] = cost[q] /\ PairBefore(p, q))
  BY LeastExists, Zenon DEF Cheaper
<1>. QED  BY <1>1, Zenon DEF Cheapest, Cheaper

\* The candidates that share a tracklet with p, itself included.
Rivals(cost, p) == {q \in DOMAIN cost : q[1] = p[1] \/ q[2] = p[2]}

\* Mutually nearest: cheaper than every other candidate of either tracklet.
LEMMA MutuallyNearestIs ==
  ASSUME NEW cost, Costs(cost), NEW p \in DOMAIN cost
  PROVE  p \in MutuallyNearest(cost) <=> \A q \in Rivals(cost, p) \ {p} : Cheaper(cost, p, q)
<1>. DEFINE rights == {q \in DOMAIN cost : q[1] = p[1]}
            lefts == {q \in DOMAIN cost : q[2] = p[2]}
<1>1. \A q \in DOMAIN cost : q \in Triple \X Triple /\ q[1] \in Triple /\ q[2] \in Triple
  BY DEF Costs
<1>2. \A q, r \in rights : PairBefore(q, r) <=> Before(q[2], r[2])
  BY <1>1, BeforeOrder DEF PairBefore
<1>3. \A q, r \in lefts : PairBefore(q, r) <=> Before(q[1], r[1])
  BY <1>1, BeforeOrder DEF PairBefore
<1>4. /\ NearestRight(cost, p[1]) \in rights
      /\ \A q \in rights \ {NearestRight(cost, p[1])} :
           Cheaper(cost, NearestRight(cost, p[1]), q)
  <2>1. \E w \in rights : \A q \in rights \ {w} : Cheaper(cost, w, q)
    <3>1. rights \in SUBSET DOMAIN cost /\ rights # {}
      OBVIOUS
    <3>. HIDE DEF rights
    <3>. QED  BY <3>1, LeastExists
  <2>2. \A q, r \in rights :
          Cheaper(cost, q, r) <=> cost[q] < cost[r] \/ (cost[q] = cost[r] /\ Before(q[2], r[2]))
    BY <1>2 DEF Cheaper
  <2>3. NearestRight(cost, p[1]) =
          CHOOSE w \in rights : \A q \in rights \ {w} :
            cost[w] < cost[q] \/ (cost[w] = cost[q] /\ Before(w[2], q[2]))
    BY Zenon DEF NearestRight
  <2>. HIDE DEF rights
  <2>4. \E w \in rights : \A q \in rights \ {w} :
          cost[w] < cost[q] \/ (cost[w] = cost[q] /\ Before(w[2], q[2]))
    BY <2>1, <2>2
  <2>5. /\ NearestRight(cost, p[1]) \in rights
        /\ \A q \in rights \ {NearestRight(cost, p[1])} :
             \/ cost[NearestRight(cost, p[1])] < cost[q]
             \/ /\ cost[NearestRight(cost, p[1])] = cost[q]
                /\ Before(NearestRight(cost, p[1])[2], q[2])
    BY <2>3, <2>4, Zenon
  <2>. QED  BY <2>2, <2>5
<1>5. /\ NearestLeft(cost, p[2]) \in lefts
      /\ \A q \in lefts \ {NearestLeft(cost, p[2])} :
           Cheaper(cost, NearestLeft(cost, p[2]), q)
  <2>1. \E w \in lefts : \A q \in lefts \ {w} : Cheaper(cost, w, q)
    <3>1. lefts \in SUBSET DOMAIN cost /\ lefts # {}
      OBVIOUS
    <3>. HIDE DEF lefts
    <3>. QED  BY <3>1, LeastExists
  <2>2. \A q, r \in lefts :
          Cheaper(cost, q, r) <=> cost[q] < cost[r] \/ (cost[q] = cost[r] /\ Before(q[1], r[1]))
    BY <1>3 DEF Cheaper
  <2>3. NearestLeft(cost, p[2]) =
          CHOOSE w \in lefts : \A q \in lefts \ {w} :
            cost[w] < cost[q] \/ (cost[w] = cost[q] /\ Before(w[1], q[1]))
    BY Zenon DEF NearestLeft
  <2>. HIDE DEF lefts
  <2>4. \E w \in lefts : \A q \in lefts \ {w} :
          cost[w] < cost[q] \/ (cost[w] = cost[q] /\ Before(w[1], q[1]))
    BY <2>1, <2>2
  <2>5. /\ NearestLeft(cost, p[2]) \in lefts
        /\ \A q \in lefts \ {NearestLeft(cost, p[2])} :
             \/ cost[NearestLeft(cost, p[2])] < cost[q]
             \/ /\ cost[NearestLeft(cost, p[2])] = cost[q]
                /\ Before(NearestLeft(cost, p[2])[1], q[1])
    BY <2>3, <2>4, Zenon
  <2>. QED  BY <2>2, <2>5
<1>6. NearestRight(cost, p[1]) = p <=> \A q \in rights \ {p} : Cheaper(cost, p, q)
  <2>1. rights \in SUBSET DOMAIN cost /\ p \in rights
    OBVIOUS
  <2>. HIDE DEF rights
  <2>. QED  BY <1>4, <2>1, LeastUnique
<1>7. NearestLeft(cost, p[2]) = p <=> \A q \in lefts \ {p} : Cheaper(cost, p, q)
  <2>1. lefts \in SUBSET DOMAIN cost /\ p \in lefts
    OBVIOUS
  <2>. HIDE DEF lefts
  <2>. QED  BY <1>5, <2>1, LeastUnique
<1>8. p \in MutuallyNearest(cost) <=>
        NearestRight(cost, p[1]) = p /\ NearestLeft(cost, p[2]) = p
  BY DEF MutuallyNearest
<1>9. Rivals(cost, p) = rights \cup lefts
  BY DEF Rivals
<1>. HIDE DEF rights, lefts
<1>. QED  BY <1>6, <1>7, <1>8, <1>9

-----------------------------------------------------------------------------
(* Greedy matching.                                                         *)

Others(S, p) == {q \in S : q[1] # p[1] /\ q[2] # p[2]}

\* rest[S] is the greedy matching of the candidates in S.
Rest(rest, cost) ==
  \A S \in SUBSET DOMAIN cost :
    rest[S] = IF S = {} THEN {}
              ELSE {Cheapest(cost, S)} \cup rest[Others(S, Cheapest(cost, S))]

LEMMA GreedyIs ==
  ASSUME NEW cost, Costs(cost)
  PROVE  \E rest : Rest(rest, cost) /\ Greedy(cost) = rest[DOMAIN cost]
<1>. DEFINE D == DOMAIN cost
            best(S) == Cheapest(cost, S)
            less == [S \in SUBSET D |-> IF S = {} THEN {} ELSE Others(S, best(S))]
            next == [ss \in (SUBSET D) \X (SUBSET D) |->
                       IF ss[1] = {} THEN {} ELSE {best(ss[1])} \cup ss[2]]
<1>1. \A S \in SUBSET D : S # {} => best(S) \in S
  BY CheapestIs
<1>. HIDE DEF best
<1>2. less \in [SUBSET D -> SUBSET D]
  BY DEF Others
<1>3. \A S \in SUBSET D : S # {} => less[S] \subseteq S /\ less[S] # S
  BY <1>1 DEF Others
<1>4. next \in [(SUBSET D) \X (SUBSET D) -> SUBSET D]
  <2>1. ASSUME NEW ss \in (SUBSET D) \X (SUBSET D)
        PROVE  (IF ss[1] = {} THEN {} ELSE {best(ss[1])} \cup ss[2]) \in SUBSET D
    BY <1>1
  <2>. QED  BY <2>1
<1>5. PICK f \in [SUBSET D -> SUBSET D] :
        \A S \in SUBSET D : f[S] = IF S = {} THEN {} ELSE next[<<S, f[less[S]]>>]
  <2>1. IsFiniteSet(D)
    BY DEF Costs
  <2>. DEFINE V == SUBSET D  first == {}
  <2>2. first \in V /\ next \in [(SUBSET D) \X V -> V]
    BY <1>4
  <2>. HIDE DEF D, less, next, V, first
  <2>3. Shrinking(less, D)
    BY <1>3 DEF Shrinking
  <2>4. \E f \in [SUBSET D -> V] : Recursive(f, D, first, less, next)
    BY <1>2, <2>1, <2>2, <2>3, RecursionExists
  <2>. QED  BY <2>4 DEF V, first, Recursive
<1>6. \A S \in SUBSET D :
        f[S] = IF S = {} THEN {} ELSE {best(S)} \cup f[Others(S, best(S))]
  <2>1. ASSUME NEW S \in SUBSET D, S # {}
        PROVE  f[S] = {best(S)} \cup f[Others(S, best(S))]
    <3>1. less[S] = Others(S, best(S)) /\ less[S] \in SUBSET D
      BY <1>2, <2>1
    <3>2. f[less[S]] \in SUBSET D
      BY <3>1
    <3>3. next[<<S, f[less[S]]>>] = {best(S)} \cup f[less[S]]
      BY <2>1, <3>2
    <3>. QED  BY <1>5, <2>1, <3>1, <3>3
  <2>. HIDE DEF less, next
  <2>. QED  BY <1>5, <2>1
<1>. DEFINE rest[S \in SUBSET DOMAIN cost] ==
              IF S = {} THEN {}
              ELSE LET best1 == Cheapest(cost, S)
                   IN {best1} \cup rest[{p \in S : p[1] # best1[1] /\ p[2] # best1[2]}]
<1>7. f = [S \in SUBSET DOMAIN cost |->
             IF S = {} THEN {}
             ELSE LET best1 == Cheapest(cost, S)
                  IN {best1} \cup f[{p \in S : p[1] # best1[1] /\ p[2] # best1[2]}]]
  <2>. HIDE DEF less, next
  <2>1. f = [S \in SUBSET D |->
               IF S = {} THEN {} ELSE {best(S)} \cup f[Others(S, best(S))]]
    BY <1>6
  <2>. QED  BY <2>1, Zenon DEF best, Others
<1>8. rest = [S \in SUBSET DOMAIN cost |->
             IF S = {} THEN {}
             ELSE LET best1 == Cheapest(cost, S)
                  IN {best1} \cup rest[{p \in S : p[1] # best1[1] /\ p[2] # best1[2]}]]
  BY <1>7
<1>9. Greedy(cost) = rest[DOMAIN cost]
  BY DEF Greedy
<1>. HIDE DEF rest
<1>10. Rest(rest, cost)
  BY <1>8 DEF Rest, Others
<1>. QED  BY <1>9, <1>10

\* A pair that is mutually nearest stays a candidate until it is the cheapest.
LEMMA NearestIsGreedy ==
  ASSUME NEW cost, Costs(cost), NEW p \in MutuallyNearest(cost)
  PROVE  p \in Greedy(cost)
<1>1. p \in DOMAIN cost /\ \A q \in Rivals(cost, p) \ {p} : Cheaper(cost, p, q)
  <2>1. p \in DOMAIN cost
    BY DEF MutuallyNearest
  <2>. QED  BY <2>1, MutuallyNearestIs
<1>2. PICK rest : Rest(rest, cost) /\ Greedy(cost) = rest[DOMAIN cost]
  BY GreedyIs
<1>. DEFINE Bad == {S \in SUBSET DOMAIN cost : p \in S /\ p \notin rest[S]}
<1>3. SUFFICES ASSUME Bad # {} PROVE FALSE
  BY <1>1, <1>2
<1>4. PICK S \in Bad : \A T \in Bad : T \subseteq S => T = S
  <2>1. Bad \in SUBSET (SUBSET DOMAIN cost) /\ IsFiniteSet(DOMAIN cost)
    BY DEF Costs
  <2>. HIDE DEF Bad
  <2>. QED  BY <1>3, <2>1, SmallestSet
<1>. DEFINE best == Cheapest(cost, S)
<1>5. /\ S \in SUBSET DOMAIN cost /\ p \in S /\ p \notin rest[S]
      /\ best \in S /\ \A q \in S \ {best} : Cheaper(cost, best, q)
  BY CheapestIs
<1>6. rest[S] = {best} \cup rest[Others(S, best)]
  BY <1>2, <1>5 DEF Rest
<1>. HIDE DEF best
<1>7. best # p
  BY <1>5, <1>6
<1>8. p \in Others(S, best)
  <2>1. ASSUME best \in Rivals(cost, p) PROVE FALSE
    BY <1>1, <1>5, <1>7, <2>1, CheaperOrder
  <2>. QED  BY <1>5, <2>1 DEF Rivals, Others
<1>9. Others(S, best) \subseteq S /\ Others(S, best) # S
  BY <1>5 DEF Others
<1>. QED  BY <1>4, <1>5, <1>6, <1>8, <1>9

LEMMA CheapestIsNearest ==
  ASSUME NEW cost, Costs(cost), DOMAIN cost # {}
  PROVE  Cheapest(cost, DOMAIN cost) \in MutuallyNearest(cost)
<1>1. /\ Cheapest(cost, DOMAIN cost) \in DOMAIN cost
      /\ \A q \in DOMAIN cost \ {Cheapest(cost, DOMAIN cost)} :
           Cheaper(cost, Cheapest(cost, DOMAIN cost), q)
  BY CheapestIs
<1>. QED  BY <1>1, MutuallyNearestIs DEF Rivals


-----------------------------------------------------------------------------
(* Lifetimes. *)

\* Lifetimes overlap when they share a bucket.
LEMMA OverlapIs ==
  ASSUME NEW keys, NEW support, NEW cooccurrence, NEW life,
         Statistics(keys, support, cooccurrence, life), NEW k \in keys, NEW l \in keys
  PROVE  Overlap(k, l, life) <=>
           /\ k[1] = l[1]
           /\ (life[k][1]..life[k][2]) \cap (life[l][1]..life[l][2]) # {}
<1>. DEFINE a == life[k][1]  b == life[k][2]  c == life[l][1]  d == life[l][2]
<1>1. a \in Nat /\ b \in Nat /\ c \in Nat /\ d \in Nat /\ a <= b /\ c <= d
  BY DEF Statistics
<1>2. Overlap(k, l, life) <=> k[1] = l[1] /\ a <= d /\ c <= b
  BY Zenon DEF Overlap
<1>. HIDE DEF a, b, c, d
<1>3. ((a..b) \cap (c..d) # {}) <=> (a <= d /\ c <= b)
  <2>1. ASSUME a <= d, c <= b PROVE (a..b) \cap (c..d) # {}
    <3>1. a \in (a..b) \cap (c..d) \/ c \in (a..b) \cap (c..d)
      BY <1>1, <2>1
    <3>. QED  BY <3>1
  <2>2. ASSUME NEW x \in (a..b) \cap (c..d) PROVE a <= d /\ c <= b
    BY <1>1, <2>2
  <2>. QED  BY <2>1, <2>2
<1>. QED  BY <1>2, <1>3 DEF a, b, c, d

-----------------------------------------------------------------------------
(* The inputs, and the output computed from them.                           *)

CostsInv ==
  input.kind = "costs" =>
    /\ Costs(input.cost) /\ DOMAIN input.cost # {}
    /\ done => output = MutuallyNearest(input.cost)

StatisticsInv ==
  input.kind = "statistics" =>
    /\ Statistics(input.keys, input.support, input.cooccurrence, input.life)
    /\ done => output = Clusters(input.keys, input.support, input.cooccurrence, input.life)

AssociationInv == CostsInv /\ StatisticsInv

LEMMA InitInputs == AssociationInit => AssociationInv
<1>. SUFFICES ASSUME AssociationInit PROVE AssociationInv
  OBVIOUS
<1>1. ASSUME NEW pairs \in Candidate, NEW cost \in [pairs -> Cost],
             input = [kind |-> "costs", cost |-> cost]
      PROVE  AssociationInv
  <2>1. IsFiniteSet(Left \X Right) /\ Left \X Right \subseteq Triple \X Triple
    BY InputAssumption, FS_Product DEF Triple
  <2>2. pairs \in SUBSET (Left \X Right) /\ pairs # {}
    BY DEF Candidate
  <2>3. IsFiniteSet(pairs) /\ pairs \subseteq Triple \X Triple
    BY <2>1, <2>2, FS_Subset
  <2>4. \A p \in pairs : cost[p] \in Int
    BY InputAssumption
  <2>5. Costs(cost) /\ DOMAIN cost # {}
    BY <2>2, <2>3, <2>4 DEF Costs
  <2>6. input.kind = "costs" /\ input.cost = cost /\ ~done
    BY <1>1 DEF AssociationInit
  <2>. QED  BY <2>5, <2>6 DEF AssociationInv, CostsInv, StatisticsInv
<1>2. ASSUME NEW keys \in KeySets, NEW support \in Counts(keys), NEW life \in [keys -> Span],
             input = [kind |-> "statistics", keys |-> keys, support |-> support, life |-> life,
                      cooccurrence |-> [p \in CrossPairs(keys) |-> Opportunities]]
      PROVE  AssociationInv
  <2>1. IsFiniteSet(keys) /\ keys \subseteq Triple
    BY InputAssumption DEF Triple
  <2>2. PICK pairs \in SUBSET CrossPairs(keys) : support \in [pairs -> 1..Opportunities]
    BY DEF Counts
  <2>3. IsFiniteSet(pairs)
    <3>1. IsFiniteSet(keys \X keys)
      BY <2>1, FS_Product
    <3>2. pairs \subseteq keys \X keys
      BY <2>2 DEF CrossPairs
    <3>. QED  BY <3>1, <3>2, FS_Subset
  <2>. DEFINE cooccurrence == [p \in CrossPairs(keys) |-> Opportunities]
  <2>4. \A p \in pairs : support[p] \in Nat \ {0} /\ cooccurrence[p] \in Nat \ {0}
    <3>1. ASSUME NEW p \in pairs PROVE support[p] \in Nat \ {0} /\ cooccurrence[p] \in Nat \ {0}
      <4>1. support[p] \in 1..Opportunities /\ cooccurrence[p] = Opportunities
        BY <2>2
      <4>. QED  BY <4>1, InputAssumption
    <3>. QED  BY <3>1
  <2>5. \A k \in keys : life[k] \in Nat \X Nat /\ life[k][1] <= life[k][2]
    BY InputAssumption
  <2>6. DOMAIN support = pairs
    BY <2>2
  <2>7. Statistics(keys, support, cooccurrence, life)
    <3>. HIDE DEF cooccurrence
    <3>. QED  BY <2>1, <2>2, <2>3, <2>4, <2>5, <2>6 DEF Statistics
  <2>8. /\ input.kind = "statistics" /\ input.keys = keys /\ input.support = support
        /\ input.life = life /\ input.cooccurrence = cooccurrence /\ ~done
    BY <1>2 DEF AssociationInit
  <2>. HIDE DEF cooccurrence
  <2>. QED  BY <2>7, <2>8 DEF AssociationInv, CostsInv, StatisticsInv
<1>. QED  BY <1>1, <1>2 DEF AssociationInit

\* The input stays, and the output is what the algorithm computes from it.
THEOREM Evaluated == AssociationSpec => []AssociationInv
<1>1. AssociationInv /\ [AssociationNext]_associationVars => AssociationInv'
  <2>. SUFFICES ASSUME AssociationInv, [AssociationNext]_associationVars PROVE AssociationInv'
    OBVIOUS
  <2>1. CASE Associate
    BY <2>1 DEF AssociationInv, CostsInv, StatisticsInv, Associate
  <2>2. CASE Cluster
    BY <2>2 DEF AssociationInv, CostsInv, StatisticsInv, Cluster
  <2>3. CASE UNCHANGED associationVars
    BY <2>3 DEF AssociationInv, CostsInv, StatisticsInv, associationVars
  <2>. QED  BY <2>1, <2>2, <2>3 DEF AssociationNext
<1>. QED  BY InitInputs, <1>1, PTL DEF AssociationSpec

-----------------------------------------------------------------------------

\* In every bucket the supported pairs are part of the greedy matching and have
\* its cheapest pair (mtmc.py:568-587), whatever the costs, ties included.
THEOREM SupportGreedy == AssociationSpec => []SupportWithinGreedy
<1>1. AssociationInv => SupportWithinGreedy
  <2>. SUFFICES ASSUME AssociationInv, Associated PROVE /\ output \subseteq Greedy(input.cost)
                                       /\ Cheapest(input.cost, DOMAIN input.cost) \in output
    BY DEF SupportWithinGreedy
  <2>1. /\ Costs(input.cost) /\ DOMAIN input.cost # {}
        /\ output = MutuallyNearest(input.cost)
    BY DEF AssociationInv, CostsInv, Associated
  <2>. QED  BY <2>1, NearestIsGreedy, CheapestIsNearest
<1>. QED  BY Evaluated, <1>1, PTL

\* What the clusters computed from a state's statistics are, in the terms of the
\* clustering's lemmas.
LEMMA ClusteredIs ==
  ASSUME AssociationInv, Clustered
  PROVE  /\ Statistics(input.keys, input.support, input.cooccurrence, input.life)
         /\ Qualified = Edges(input.support, input.cooccurrence)
         /\ \A p \in Qualified : ~Overlap(p[1], p[2], input.life)
         /\ Partition(output, input.keys)
         /\ Separate(output, input.life)
         /\ Held(output, Qualified)
         /\ Exhausted(output, Qualified, input.life)
         /\ \A p \in Qualified : /\ Strongest(p, Qualified, input.support, input.cooccurrence)
                                 /\ ~Overlap(p[1], p[2], input.life)
                                 => Joined(output, p)
<1>1. /\ Statistics(input.keys, input.support, input.cooccurrence, input.life)
      /\ output = Clusters(input.keys, input.support, input.cooccurrence, input.life)
  BY DEF AssociationInv, StatisticsInv, Clustered
<1>2. Qualified = Edges(input.support, input.cooccurrence)
  BY DEF Qualified, Edges
<1>. QED  BY <1>1, <1>2, EdgesTallied, ClustersAre

LEMMA ConflictIs ==
  ASSUME AssociationInv, Clustered, NEW k \in input.keys, NEW l \in input.keys
  PROVE  Conflict(k, l) <=> k # l /\ Overlap(k, l, input.life)
<1>1. Statistics(input.keys, input.support, input.cooccurrence, input.life)
  BY ClusteredIs
<1>. QED  BY <1>1, OverlapIs DEF Conflict

\* Whatever the statistics, the lifetimes and the thresholds, the clusters
\* partition the tracklets, are held together by qualified pairs and hold no two
\* tracklets of one camera that were alive together (mtmc.py:590-644).
THEOREM ClusterSoundness == AssociationSpec => []ClustersSound
<1>1. AssociationInv => ClustersSound
  <2>. SUFFICES ASSUME AssociationInv, Clustered
                PROVE  /\ UNION output = input.keys
                       /\ \A c, d \in output : c # d => c \cap d = {}
                       /\ \A c \in output : Connected(c) /\ \A k, l \in c : ~Conflict(k, l)
    BY DEF ClustersSound
  <2>1. /\ Partition(output, input.keys) /\ Separate(output, input.life)
        /\ Held(output, Qualified)
    BY ClusteredIs
  <2>2. ASSUME NEW c \in output PROVE Connected(c)
    BY <2>1, Zenon DEF Held, Connected
  <2>3. ASSUME NEW c \in output, NEW k \in c, NEW l \in c PROVE ~Conflict(k, l)
    <3>1. k \in input.keys /\ l \in input.keys
      BY <2>1 DEF Partition
    <3>. QED  BY <2>1, <3>1, ConflictIs DEF Separate
  <2>. QED  BY <2>1, <2>2, <2>3 DEF Partition
<1>. QED  BY Evaluated, <1>1, PTL

\* Only an overlap keeps the two ends of a qualified pair in two clusters.
THEOREM ClusterMaximality == AssociationSpec => []ClustersMaximal
<1>1. AssociationInv => ClustersMaximal
  <2>. SUFFICES ASSUME AssociationInv, Clustered, NEW p \in Qualified,
                       NEW c \in output, NEW d \in output,
                       p[1] \in c, p[2] \in d, c # d
                PROVE  \E k \in c, l \in d : Conflict(k, l)
    BY DEF ClustersMaximal
  <2>1. Partition(output, input.keys) /\ Exhausted(output, Qualified, input.life)
    BY ClusteredIs
  <2>2. PICK k \in c, l \in d : Overlap(k, l, input.life)
    BY <2>1 DEF Exhausted, Blocked
  <2>3. k \in input.keys /\ l \in input.keys /\ k # l
    BY <2>1 DEF Partition
  <2>. QED  BY <2>2, <2>3, ConflictIs
<1>. QED  BY Evaluated, <1>1, PTL

\* The pair with the best affinity is joined whatever the weaker pairs are
\* (mtmc.py:635).
THEOREM StrongestJoined == AssociationSpec => []StrongestPairJoined
<1>1. AssociationInv => StrongestPairJoined
  <2>. SUFFICES ASSUME AssociationInv, Clustered, NEW p \in Qualified,
                       \A q \in Qualified \ {p} :
                         input.support[q] * input.cooccurrence[p]
                           < input.support[p] * input.cooccurrence[q]
                PROVE  \E c \in output : {p[1], p[2]} \subseteq c
    BY DEF StrongestPairJoined
  <2>1. Strongest(p, Qualified, input.support, input.cooccurrence)
    BY DEF Strongest
  <2>2. Joined(output, p)
    BY <2>1, ClusteredIs
  <2>. QED  BY <2>2 DEF Joined
<1>. QED  BY Evaluated, <1>1, PTL

=============================================================================

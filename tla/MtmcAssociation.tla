-------------------------- MODULE MtmcAssociation --------------------------
(***************************************************************************)
(* pipelines/mtmc.py: the pure part of the association, from the costs of  *)
(* one bucket to clusters of tracklets and to their global IDs.            *)
(*                                                                         *)
(* A tracklet is <<source, generation, object>>, compared as Python        *)
(* compares tuples.  A row stands for one accepted mux batch: the          *)
(* tracklets seen in it and, for each pair of sources, the pairs that are  *)
(* mutually nearest.  Geometry, uncertainty and appearance enter only      *)
(* through the cost that makes them so.  The disjoint-set forest of the    *)
(* code is the partition it represents.                                    *)
(***************************************************************************)
EXTENDS Integers, FiniteSets, FiniteSetsExt

CONSTANTS
  MinCooccurrence,           \* MtmcConfig.min_cooccurrence
  MinSupport,                \* MtmcConfig.min_support
  AffinityNum, AffinityDen   \* MtmcConfig.min_affinity, as a fraction

ASSUME ThresholdAssumption ==
  /\ MinCooccurrence \in Nat
  /\ MinSupport \in Nat
  /\ AffinityNum \in Nat
  /\ AffinityDen \in Nat \ {0}

-----------------------------------------------------------------------------
(* Orders. *)

Before(k, l) ==
  \/ k[1] < l[1]
  \/ k[1] = l[1] /\ k[2] < l[2]
  \/ k[1] = l[1] /\ k[2] = l[2] /\ k[3] < l[3]

PairBefore(p, q) ==
  \/ Before(p[1], q[1])
  \/ p[1] = q[1] /\ Before(p[2], q[2])

FirstKey(S) == CHOOSE k \in S : \A l \in S \ {k} : Before(k, l)

-----------------------------------------------------------------------------
(* Evidence of one bucket, between two of its sources.                       *)

\* min(choices): the cheapest candidate of k, the smaller key on equal cost.
\* cost is defined on the candidate pairs only.
NearestRight(cost, k) ==
  LET choices == {p \in DOMAIN cost : p[1] = k}
  IN CHOOSE p \in choices : \A q \in choices \ {p} :
       \/ cost[p] < cost[q]
       \/ cost[p] = cost[q] /\ Before(p[2], q[2])

NearestLeft(cost, k) ==
  LET choices == {p \in DOMAIN cost : p[2] = k}
  IN CHOOSE p \in choices : \A q \in choices \ {p} :
       \/ cost[p] < cost[q]
       \/ cost[p] = cost[q] /\ Before(p[1], q[1])

\* Mutant: the nearest of one side is enough.
NearestOfEither(cost) ==
  {p \in DOMAIN cost : NearestRight(cost, p[1]) = p \/ NearestLeft(cost, p[2]) = p}

\* The pairs that gain support: each is the other's nearest.
MutuallyNearest(cost) ==
  {p \in DOMAIN cost : NearestRight(cost, p[1]) = p /\ NearestLeft(cost, p[2]) = p}

-----------------------------------------------------------------------------
(* Evidence of a set of rows. *)

CrossPairs(keys) == {p \in keys \X keys : p[1][1] < p[2][1]}

Seen(rows) == UNION {r.seen : r \in rows}

\* Pairs seen together at least once, with the number of buckets.
Cooccurrence(rows) ==
  [p \in UNION {CrossPairs(r.seen) : r \in rows} |->
     Cardinality({r \in rows : {p[1], p[2]} \subseteq r.seen})]

Support(rows) ==
  [p \in UNION {r.matched : r \in rows} |-> Cardinality({r \in rows : p \in r.matched})]

\* The first and the last bucket a tracklet was seen in.
Lifetimes(rows) ==
  [k \in Seen(rows) |->
     LET buckets == {r.bucket : r \in {x \in rows : k \in x.seen}}
     IN <<Min(buckets), Max(buckets)>>]

-----------------------------------------------------------------------------
(* _cluster_qualified: constrained union-find.                               *)

\* Tracklets of one camera that were alive at the same time.
Overlap(k, l, life) ==
  /\ k[1] = l[1]
  /\ life[k][1] <= life[l][2]
  /\ life[l][1] <= life[k][2]

Edges(support, cooccurrence) ==
  {p \in DOMAIN support :
     /\ cooccurrence[p] >= MinCooccurrence
     /\ support[p] >= MinSupport
     /\ support[p] * AffinityDen >= AffinityNum * cooccurrence[p]}

\* Mutant: sorted by affinity, the weakest first.
StrongerLast(p, q, support, cooccurrence) ==
  LET x == support[p] * cooccurrence[q]
      y == support[q] * cooccurrence[p]
  IN \/ x < y
     \/ x = y /\ support[p] < support[q]
     \/ x = y /\ support[p] = support[q] /\ PairBefore(p, q)

\* sorted((-affinity, -matches, pair)): p is united before q.
Stronger(p, q, support, cooccurrence) ==
  LET x == support[p] * cooccurrence[q]
      y == support[q] * cooccurrence[p]
  IN \/ x > y
     \/ x = y /\ support[p] > support[q]
     \/ x = y /\ support[p] = support[q] /\ PairBefore(p, q)

ClusterOf(clusters, k) == CHOOSE c \in clusters : k \in c

\* Mutant: only the two tracklets of the edge are compared.
UniteUnlessEndsOverlap(clusters, p, life) ==
  LET left == ClusterOf(clusters, p[1])
      right == ClusterOf(clusters, p[2])
  IN IF left = right \/ Overlap(p[1], p[2], life)
       THEN clusters
       ELSE (clusters \ {left, right}) \cup {left \cup right}

\* Mutant: tracklets of different cameras count as overlapping too.
UniteUnlessAlive(clusters, p, life) ==
  LET left == ClusterOf(clusters, p[1])
      right == ClusterOf(clusters, p[2])
  IN IF left = right \/ \E k \in left, l \in right :
                          life[k][1] <= life[l][2] /\ life[l][1] <= life[k][2]
       THEN clusters
       ELSE (clusters \ {left, right}) \cup {left \cup right}

\* union(left, right): refused when any two members overlap in one camera.
Unite(clusters, p, life) ==
  LET left == ClusterOf(clusters, p[1])
      right == ClusterOf(clusters, p[2])
  IN IF left = right \/ \E k \in left, l \in right : Overlap(k, l, life)
       THEN clusters
       ELSE (clusters \ {left, right}) \cup {left \cup right}

\* The clusters after the edges of E, the strongest first.
Clusters(keys, support, cooccurrence, life) ==
  LET edges == Edges(support, cooccurrence)
      after[E \in SUBSET edges] ==
        IF E = {} THEN {{k} : k \in keys}
        ELSE LET weakest == CHOOSE p \in E : \A q \in E \ {p} :
                              Stronger(q, p, support, cooccurrence)
             IN Unite(after[E \ {weakest}], weakest, life)
  IN after[edges]

ClustersOfRows(rows) ==
  Clusters(Seen(rows), Support(rows), Cooccurrence(rows), Lifetimes(rows))

-----------------------------------------------------------------------------
(* _publish_assignments: global IDs for new clusters.                        *)

\* votes[global_id] of a cluster, from the IDs its members had.
Votes(cluster, ids, g) == Cardinality({k \in cluster \cap DOMAIN ids : ids[k] = g})

Candidates(cluster, ids) == {ids[k] : k \in cluster \cap DOMAIN ids}

\* Mutant: the oldest prior ID is preferred, however few members had it.
PreferredOldest(candidates, cluster, ids) == Min(candidates)

\* candidates is sorted by (-votes, global_id).
Preferred(candidates, cluster, ids) ==
  CHOOSE g \in candidates : \A h \in candidates \ {g} :
    \/ Votes(cluster, ids, g) > Votes(cluster, ids, h)
    \/ Votes(cluster, ids, g) = Votes(cluster, ids, h) /\ g < h

\* ranked_clusters: (-top_count, top_id, min(members)).
Rank(cluster, ids, next) ==
  LET candidates == Candidates(cluster, ids)
      top == IF candidates = {} THEN next ELSE Preferred(candidates, cluster, ids)
  IN <<-Votes(cluster, ids, top), top, FirstKey(cluster)>>

RanksBefore(a, b) ==
  \/ a[1] < b[1]
  \/ a[1] = b[1] /\ a[2] < b[2]
  \/ a[1] = b[1] /\ a[2] = b[2] /\ Before(a[3], b[3])

\* Mutant: an ID is inherited although another cluster has it already.
InheritTaken(state, cluster, ids) ==
  LET candidates == Candidates(cluster, ids)
      given == IF candidates = {} THEN state.next ELSE Preferred(candidates, cluster, ids)
  IN [used |-> state.used \cup {given},
      next |-> IF candidates = {} THEN state.next + 1 ELSE state.next,
      given |-> state.given \cup {<<cluster, given>>}]

\* One cluster in turn: its preferred prior ID that nobody took, or a new one.
Inherit(state, cluster, ids) ==
  LET free == Candidates(cluster, ids) \ state.used
      fresh == CHOOSE n \in state.next..(state.next + Cardinality(state.used)) :
                 n \notin state.used /\ \A m \in state.next..(n - 1) : m \in state.used
      given == IF free = {} THEN fresh ELSE Preferred(free, cluster, ids)
  IN [used |-> state.used \cup {given},
      next |-> IF free = {} THEN fresh + 1 ELSE state.next,
      given |-> state.given \cup {<<cluster, given>>}]

\* The clusters in the order of their ranks, one after the other.
Granted(clusters, ids, next) ==
  LET inTurn[C \in SUBSET clusters] ==
        IF C = {} THEN [used |-> {}, next |-> next, given |-> {}]
        ELSE LET last == CHOOSE c \in C : \A d \in C \ {c} :
                           RanksBefore(Rank(d, ids, next), Rank(c, ids, next))
             IN Inherit(inTurn[C \ {last}], last, ids)
  IN inTurn[clusters]

\* The new map and the next unused ID.
Assignment(clusters, ids, next) ==
  LET granted == Granted(clusters, ids, next)
  IN [ids |-> [k \in UNION clusters |-> (CHOOSE x \in granted.given : k \in x[1])[2]],
      next |-> granted.next]

=============================================================================

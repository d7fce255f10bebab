------------------------ MODULE MtmcAssociationProps ------------------------
(***************************************************************************)
(* The operators of MtmcAssociation against what they are meant to compute, *)
(* over all small inputs: a behaviour picks the candidate costs of one     *)
(* bucket, or the statistics of some tracklets, and evaluates the code's   *)
(* algorithm on them once.                                                 *)
(***************************************************************************)
EXTENDS MtmcAssociation

CONSTANTS
  Left, Right,    \* the tracklets of two sources in one bucket
  Cost,           \* the costs a candidate pair may have
  KeySets,        \* the sets of tracklets to cluster
  Span,           \* the lifetimes <<first bucket, last bucket>> they may have
  Opportunities   \* the number of buckets every cross-camera pair shares

\* Source, generation and object numbers start at 0, and nobody is last seen
\* before the bucket that saw him first.  Costs are only compared.
ASSUME InputAssumption ==
  /\ IsFiniteSet(Left) /\ IsFiniteSet(Right)
  /\ Left \subseteq Nat \X Nat \X Nat /\ Right \subseteq Nat \X Nat \X Nat
  /\ Cost \subseteq Int
  /\ \A keys \in KeySets : IsFiniteSet(keys) /\ keys \subseteq Nat \X Nat \X Nat
  /\ \A s \in Span : s \in Nat \X Nat /\ s[1] <= s[2]
  /\ Opportunities \in Nat

VARIABLES
  input,    \* the candidate costs, or the statistics
  output,   \* the supported pairs, or the clusters
  done      \* the evaluation has happened

associationVars == <<input, output, done>>

-----------------------------------------------------------------------------
Candidate == (SUBSET (Left \X Right)) \ {{}}

Counts(keys) == UNION {[pairs -> 1..Opportunities] : pairs \in SUBSET CrossPairs(keys)}

AssociationInit ==
  /\ output = {} /\ done = FALSE
  /\ \/ \E pairs \in Candidate : \E cost \in [pairs -> Cost] :
          input = [kind |-> "costs", cost |-> cost]
     \/ \E keys \in KeySets : \E support \in Counts(keys), life \in [keys -> Span] :
          input = [kind |-> "statistics", keys |-> keys, support |-> support, life |-> life,
                   cooccurrence |-> [p \in CrossPairs(keys) |-> Opportunities]]

Associate ==
  /\ input.kind = "costs" /\ ~done
  /\ output' = MutuallyNearest(input.cost)
  /\ done' = TRUE
  /\ UNCHANGED input

Cluster ==
  /\ input.kind = "statistics" /\ ~done
  /\ output' = Clusters(input.keys, input.support, input.cooccurrence, input.life)
  /\ done' = TRUE
  /\ UNCHANGED input

AssociationNext == Associate \/ Cluster

AssociationSpec == AssociationInit /\ [][AssociationNext]_associationVars

Associated == input.kind = "costs" /\ done
Clustered == input.kind = "statistics" /\ done

-----------------------------------------------------------------------------
(* Evidence against greedy matching: the cheapest pair first, the smaller   *)
(* keys on equal cost, and no tracklet twice.                               *)

Cheapest(cost, S) ==
  CHOOSE p \in S : \A q \in S \ {p} :
    \/ cost[p] < cost[q]
    \/ cost[p] = cost[q] /\ PairBefore(p, q)

Greedy(cost) ==
  LET rest[S \in SUBSET DOMAIN cost] ==
        IF S = {} THEN {}
        ELSE LET best == Cheapest(cost, S)
             IN {best} \cup rest[{p \in S : p[1] # best[1] /\ p[2] # best[2]}]
  IN rest[DOMAIN cost]

\* The pairs given support in a bucket are one-to-one, part of the greedy
\* matching, and never leave out its cheapest pair (mtmc.py:568-587), ties of
\* equal cost included.
SupportWithinGreedy ==
  Associated =>
    /\ output \subseteq Greedy(input.cost)
    /\ Cheapest(input.cost, DOMAIN input.cost) \in output

-----------------------------------------------------------------------------
(* Clusters against the thresholds and the lifetimes they were built from.  *)

Qualified ==
  {p \in DOMAIN input.support :
     /\ input.cooccurrence[p] >= MinCooccurrence
     /\ input.support[p] >= MinSupport
     /\ input.support[p] * AffinityDen >= AffinityNum * input.cooccurrence[p]}

\* Two tracklets of one camera that shared a bucket of their lifetimes.
Conflict(k, l) ==
  /\ k # l
  /\ k[1] = l[1]
  /\ (input.life[k][1]..input.life[k][2]) \cap (input.life[l][1]..input.life[l][2]) # {}

\* No cluster splits into two parts that no qualified pair connects.
Connected(c) ==
  \A part \in (SUBSET c) \ {{}, c} :
    \E p \in Qualified : /\ {p[1], p[2]} \subseteq c
                         /\ (p[1] \in part) # (p[2] \in part)

\* _cluster_qualified (mtmc.py:590-644) partitions the tracklets into clusters
\* held together by qualified pairs, and no cluster holds two tracklets of one
\* camera that were alive together, not even through a third camera.
ClustersSound ==
  Clustered =>
    /\ UNION output = input.keys
    /\ \A c, d \in output : c # d => c \cap d = {}
    /\ \A c \in output : Connected(c) /\ \A k, l \in c : ~Conflict(k, l)

\* A qualified pair is left in two clusters only when joining them would put
\* two tracklets of one camera that were alive together in one cluster.
ClustersMaximal ==
  Clustered => \A p \in Qualified : \A c, d \in output :
    p[1] \in c /\ p[2] \in d /\ c # d => \E k \in c, l \in d : Conflict(k, l)

\* The pair with the best affinity is always joined: weaker pairs cannot
\* block it (mtmc.py:635).
StrongestPairJoined ==
  Clustered => \A p \in Qualified :
    (\A q \in Qualified \ {p} : input.support[q] * input.cooccurrence[p]
                                  < input.support[p] * input.cooccurrence[q])
      => \E c \in output : {p[1], p[2]} \subseteq c

=============================================================================

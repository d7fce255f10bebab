--------------------------- MODULE ClusteringProofs ---------------------------
(***************************************************************************)
(* What the clustering of MtmcAssociation computes, for every finite set of *)
(* tracklets and of edges, all statistics and all thresholds, and which IDs *)
(* its assignment gives the clusters, whatever IDs were held before.        *)
(***************************************************************************)
EXTENDS MtmcAssociation, FiniteInduction

-----------------------------------------------------------------------------
(* The order in which edges are united.                                     *)

Triple == Nat \X Nat \X Nat

LEMMA BeforeOrder ==
  /\ \A k, l \in Triple : k # l => Before(k, l) \/ Before(l, k)
  /\ \A k, l, m \in Triple : Before(k, l) /\ Before(l, m) => Before(k, m)
  /\ \A k \in Triple : ~Before(k, k)
<1>1. \A k \in Triple : k[1] \in Nat /\ k[2] \in Nat /\ k[3] \in Nat
  BY DEF Triple
<1>2. \A k, l \in Triple : k[1] = l[1] /\ k[2] = l[2] /\ k[3] = l[3] => k = l
  BY DEF Triple
<1>. HIDE DEF Triple
<1>3. \A k, l \in Triple : k # l => Before(k, l) \/ Before(l, k)
  BY <1>1, <1>2 DEF Before
<1>. QED  BY <1>1, <1>3 DEF Before

LEMMA PairBeforeOrder ==
  /\ \A p, q \in Triple \X Triple : p # q => PairBefore(p, q) \/ PairBefore(q, p)
  /\ \A p, q, r \in Triple \X Triple : PairBefore(p, q) /\ PairBefore(q, r) => PairBefore(p, r)
<1>1. \A p \in Triple \X Triple : p[1] \in Triple /\ p[2] \in Triple
  OBVIOUS
<1>2. \A p, q \in Triple \X Triple : p[1] = q[1] /\ p[2] = q[2] => p = q
  OBVIOUS
<1>. QED  BY <1>1, <1>2, BeforeOrder DEF PairBefore

\* a/b >= c/d >= e/f, in whole numbers.
LEMMA RatioTransitive ==
  ASSUME NEW a \in Nat, NEW b \in Nat \ {0}, NEW c \in Nat, NEW d \in Nat \ {0},
         NEW e \in Nat, NEW f \in Nat \ {0}, a * d >= c * b, c * f >= e * d
  PROVE  /\ a * f >= e * b
         /\ a * d > c * b \/ c * f > e * d => a * f > e * b
<1>0. /\ a * d \in Nat /\ c * b \in Nat /\ c * f \in Nat /\ e * d \in Nat
      /\ a * f \in Nat /\ e * b \in Nat
  OBVIOUS
<1>1. \A x, y, z \in Nat : x >= y => x * z >= y * z
  OBVIOUS
<1>2. \A x, y \in Nat, z \in Nat \ {0} : x > y => x * z > y * z
  OBVIOUS
<1>3. \A x, y \in Nat, z \in Nat \ {0} : x * z >= y * z => x >= y
  OBVIOUS
<1>4. \A x, y \in Nat, z \in Nat \ {0} : x * z > y * z => x > y
  OBVIOUS
<1>5. (a * d) * f >= (c * b) * f /\ (c * f) * b >= (e * d) * b
  BY <1>0, <1>1
<1>6. /\ a * d > c * b => (a * d) * f > (c * b) * f
      /\ c * f > e * d => (c * f) * b > (e * d) * b
  BY <1>0, <1>2
<1>7. /\ (a * d) * f = (a * f) * d /\ (c * b) * f = (c * f) * b
      /\ (e * d) * b = (e * b) * d
  OBVIOUS
<1>8. /\ (a * f) * d \in Nat /\ (c * f) * b \in Nat /\ (e * b) * d \in Nat
  BY <1>0
<1>9. (a * f) * d >= (e * b) * d
  BY <1>5, <1>7, <1>8
<1>10. a * d > c * b \/ c * f > e * d => (a * f) * d > (e * b) * d
  BY <1>5, <1>6, <1>7, <1>8
<1>. QED  BY <1>0, <1>3, <1>4, <1>9, <1>10

\* The statistics of a set of edges: every pair was supported in some of the
\* buckets it shared.
Tallied(E, support, cooccurrence) ==
  /\ E \subseteq Triple \X Triple
  /\ \A p \in E : support[p] \in Nat \ {0} /\ cooccurrence[p] \in Nat \ {0}

LEMMA StrongerOrder ==
  ASSUME NEW E, NEW support, NEW cooccurrence, Tallied(E, support, cooccurrence)
  PROVE  /\ \A p, q \in E : p # q => \/ Stronger(p, q, support, cooccurrence)
                                     \/ Stronger(q, p, support, cooccurrence)
         /\ \A p, q, r \in E :
              Stronger(p, q, support, cooccurrence) /\ Stronger(q, r, support, cooccurrence)
                => Stronger(p, r, support, cooccurrence)
<1>0. \A p \in E : /\ p \in Triple \X Triple
                   /\ support[p] \in Nat \ {0} /\ cooccurrence[p] \in Nat \ {0}
  BY DEF Tallied
<1>1. \A p, q \in E : support[p] * cooccurrence[q] \in Nat
  BY <1>0
<1>2. ASSUME NEW p \in E, NEW q \in E, p # q
      PROVE  Stronger(p, q, support, cooccurrence) \/ Stronger(q, p, support, cooccurrence)
  <2>. DEFINE x == support[p] * cooccurrence[q]  y == support[q] * cooccurrence[p]
  <2>1. x \in Nat /\ y \in Nat /\ support[p] \in Nat /\ support[q] \in Nat
    BY <1>0, <1>1
  <2>2. PairBefore(p, q) \/ PairBefore(q, p)
    BY <1>0, <1>2, PairBeforeOrder
  <2>3. /\ Stronger(p, q, support, cooccurrence) <=>
             x > y \/ (x = y /\ support[p] > support[q])
                   \/ (x = y /\ support[p] = support[q] /\ PairBefore(p, q))
        /\ Stronger(q, p, support, cooccurrence) <=>
             y > x \/ (y = x /\ support[q] > support[p])
                   \/ (y = x /\ support[q] = support[p] /\ PairBefore(q, p))
    BY Zenon DEF Stronger
  <2>. HIDE DEF x, y
  <2>. QED  BY <2>1, <2>2, <2>3
<1>3. ASSUME NEW p \in E, NEW q \in E, NEW r \in E,
             Stronger(p, q, support, cooccurrence), Stronger(q, r, support, cooccurrence)
      PROVE  Stronger(p, r, support, cooccurrence)
  <2>. DEFINE pq == support[p] * cooccurrence[q]  qp == support[q] * cooccurrence[p]
              qr == support[q] * cooccurrence[r]  rq == support[r] * cooccurrence[q]
              pr == support[p] * cooccurrence[r]  rp == support[r] * cooccurrence[p]
  <2>1. /\ pq \in Nat /\ qp \in Nat /\ qr \in Nat /\ rq \in Nat /\ pr \in Nat /\ rp \in Nat
        /\ support[p] \in Nat /\ support[q] \in Nat /\ support[r] \in Nat
    BY <1>0, <1>1
  <2>2. /\ pq >= qp /\ qr >= rq => pr >= rp
        /\ pq >= qp /\ qr >= rq /\ (pq > qp \/ qr > rq) => pr > rp
    BY <1>0, RatioTransitive
  <2>3. /\ pq > qp \/ (pq = qp /\ support[p] > support[q])
                   \/ (pq = qp /\ support[p] = support[q] /\ PairBefore(p, q))
        /\ qr > rq \/ (qr = rq /\ support[q] > support[r])
                   \/ (qr = rq /\ support[q] = support[r] /\ PairBefore(q, r))
    BY <1>3, Zenon DEF Stronger
  <2>4. PairBefore(p, q) /\ PairBefore(q, r) => PairBefore(p, r)
    BY <1>0, PairBeforeOrder
  <2>5. Stronger(p, r, support, cooccurrence) <=>
          pr > rp \/ (pr = rp /\ support[p] > support[r])
                  \/ (pr = rp /\ support[p] = support[r] /\ PairBefore(p, r))
    BY Zenon DEF Stronger
  <2>. HIDE DEF pq, qp, qr, rq, pr, rp
  <2>. QED  BY <2>1, <2>2, <2>3, <2>4, <2>5
<1>. QED  BY <1>2, <1>3

Weakest(E, support, cooccurrence) ==
  CHOOSE p \in E : \A q \in E \ {p} : Stronger(q, p, support, cooccurrence)

\* The weakest edge exists.
LEMMA WeakestIs ==
  ASSUME NEW E, IsFiniteSet(E), E # {}, NEW support, NEW cooccurrence,
         Tallied(E, support, cooccurrence)
  PROVE  /\ Weakest(E, support, cooccurrence) \in E
         /\ \A q \in E \ {Weakest(E, support, cooccurrence)} :
              Stronger(q, Weakest(E, support, cooccurrence), support, cooccurrence)
<1>. DEFINE R == {ss \in E \X E : Stronger(ss[1], ss[2], support, cooccurrence)}
<1>1. \A p, q \in E : <<p, q>> \in R <=> Stronger(p, q, support, cooccurrence)
  OBVIOUS
<1>. HIDE DEF R
<1>2. \E w \in E : \A q \in E \ {w} : <<q, w>> \in R
  <2>1. \A p, q \in E : p # q => <<p, q>> \in R \/ <<q, p>> \in R
    BY <1>1, StrongerOrder
  <2>2. \A p, q, r \in E : <<p, q>> \in R /\ <<q, r>> \in R => <<p, r>> \in R
    BY <1>1, StrongerOrder
  <2>. QED  BY <2>1, <2>2, LastExists
<1>3. \E w \in E : \A q \in E \ {w} : Stronger(q, w, support, cooccurrence)
  BY <1>1, <1>2
<1>. QED  BY <1>3, Zenon DEF Weakest

-----------------------------------------------------------------------------
(* The recursion over the edges.                                            *)

\* after[E] are the clusters once the edges of E have been tried, the strongest
\* first.
Tried(after, S, keys, support, cooccurrence, life) ==
  \A E \in SUBSET S :
    after[E] = IF E = {} THEN {{k} : k \in keys}
               ELSE Unite(after[E \ {Weakest(E, support, cooccurrence)}],
                          Weakest(E, support, cooccurrence), life)

\* Such a function exists: it is built up by the number of edges.
LEMMA TriedExists ==
  ASSUME NEW S, IsFiniteSet(S), NEW keys, NEW support, NEW cooccurrence, NEW life,
         Tallied(S, support, cooccurrence)
  PROVE  \E after : /\ DOMAIN after = SUBSET S /\ after = [E \in SUBSET S |-> after[E]]
                    /\ Tried(after, S, keys, support, cooccurrence, life)
<1>. DEFINE W(E) == Weakest(E, support, cooccurrence)
            Value(f, E) == IF E = {} THEN {{k} : k \in keys} ELSE Unite(f[E \ {W(E)}], W(E), life)
            UpTo(f, n) == \A E \in SUBSET S : Cardinality(E) <= n => f[E] = Value(f, E)
            Bad == {n \in Nat : ~\E f : UpTo(f, n)}
<1>1. \A E \in SUBSET S : IsFiniteSet(E) /\ Cardinality(E) \in Nat
  BY FS_Subset, FS_CardinalityType
<1>2. \A E \in SUBSET S : E # {} =>
        /\ E \ {W(E)} \in SUBSET S
        /\ Cardinality(E \ {W(E)}) = Cardinality(E) - 1
  <2>1. ASSUME NEW E \in SUBSET S, E # {} PROVE W(E) \in E
    <3>1. Tallied(E, support, cooccurrence)
      BY DEF Tallied
    <3>. QED  BY <1>1, <2>1, <3>1, WeakestIs
  <2>. QED  BY <1>1, <2>1, FS_RemoveElement
<1>3. \E f : UpTo(f, 0)
  <2>. DEFINE f == [E \in SUBSET S |-> {{k} : k \in keys}]
  <2>1. \A E \in SUBSET S : Cardinality(E) <= 0 => E = {}
    BY <1>1, FS_EmptySet
  <2>2. UpTo(f, 0)
    BY <2>1
  <2>. QED  BY <2>2
<1>4. ASSUME NEW n \in Nat, NEW f, UpTo(f, n)
      PROVE  \E g : UpTo(g, n + 1) /\ g = [E \in SUBSET S |-> g[E]]
  <2>. DEFINE g == [E \in SUBSET S |-> Value(f, E)]
  <2>1. ASSUME NEW E \in SUBSET S, Cardinality(E) <= n + 1 PROVE g[E] = Value(g, E)
    <3>1. CASE E = {}
      BY <3>1
    <3>2. CASE E # {}
      <4>1. E \ {W(E)} \in SUBSET S /\ Cardinality(E \ {W(E)}) <= n
        BY <1>1, <1>2, <2>1, <3>2
      <4>2. g[E \ {W(E)}] = f[E \ {W(E)}]
        BY <1>4, <4>1
      <4>. HIDE DEF W
      <4>. QED  BY <3>2, <4>2
    <3>. QED  BY <3>1, <3>2
  <2>2. g = [E \in SUBSET S |-> g[E]]
    OBVIOUS
  <2>. HIDE DEF g, Value
  <2>3. UpTo(g, n + 1)
    BY <2>1
  <2>. QED  BY <2>2, <2>3
<1>5. \A n \in Nat : \E f : UpTo(f, n)
  <2>1. SUFFICES ASSUME Bad # {} PROVE FALSE
    OBVIOUS
  <2>2. PICK n \in Bad : \A m \in Bad : n <= m
    <3>1. Bad \in SUBSET Nat
      OBVIOUS
    <3>. HIDE DEF Bad
    <3>. QED  BY <2>1, <3>1, LeastNumber
  <2>. HIDE DEF UpTo
  <2>3. n # 0
    BY <1>3
  <2>4. n - 1 \in Nat /\ n - 1 \notin Bad /\ n = (n - 1) + 1
    BY <2>2, <2>3
  <2>. QED  BY <1>4, <2>2, <2>4
<1>6. PICK f : UpTo(f, Cardinality(S))
  <2>1. Cardinality(S) \in Nat
    BY <1>1
  <2>. HIDE DEF UpTo
  <2>. QED  BY <1>5, <2>1
<1>7. PICK g : UpTo(g, Cardinality(S) + 1) /\ g = [E \in SUBSET S |-> g[E]]
  <2>1. Cardinality(S) \in Nat
    BY <1>1
  <2>. HIDE DEF UpTo
  <2>. QED  BY <1>4, <1>6, <2>1
<1>8. \A E \in SUBSET S : Cardinality(E) <= Cardinality(S) + 1
  BY <1>1, FS_Subset
<1>9. Tried(g, S, keys, support, cooccurrence, life)
  BY <1>7, <1>8 DEF Tried
<1>. QED  BY <1>7, <1>9

LEMMA ClustersTried ==
  ASSUME NEW keys, NEW support, NEW cooccurrence, NEW life,
         IsFiniteSet(Edges(support, cooccurrence)),
         Tallied(Edges(support, cooccurrence), support, cooccurrence)
  PROVE  \E after : /\ Tried(after, Edges(support, cooccurrence), keys, support, cooccurrence,
                             life)
                    /\ Clusters(keys, support, cooccurrence, life)
                         = after[Edges(support, cooccurrence)]
<1>. DEFINE S == Edges(support, cooccurrence)
            after[E \in SUBSET S] ==
              IF E = {} THEN {{k} : k \in keys}
              ELSE LET weakest == CHOOSE p \in E : \A q \in E \ {p} :
                                    Stronger(q, p, support, cooccurrence)
                   IN Unite(after[E \ {weakest}], weakest, life)
<1>0. IsFiniteSet(S) /\ Tallied(S, support, cooccurrence)
  OBVIOUS
<1>1. Clusters(keys, support, cooccurrence, life) = after[S]
  BY DEF Clusters
<1>2. PICK f : /\ f = [E \in SUBSET S |-> f[E]]
               /\ Tried(f, S, keys, support, cooccurrence, life)
  <2>. HIDE DEF S
  <2>. QED  BY <1>0, TriedExists
<1>3. f = [E \in SUBSET S |->
             IF E = {} THEN {{k} : k \in keys}
             ELSE LET weakest == CHOOSE p \in E : \A q \in E \ {p} :
                                   Stronger(q, p, support, cooccurrence)
                  IN Unite(f[E \ {weakest}], weakest, life)]
  <2>. HIDE DEF S
  <2>. QED  BY <1>2 DEF Tried, Weakest
<1>4. after = [E \in SUBSET S |->
             IF E = {} THEN {{k} : k \in keys}
             ELSE LET weakest == CHOOSE p \in E : \A q \in E \ {p} :
                                   Stronger(q, p, support, cooccurrence)
                  IN Unite(after[E \ {weakest}], weakest, life)]
  <2>. HIDE DEF S
  <2>. QED  BY <1>3
<1>5. Tried(after, S, keys, support, cooccurrence, life)
  <2>. HIDE DEF S, after
  <2>. QED  BY <1>4 DEF Tried, Weakest
<1>. HIDE DEF after
<1>. QED  BY <1>1, <1>5

-----------------------------------------------------------------------------
(* One union.                                                               *)

Partition(clusters, keys) ==
  /\ UNION clusters = keys
  /\ \A c \in clusters : c # {}
  /\ \A c, d \in clusters : c # d => c \cap d = {}

\* No cluster holds two tracklets of one camera that were alive together.
Separate(clusters, life) ==
  \A c \in clusters : \A k, l \in c : k # l => ~Overlap(k, l, life)

\* Every way to cut a cluster in two cuts one of the edges.
Held(clusters, edges) ==
  \A c \in clusters : \A part \in (SUBSET c) \ {{}, c} :
    \E p \in edges : {p[1], p[2]} \subseteq c /\ (p[1] \in part) # (p[2] \in part)

Blocked(c, d, life) == \E k \in c, l \in d : Overlap(k, l, life)

\* Only an overlap keeps the ends of an edge apart.
Exhausted(clusters, edges, life) ==
  \A p \in edges : \A c, d \in clusters :
    p[1] \in c /\ p[2] \in d /\ c # d => Blocked(c, d, life)

LEMMA ClusterOfIs ==
  ASSUME NEW clusters, NEW keys, Partition(clusters, keys), NEW k \in keys
  PROVE  /\ ClusterOf(clusters, k) \in clusters /\ k \in ClusterOf(clusters, k)
         /\ \A c \in clusters : k \in c => c = ClusterOf(clusters, k)
<1>1. \E c \in clusters : k \in c
  BY DEF Partition
<1>2. ClusterOf(clusters, k) \in clusters /\ k \in ClusterOf(clusters, k)
  BY <1>1, Zenon DEF ClusterOf
<1>3. \A c \in clusters : k \in c => c = ClusterOf(clusters, k)
  BY <1>2 DEF Partition
<1>. QED  BY <1>2, <1>3

\* The outcome of a union: two clusters of an edge become one, or nothing happens,
\* because they are one already or an overlap forbids it.
LEMMA UniteIs ==
  ASSUME NEW clusters, NEW keys, Partition(clusters, keys), NEW life,
         NEW p, p[1] \in keys, p[2] \in keys
  PROVE  LET left == ClusterOf(clusters, p[1])  right == ClusterOf(clusters, p[2])
         IN /\ left \in clusters /\ right \in clusters /\ p[1] \in left /\ p[2] \in right
            /\ \/ Unite(clusters, p, life) = clusters /\ left = right
               \/ Unite(clusters, p, life) = clusters /\ Blocked(left, right, life)
               \/ /\ left # right /\ ~Blocked(left, right, life)
                  /\ Unite(clusters, p, life) = (clusters \ {left, right}) \cup {left \cup right}
<1>. DEFINE left == ClusterOf(clusters, p[1])  right == ClusterOf(clusters, p[2])
<1>1. left \in clusters /\ right \in clusters /\ p[1] \in left /\ p[2] \in right
  BY ClusterOfIs
<1>2. Unite(clusters, p, life) =
        IF left = right \/ Blocked(left, right, life) THEN clusters
        ELSE (clusters \ {left, right}) \cup {left \cup right}
  BY Zenon DEF Unite, Blocked
<1>. HIDE DEF left, right
<1>3. CASE left = right \/ Blocked(left, right, life)
  BY <1>1, <1>2, <1>3 DEF left, right
<1>4. CASE ~(left = right \/ Blocked(left, right, life))
  BY <1>1, <1>2, <1>4 DEF left, right
<1>. QED  BY <1>3, <1>4

\* Two clusters of a partition made one.
LEMMA Merged ==
  ASSUME NEW clusters, NEW keys, Partition(clusters, keys),
         NEW left \in clusters, NEW right \in clusters, left # right,
         NEW new, new = (clusters \ {left, right}) \cup {left \cup right}
  PROVE  /\ Partition(new, keys)
         /\ \A c \in clusters : \E d \in new : c \subseteq d
<1>1. UNION new = UNION clusters
  <2>1. ASSUME NEW k, k \in UNION clusters PROVE k \in UNION new
    <3>1. PICK c \in clusters : k \in c
      BY <2>1
    <3>2. c \in new \/ c \subseteq left \cup right
      OBVIOUS
    <3>. QED  BY <3>1, <3>2
  <2>2. ASSUME NEW k, k \in UNION new PROVE k \in UNION clusters
    <3>1. PICK c \in new : k \in c
      BY <2>2
    <3>2. c \in clusters \/ c = left \cup right
      OBVIOUS
    <3>. QED  BY <3>1, <3>2
  <2>. QED  BY <2>1, <2>2
<1>2. \A c \in new : c # {}
  BY DEF Partition
<1>3. ASSUME NEW c \in new, NEW d \in new, c # d PROVE c \cap d = {}
  BY <1>3 DEF Partition
<1>4. \A c \in clusters : \E d \in new : c \subseteq d
  OBVIOUS
<1>. QED  BY <1>1, <1>2, <1>3, <1>4 DEF Partition

LEMMA MergedSeparate ==
  ASSUME NEW clusters, NEW life, Separate(clusters, life),
         NEW left \in clusters, NEW right \in clusters, ~Blocked(left, right, life),
         NEW new, new = (clusters \ {left, right}) \cup {left \cup right}
  PROVE  Separate(new, life)
<1>1. \A k, l : Overlap(k, l, life) => Overlap(l, k, life)
  BY DEF Overlap
<1>2. ASSUME NEW k \in left \cup right, NEW l \in left \cup right, k # l
      PROVE  ~Overlap(k, l, life)
  BY <1>1, <1>2 DEF Separate, Blocked
<1>. QED  BY <1>2 DEF Separate

LEMMA MergedHeld ==
  ASSUME NEW clusters, NEW edges, Held(clusters, edges),
         NEW left \in clusters, NEW right \in clusters, left # right,
         NEW p \in edges, p[1] \in left, p[2] \in right,
         NEW new, new = (clusters \ {left, right}) \cup {left \cup right}
  PROVE  Held(new, edges)
<1>. DEFINE Cut(q, part) == ~(q[1] \in part <=> q[2] \in part)
            Ends(q, c) == q[1] \in c /\ q[2] \in c
<1>0. \A c \in clusters : \A part \in (SUBSET c) \ {{}, c} : \E q \in edges : Ends(q, c) /\ Cut(q, part)
  <2>1. ASSUME NEW c \in clusters, NEW part \in (SUBSET c) \ {{}, c}
        PROVE  \E q \in edges : Ends(q, c) /\ Cut(q, part)
    <3>1. PICK q \in edges : {q[1], q[2]} \subseteq c /\ (q[1] \in part) # (q[2] \in part)
      BY Zenon DEF Held
    <3>2. Cut(q, part)
      BY <3>1, SMT
    <3>. QED  BY <3>1, <3>2
  <2>. QED  BY <2>1
<1>1. ASSUME NEW part \in (SUBSET (left \cup right)) \ {{}, left \cup right}
      PROVE  \E q \in edges : Ends(q, left \cup right) /\ Cut(q, part)
  <2>1. ASSUME NEW c \in {left, right}, part \cap c \notin {{}, c}
        PROVE  \E q \in edges : Ends(q, left \cup right) /\ Cut(q, part)
    <3>1. PICK q \in edges : Ends(q, c) /\ Cut(q, part \cap c)
      BY <1>0, <2>1
    <3>. QED  BY <3>1
  <2>2. CASE part \cap left \in {{}, left} /\ part \cap right \in {{}, right}
    <3>1. part = left \/ part = right \/ part = {} \/ part = left \cup right
      BY <2>2
    <3>2. CASE part = left
      <4>1. p[2] \notin left
        BY <2>2, <3>2
      <4>. QED  BY <3>2, <4>1
    <3>3. CASE part = right
      <4>1. p[1] \notin right
        BY <2>2, <3>3
      <4>. QED  BY <3>3, <4>1
    <3>. QED  BY <3>1, <3>2, <3>3
  <2>. QED  BY <2>1, <2>2
<1>2. ASSUME NEW c \in new, NEW part \in (SUBSET c) \ {{}, c}
      PROVE  \E q \in edges : {q[1], q[2]} \subseteq c /\ (q[1] \in part) # (q[2] \in part)
  <2>1. c \in clusters \/ c = left \cup right
    OBVIOUS
  <2>2. PICK q \in edges : Ends(q, c) /\ Cut(q, part)
    BY <1>0, <1>1, <2>1
  <2>3. (q[1] \in part) # (q[2] \in part)
    BY <2>2, Zenon
  <2>. QED  BY <2>2, <2>3
<1>. QED  BY <1>2, Zenon DEF Held

LEMMA MergedExhausted ==
  ASSUME NEW clusters, NEW keys, Partition(clusters, keys), NEW edges, NEW life,
         Exhausted(clusters, edges, life),
         NEW left \in clusters, NEW right \in clusters,
         NEW new, new = (clusters \ {left, right}) \cup {left \cup right}
  PROVE  Exhausted(new, edges, life)
<1>1. SUFFICES ASSUME NEW p \in edges, NEW c \in new, NEW d \in new, p[1] \in c, p[2] \in d,
                      c # d
               PROVE  Blocked(c, d, life)
  BY DEF Exhausted
<1>2. PICK a \in clusters : p[1] \in a /\ a \subseteq c
  BY <1>1
<1>3. PICK b \in clusters : p[2] \in b /\ b \subseteq d
  BY <1>1
<1>4. a # b
  <2>1. ASSUME a = b PROVE FALSE
    <3>1. c \cap d # {}
      BY <1>2, <1>3, <2>1
    <3>2. c = left \cup right \/ d = left \cup right
      BY <1>1, <3>1 DEF Partition
    <3>3. ASSUME NEW e \in {c, d}, e = left \cup right PROVE a \in {left, right}
      BY <1>2, <1>3, <2>1, <3>3 DEF Partition
    <3>4. a \in {left, right} /\ a \subseteq left \cup right /\ a # {}
      BY <3>2, <3>3 DEF Partition
    <3>5. ASSUME NEW e \in {c, d} PROVE e = left \cup right
      <4>1. a \subseteq e /\ e \in new
        BY <1>2, <1>3, <2>1
      <4>2. e \in clusters \ {left, right} => a = e
        BY <3>4, <4>1 DEF Partition
      <4>. QED  BY <3>4, <4>1, <4>2
    <3>. QED  BY <1>1, <3>5
  <2>. QED  BY <2>1
<1>5. Blocked(a, b, life)
  BY <1>2, <1>3, <1>4 DEF Exhausted
<1>. QED  BY <1>2, <1>3, <1>5 DEF Blocked


-----------------------------------------------------------------------------
(* All of them.                                                             *)

Clustering(clusters, keys, edges, tried, life) ==
  /\ Partition(clusters, keys)
  /\ Separate(clusters, life)
  /\ Held(clusters, edges)
  /\ Exhausted(clusters, tried, life)

LEMMA Apart ==
  ASSUME NEW keys, NEW edges, NEW life
  PROVE  Clustering({{k} : k \in keys}, keys, edges, {}, life)
<1>. DEFINE clusters == {{k} : k \in keys}
<1>1. Partition(clusters, keys)
  <2>1. UNION clusters = keys
    OBVIOUS
  <2>2. \A c \in clusters : c # {}
    OBVIOUS
  <2>3. \A c, d \in clusters : c # d => c \cap d = {}
    OBVIOUS
  <2>. QED  BY <2>1, <2>2, <2>3 DEF Partition
<1>2. Separate(clusters, life)
  BY DEF Separate
<1>3. Held(clusters, edges)
  <2>1. \A c \in clusters : (SUBSET c) \ {{}, c} = {}
    OBVIOUS
  <2>. QED  BY <2>1 DEF Held
<1>4. Exhausted(clusters, {}, life)
  BY DEF Exhausted
<1>. QED  BY <1>1, <1>2, <1>3, <1>4 DEF Clustering

LEMMA OneMore ==
  ASSUME NEW clusters, NEW keys, NEW edges, NEW tried, NEW life,
         Clustering(clusters, keys, edges, tried, life),
         NEW p \in edges, p[1] \in keys, p[2] \in keys
  PROVE  /\ Clustering(Unite(clusters, p, life), keys, edges, tried \cup {p}, life)
         /\ \A c \in clusters : \E d \in Unite(clusters, p, life) : c \subseteq d
<1>. DEFINE left == ClusterOf(clusters, p[1])  right == ClusterOf(clusters, p[2])
            new == Unite(clusters, p, life)
<1>0. /\ Partition(clusters, keys) /\ Separate(clusters, life)
      /\ Held(clusters, edges) /\ Exhausted(clusters, tried, life)
  BY DEF Clustering
<1>1. /\ left \in clusters /\ right \in clusters /\ p[1] \in left /\ p[2] \in right
      /\ \/ new = clusters /\ left = right
         \/ new = clusters /\ Blocked(left, right, life)
         \/ /\ left # right /\ ~Blocked(left, right, life)
            /\ new = (clusters \ {left, right}) \cup {left \cup right}
  BY <1>0, UniteIs
<1>. HIDE DEF left, right, new
<1>2. /\ \A c \in clusters : p[1] \in c => c = left
      /\ \A c \in clusters : p[2] \in c => c = right
  BY <1>0, <1>1 DEF Partition
<1>3. CASE new = clusters /\ (left = right \/ Blocked(left, right, life))
  <2>1. Exhausted(clusters, tried \cup {p}, life)
    BY <1>0, <1>2, <1>3 DEF Exhausted
  <2>. QED  BY <1>0, <1>3, <2>1 DEF Clustering, new
<1>4. CASE /\ left # right /\ ~Blocked(left, right, life)
           /\ new = (clusters \ {left, right}) \cup {left \cup right}
  <2>1. Partition(new, keys) /\ \A c \in clusters : \E d \in new : c \subseteq d
    BY <1>0, <1>1, <1>4, Merged
  <2>2. Separate(new, life)
    BY <1>0, <1>1, <1>4, MergedSeparate
  <2>3. Held(new, edges)
    BY <1>0, <1>1, <1>4, MergedHeld
  <2>4. Exhausted(new, tried, life)
    BY <1>0, <1>1, <1>4, MergedExhausted
  <2>5. \A c, d \in new : p[1] \in c /\ p[2] \in d => c = d
    <3>1. left \cup right \in new /\ p[1] \in left \cup right /\ p[2] \in left \cup right
      BY <1>1, <1>4
    <3>. QED  BY <2>1, <3>1 DEF Partition
  <2>6. Exhausted(new, tried \cup {p}, life)
    BY <2>4, <2>5 DEF Exhausted
  <2>. QED  BY <2>1, <2>2, <2>3, <2>6 DEF Clustering, new
<1>. QED  BY <1>1, <1>3, <1>4

\* The ends of p are in one cluster.
Joined(clusters, p) == \E c \in clusters : {p[1], p[2]} \subseteq c

\* No other edge of E has a better affinity.
Strongest(p, E, support, cooccurrence) ==
  /\ p \in E
  /\ \A q \in E \ {p} : support[q] * cooccurrence[p] < support[p] * cooccurrence[q]

LEMMA TriedClustering ==
  ASSUME NEW S, IsFiniteSet(S), NEW keys, NEW support, NEW cooccurrence, NEW life,
         Tallied(S, support, cooccurrence), \A p \in S : p[1] \in keys /\ p[2] \in keys,
         NEW after, Tried(after, S, keys, support, cooccurrence, life)
  PROVE  /\ Clustering(after[S], keys, S, S, life)
         /\ \A p \in S : /\ Strongest(p, S, support, cooccurrence)
                         /\ ~Overlap(p[1], p[2], life)
                         => Joined(after[S], p)
<1>. DEFINE W(E) == Weakest(E, support, cooccurrence)
            Good(E) == /\ Clustering(after[E], keys, S, E, life)
                       /\ \A p \in S : /\ Strongest(p, E, support, cooccurrence)
                                       /\ ~Overlap(p[1], p[2], life)
                                       => Joined(after[E], p)
            Bad == {E \in SUBSET S : ~Good(E)}
<1>1. SUFFICES ASSUME Bad # {} PROVE FALSE
  OBVIOUS
<1>2. PICK E \in Bad : IsFiniteSet(E) /\ \A D \in Bad : D \subseteq E => D = E
  <2>1. Bad \in SUBSET (SUBSET S)
    OBVIOUS
  <2>. HIDE DEF Bad
  <2>. QED  BY <1>1, <2>1, SmallestSet
<1>3. CASE E = {}
  <2>1. after[E] = {{k} : k \in keys}
    BY <1>3 DEF Tried
  <2>2. Clustering(after[E], keys, S, E, life)
    BY <1>3, <2>1, Apart
  <2>3. \A p \in S : ~Strongest(p, E, support, cooccurrence)
    BY <1>3 DEF Strongest
  <2>. QED  BY <2>2, <2>3
<1>4. CASE E # {}
  <2>1. /\ W(E) \in E
        /\ \A q \in E \ {W(E)} : Stronger(q, W(E), support, cooccurrence)
    <3>1. Tallied(E, support, cooccurrence)
      BY DEF Tallied
    <3>. QED  BY <1>2, <1>4, <3>1, WeakestIs
  <2>2. after[E] = Unite(after[E \ {W(E)}], W(E), life)
    BY <1>4 DEF Tried
  <2>. DEFINE w == W(E)  D == E \ {w}
  <2>3. D \in SUBSET S /\ D \subseteq E /\ D # E /\ w \in S /\ D \cup {w} = E
    BY <2>1
  <2>4. Good(D)
    BY <1>2, <2>3
  <2>5. /\ \A q \in D : Stronger(q, w, support, cooccurrence)
        /\ after[E] = Unite(after[D], w, life)
    BY <2>1, <2>2
  <2>. HIDE DEF W, w, D
  <2>6. /\ Clustering(after[E], keys, S, E, life)
        /\ \A c \in after[D] : \E d \in after[E] : c \subseteq d
    <3>1. Clustering(after[D], keys, S, D, life)
      BY <2>4
    <3>2. /\ Clustering(Unite(after[D], w, life), keys, S, D \cup {w}, life)
          /\ \A c \in after[D] : \E d \in Unite(after[D], w, life) : c \subseteq d
      BY <2>3, <3>1, OneMore
    <3>3. D \cup {w} = E /\ Unite(after[D], w, life) = after[E]
      BY <2>3, <2>5
    <3>. QED  BY <3>2, <3>3
  <2>7. ASSUME NEW p \in S, Strongest(p, E, support, cooccurrence),
               ~Overlap(p[1], p[2], life)
        PROVE  Joined(after[E], p)
    <3>1. CASE p = w
      <4>1. ASSUME NEW q \in D PROVE FALSE
        <5>1. q \in S /\ w \in S /\ q # p
          BY <2>3, <3>1 DEF D
        <5>2. support[q] * cooccurrence[p] < support[p] * cooccurrence[q]
          BY <2>3, <2>7, <4>1, <5>1 DEF Strongest
        <5>3. support[q] * cooccurrence[p] >= support[p] * cooccurrence[q]
          <6>1. /\ support[q] * cooccurrence[p] \in Nat
                /\ support[p] * cooccurrence[q] \in Nat
            BY <5>1 DEF Tallied
          <6>2. \/ support[q] * cooccurrence[p] > support[p] * cooccurrence[q]
                \/ support[q] * cooccurrence[p] = support[p] * cooccurrence[q]
            BY <2>5, <3>1, <4>1, Zenon DEF Stronger
          <6>. QED  BY <6>1, <6>2
        <5>4. /\ support[q] * cooccurrence[p] \in Nat
              /\ support[p] * cooccurrence[q] \in Nat
          BY <5>1 DEF Tallied
        <5>. QED  BY <5>2, <5>3, <5>4
      <4>2. after[D] = {{k} : k \in keys}
        <5>1. D = {}
          BY <4>1
        <5>. QED  BY <5>1 DEF Tried
      <4>3. Exhausted(after[E], E, life) /\ Partition(after[E], keys)
        BY <2>6 DEF Clustering
      <4>4. ASSUME ~Joined(after[E], p) PROVE FALSE
        <5>. DEFINE left == ClusterOf(after[D], p[1])  right == ClusterOf(after[D], p[2])
        <5>1. Partition(after[D], keys)
          BY <2>4 DEF Clustering
        <5>2. /\ left \in after[D] /\ right \in after[D] /\ p[1] \in left /\ p[2] \in right
              /\ \/ Unite(after[D], p, life) = after[D] /\ left = right
                 \/ Unite(after[D], p, life) = after[D] /\ Blocked(left, right, life)
                 \/ /\ left # right /\ ~Blocked(left, right, life)
                    /\ Unite(after[D], p, life)
                         = (after[D] \ {left, right}) \cup {left \cup right}
          BY <5>1, UniteIs
        <5>. HIDE DEF left, right
        <5>3. left = {p[1]} /\ right = {p[2]}
          BY <4>2, <5>2
        <5>4. ~Blocked(left, right, life)
          BY <2>7, <5>3 DEF Blocked
        <5>5. Unite(after[D], p, life) = after[E]
          BY <2>5, <3>1
        <5>6. CASE after[E] = after[D] /\ left = right
          BY <4>4, <5>2, <5>6 DEF Joined
        <5>7. CASE after[E] = (after[D] \ {left, right}) \cup {left \cup right}
          <6>1. left \cup right \in after[E] /\ {p[1], p[2]} \subseteq left \cup right
            BY <5>2, <5>7
          <6>2. Joined(after[E], p)
            BY <6>1, Zenon DEF Joined
          <6>. QED  BY <4>4, <6>2
        <5>. QED  BY <5>2, <5>4, <5>5, <5>6, <5>7
      <4>. QED  BY <4>4
    <3>2. CASE p # w
      <4>1. Strongest(p, D, support, cooccurrence)
        BY <2>3, <2>7, <3>2 DEF Strongest
      <4>2. Joined(after[D], p)
        BY <2>4, <2>7, <4>1
      <4>3. PICK c \in after[D] : {p[1], p[2]} \subseteq c
        BY <4>2 DEF Joined
      <4>4. PICK d \in after[E] : c \subseteq d
        BY <2>6
      <4>. QED  BY <4>3, <4>4 DEF Joined
    <3>. QED  BY <3>1, <3>2
  <2>8. Good(E)
    BY <2>6, <2>7
  <2>. QED  BY <2>8
<1>. QED  BY <1>3, <1>4

\* _cluster_qualified: the clusters partition the tracklets, hold no two of one
\* camera that were alive together, are held together by edges, leave the ends
\* of an edge apart only where an overlap forbids it, and join the edge with the
\* best affinity.
LEMMA ClustersAre ==
  ASSUME NEW keys, NEW support, NEW cooccurrence, NEW life,
         IsFiniteSet(Edges(support, cooccurrence)),
         Tallied(Edges(support, cooccurrence), support, cooccurrence),
         \A p \in Edges(support, cooccurrence) : p[1] \in keys /\ p[2] \in keys
  PROVE  LET edges == Edges(support, cooccurrence)
             clusters == Clusters(keys, support, cooccurrence, life)
         IN /\ Partition(clusters, keys)
            /\ Separate(clusters, life)
            /\ Held(clusters, edges)
            /\ Exhausted(clusters, edges, life)
            /\ \A p \in edges : /\ Strongest(p, edges, support, cooccurrence)
                                /\ ~Overlap(p[1], p[2], life)
                                => Joined(clusters, p)
<1>. DEFINE edges == Edges(support, cooccurrence)
            clusters == Clusters(keys, support, cooccurrence, life)
<1>1. PICK after : /\ Tried(after, edges, keys, support, cooccurrence, life)
                   /\ clusters = after[edges]
  BY ClustersTried
<1>2. /\ IsFiniteSet(edges) /\ Tallied(edges, support, cooccurrence)
      /\ \A p \in edges : p[1] \in keys /\ p[2] \in keys
  OBVIOUS
<1>. HIDE DEF edges, clusters
<1>3. /\ Clustering(clusters, keys, edges, edges, life)
      /\ \A p \in edges : /\ Strongest(p, edges, support, cooccurrence)
                          /\ ~Overlap(p[1], p[2], life)
                          => Joined(clusters, p)
  BY <1>1, <1>2, TriedClustering
<1>. QED  BY <1>3 DEF Clustering, edges, clusters

-----------------------------------------------------------------------------
(* Statistics of a set of tracklets.                                        *)

Statistics(keys, support, cooccurrence, life) ==
  /\ keys \subseteq Triple
  /\ IsFiniteSet(DOMAIN support) /\ DOMAIN support \subseteq CrossPairs(keys)
  /\ \A p \in DOMAIN support : support[p] \in Nat \ {0} /\ cooccurrence[p] \in Nat \ {0}
  /\ \A k \in keys : life[k] \in Nat \X Nat /\ life[k][1] <= life[k][2]

LEMMA EdgesTallied ==
  ASSUME NEW keys, NEW support, NEW cooccurrence, NEW life,
         Statistics(keys, support, cooccurrence, life)
  PROVE  LET edges == Edges(support, cooccurrence)
         IN /\ IsFiniteSet(edges) /\ Tallied(edges, support, cooccurrence)
            /\ \A p \in edges : /\ p[1] \in keys /\ p[2] \in keys
                                /\ ~Overlap(p[1], p[2], life)
<1>. DEFINE edges == Edges(support, cooccurrence)
<1>1. edges \subseteq DOMAIN support
  BY DEF Edges
<1>. HIDE DEF edges
<1>2. IsFiniteSet(edges)
  BY <1>1, FS_Subset DEF Statistics
<1>3. \A p \in edges : p \in keys \X keys /\ p[1][1] < p[2][1]
  BY <1>1 DEF Statistics, CrossPairs
<1>4. Tallied(edges, support, cooccurrence)
  BY <1>1, <1>3 DEF Tallied, Statistics
<1>5. \A p \in edges : p[1][1] # p[2][1]
  <2>1. \A k \in keys : k[1] \in Nat
    BY DEF Statistics, Triple
  <2>. QED  BY <1>3, <2>1
<1>6. \A p \in edges : ~Overlap(p[1], p[2], life)
  BY <1>5 DEF Overlap
<1>. QED  BY <1>2, <1>3, <1>4, <1>6 DEF edges


-----------------------------------------------------------------------------
(* The order in which clusters inherit IDs.                                 *)

\* Disjoint sets of tracklets, and the IDs their members had, all of them
\* issued: what _publish_assignments is given.
Assignable(clusters, ids, next) ==
  /\ IsFiniteSet(clusters)
  /\ \A c \in clusters : c \subseteq Triple /\ IsFiniteSet(c) /\ c # {}
  /\ \A c, d \in clusters : c # d => c \cap d = {}
  /\ next \in Nat \ {0}
  /\ \A k \in DOMAIN ids : ids[k] \in Nat \ {0} /\ ids[k] < next

LEMMA FirstKeyIs ==
  ASSUME NEW S \in SUBSET Triple, IsFiniteSet(S), S # {}
  PROVE  FirstKey(S) \in S
<1>. DEFINE R == {ss \in S \X S : Before(ss[2], ss[1])}
<1>1. \A k, l \in S : <<k, l>> \in R <=> Before(l, k)
  OBVIOUS
<1>. HIDE DEF R
<1>2. \A k, l \in S : k # l => <<k, l>> \in R \/ <<l, k>> \in R
  BY <1>1, BeforeOrder
<1>3. \A k, l, m \in S : <<k, l>> \in R /\ <<l, m>> \in R => <<k, m>> \in R
  BY <1>1, BeforeOrder
<1>4. \E k \in S : \A l \in S \ {k} : <<l, k>> \in R
  BY <1>2, <1>3, LastExists
<1>5. \E k \in S : \A l \in S \ {k} : Before(k, l)
  BY <1>1, <1>4
<1>. QED  BY <1>5, Zenon DEF FirstKey

LEMMA VotesAreNumbers ==
  ASSUME NEW cluster, IsFiniteSet(cluster), NEW ids, NEW g
  PROVE  Votes(cluster, ids, g) \in Nat
<1>1. IsFiniteSet({k \in cluster \cap DOMAIN ids : ids[k] = g})
  BY FS_Subset
<1>. QED  BY <1>1, FS_CardinalityType DEF Votes

\* g has more of the cluster's votes than h, or as many and is older.
Favoured(g, h, cluster, ids) ==
  \/ Votes(cluster, ids, g) > Votes(cluster, ids, h)
  \/ Votes(cluster, ids, g) = Votes(cluster, ids, h) /\ g < h

\* Of some IDs one is preferred, and only one.
LEMMA PreferredIs ==
  ASSUME NEW G \in SUBSET Nat, IsFiniteSet(G), G # {},
         NEW cluster, IsFiniteSet(cluster), NEW ids
  PROVE  /\ Preferred(G, cluster, ids) \in G
         /\ \A g \in G : (\A h \in G \ {g} : Favoured(g, h, cluster, ids))
                           => g = Preferred(G, cluster, ids)
<1>. DEFINE R == {ss \in G \X G : Favoured(ss[2], ss[1], cluster, ids)}
            best == Preferred(G, cluster, ids)
<1>1. \A g, h \in G : <<g, h>> \in R <=> Favoured(h, g, cluster, ids)
  OBVIOUS
<1>0. \A g : Votes(cluster, ids, g) \in Nat
  BY VotesAreNumbers
<1>. HIDE DEF R, best
<1>2. \A g, h \in G : g # h => <<g, h>> \in R \/ <<h, g>> \in R
  BY <1>0, <1>1 DEF Favoured
<1>3. \A g, h, i \in G : <<g, h>> \in R /\ <<h, i>> \in R => <<g, i>> \in R
  BY <1>0, <1>1 DEF Favoured
<1>4. \E g \in G : \A h \in G \ {g} : <<h, g>> \in R
  BY <1>2, <1>3, LastExists
<1>5. \E g \in G : \A h \in G \ {g} : Favoured(g, h, cluster, ids)
  BY <1>1, <1>4
<1>6. best \in G /\ \A h \in G \ {best} : Favoured(best, h, cluster, ids)
  BY <1>5, Zenon DEF best, Preferred, Favoured
<1>7. \A g, h \in G : ~(Favoured(g, h, cluster, ids) /\ Favoured(h, g, cluster, ids))
  BY <1>0 DEF Favoured
<1>. QED  BY <1>6, <1>7 DEF best

LEMMA CandidatesAre ==
  ASSUME NEW clusters, NEW ids, NEW next, Assignable(clusters, ids, next), NEW c \in clusters
  PROVE  /\ Candidates(c, ids) \in SUBSET (Nat \ {0}) /\ IsFiniteSet(Candidates(c, ids))
         /\ \A g \in Candidates(c, ids) : g < next /\ \E k \in DOMAIN ids : ids[k] = g
<1>. DEFINE K == c \cap DOMAIN ids
            f == [k \in K |-> ids[k]]
<1>1. IsFiniteSet(K)
  BY FS_Subset DEF Assignable
<1>2. Candidates(c, ids) = {f[k] : k \in K}
  BY DEF Candidates
<1>3. DOMAIN f = K /\ f = [k \in K |-> f[k]]
  OBVIOUS
<1>4. IsFiniteSet({f[k] : k \in K})
  <2>. HIDE DEF f, K
  <2>. QED  BY <1>1, <1>3, ImageFinite
<1>5. IsFiniteSet(Candidates(c, ids))
  BY <1>2, <1>4, Zenon
<1>6. \A g \in Candidates(c, ids) : \E k \in DOMAIN ids : ids[k] = g
  BY DEF Candidates
<1>. QED  BY <1>5, <1>6 DEF Assignable

\* Ranks order the clusters totally: the first members decide the rest.
LEMMA RankOrder ==
  ASSUME NEW clusters, NEW ids, NEW next, Assignable(clusters, ids, next)
  PROVE  /\ \A c, d \in clusters : c # d => \/ RanksBefore(Rank(c, ids, next), Rank(d, ids, next))
                                            \/ RanksBefore(Rank(d, ids, next), Rank(c, ids, next))
         /\ \A c, d, e \in clusters :
              /\ RanksBefore(Rank(c, ids, next), Rank(d, ids, next))
              /\ RanksBefore(Rank(d, ids, next), Rank(e, ids, next))
              => RanksBefore(Rank(c, ids, next), Rank(e, ids, next))
<1>. DEFINE r(c) == Rank(c, ids, next)
<1>1. ASSUME NEW c \in clusters
      PROVE  r(c)[1] \in Int /\ r(c)[2] \in Nat /\ r(c)[3] \in c /\ r(c)[3] \in Triple
  <2>. DEFINE top == IF Candidates(c, ids) = {} THEN next ELSE Preferred(Candidates(c, ids), c, ids)
  <2>1. r(c) = <<-Votes(c, ids, top), top, FirstKey(c)>>
    BY Zenon DEF Rank
  <2>2. c \subseteq Triple /\ IsFiniteSet(c) /\ c # {} /\ next \in Nat
    BY DEF Assignable
  <2>3. top \in Nat
    BY <2>2, CandidatesAre, PreferredIs
  <2>4. FirstKey(c) \in c
    BY <2>2, FirstKeyIs
  <2>. HIDE DEF top
  <2>5. Votes(c, ids, top) \in Nat
    BY <2>2, VotesAreNumbers
  <2>. HIDE DEF r
  <2>. QED  BY <2>1, <2>2, <2>3, <2>4, <2>5
<1>2. \A c, d \in clusters : c # d => r(c)[3] # r(d)[3]
  <2>. HIDE DEF r
  <2>. QED  BY <1>1 DEF Assignable
<1>. HIDE DEF r
<1>3. \A c, d \in clusters : c # d => RanksBefore(r(c), r(d)) \/ RanksBefore(r(d), r(c))
  BY <1>1, <1>2, BeforeOrder DEF RanksBefore
<1>4. \A c, d, e \in clusters : RanksBefore(r(c), r(d)) /\ RanksBefore(r(d), r(e))
                                  => RanksBefore(r(c), r(e))
  BY <1>1, BeforeOrder DEF RanksBefore
<1>. QED  BY <1>3, <1>4 DEF r

LastRanked(C, ids, next) ==
  CHOOSE c \in C : \A d \in C \ {c} : RanksBefore(Rank(d, ids, next), Rank(c, ids, next))

LEMMA LastRankedIs ==
  ASSUME NEW clusters, NEW ids, NEW next, Assignable(clusters, ids, next),
         NEW C \in SUBSET clusters, C # {}
  PROVE  LastRanked(C, ids, next) \in C
<1>. DEFINE R == {ss \in C \X C : RanksBefore(Rank(ss[1], ids, next), Rank(ss[2], ids, next))}
<1>1. \A c, d \in C : <<c, d>> \in R <=> RanksBefore(Rank(c, ids, next), Rank(d, ids, next))
  OBVIOUS
<1>. HIDE DEF R
<1>2. IsFiniteSet(C)
  BY FS_Subset DEF Assignable
<1>3. \A c, d \in C : c # d => <<c, d>> \in R \/ <<d, c>> \in R
  BY <1>1, RankOrder
<1>4. \A c, d, e \in C : <<c, d>> \in R /\ <<d, e>> \in R => <<c, e>> \in R
  BY <1>1, RankOrder
<1>5. \E c \in C : \A d \in C \ {c} : <<d, c>> \in R
  BY <1>2, <1>3, <1>4, LastExists
<1>6. \E c \in C : \A d \in C \ {c} : RanksBefore(Rank(d, ids, next), Rank(c, ids, next))
  BY <1>1, <1>5
<1>. QED  BY <1>6, Zenon DEF LastRanked


-----------------------------------------------------------------------------
(* One inheritance.                                                         *)

\* What is known of the IDs used so far: all of them have been issued.
Issued(state, next) ==
  /\ state.used \in SUBSET (Nat \ {0}) /\ IsFiniteSet(state.used)
  /\ state.next \in Nat /\ state.next >= next
  /\ \A g \in state.used : g < state.next

\* The ID that Inherit gives: the favourite of the candidates nobody took, or the
\* next new one, which is never taken.
Given(state, cluster, ids) ==
  LET free == Candidates(cluster, ids) \ state.used
  IN IF free = {} THEN state.next ELSE Preferred(free, cluster, ids)

NextAfter(state, cluster, ids) ==
  IF Candidates(cluster, ids) \ state.used = {} THEN state.next + 1 ELSE state.next

LEMMA InheritIs ==
  ASSUME NEW state, NEW next \in Nat \ {0}, Issued(state, next), NEW cluster, NEW ids
  PROVE  Inherit(state, cluster, ids) =
           [used |-> state.used \cup {Given(state, cluster, ids)},
            next |-> NextAfter(state, cluster, ids),
            given |-> state.given \cup {<<cluster, Given(state, cluster, ids)>>}]
<1>. DEFINE free == Candidates(cluster, ids) \ state.used
            n == state.next
            New(m) == m \notin state.used /\ \A i \in n..(m - 1) : i \in state.used
            fresh == CHOOSE m \in n..(n + Cardinality(state.used)) : New(m)
            given == IF free = {} THEN fresh ELSE Preferred(free, cluster, ids)
<1>1. Inherit(state, cluster, ids) =
        [used |-> state.used \cup {given},
         next |-> IF free = {} THEN fresh + 1 ELSE state.next,
         given |-> state.given \cup {<<cluster, given>>}]
  BY Zenon DEF Inherit
<1>2. Cardinality(state.used) \in Nat /\ n \in Nat /\ n \notin state.used
  BY FS_CardinalityType DEF Issued
<1>3. fresh = n
  <2>1. n \in n..(n + Cardinality(state.used))
    BY <1>2
  <2>2. n..(n - 1) = {}
    BY <1>2
  <2>3. New(n)
    BY <1>2, <2>2
  <2>4. fresh \in n..(n + Cardinality(state.used)) /\ New(fresh)
    <3>. HIDE DEF New
    <3>. QED  BY <2>1, <2>3
  <2>5. \A m \in n..(n + Cardinality(state.used)) : New(m) => m = n
    <3>1. ASSUME NEW m \in n..(n + Cardinality(state.used)), New(m), m # n PROVE FALSE
      <4>1. n \in n..(m - 1)
        BY <1>2, <3>1
      <4>. QED  BY <1>2, <3>1, <4>1
    <3>. QED  BY <3>1
  <2>. HIDE DEF New, fresh
  <2>. QED  BY <2>4, <2>5
<1>. HIDE DEF fresh, n
<1>. QED  BY <1>1, <1>3, Zenon DEF Given, NextAfter, n

LEMMA GivenIs ==
  ASSUME NEW clusters, NEW ids, NEW next, Assignable(clusters, ids, next), NEW c \in clusters,
         NEW state, Issued(state, next)
  PROVE  /\ Given(state, c, ids) \in Nat \ {0} /\ Given(state, c, ids) \notin state.used
         /\ NextAfter(state, c, ids) \in Nat /\ NextAfter(state, c, ids) >= state.next
         /\ Given(state, c, ids) < NextAfter(state, c, ids)
         /\ \/ Given(state, c, ids) \in Candidates(c, ids)
            \/ Given(state, c, ids) >= next
         /\ \A g \in Candidates(c, ids) \ state.used :
              (\A h \in Candidates(c, ids) \ {g} : Favoured(g, h, c, ids))
                => g = Given(state, c, ids)
<1>. DEFINE free == Candidates(c, ids) \ state.used
<1>0. IsFiniteSet(c) /\ next \in Nat \ {0}
  BY DEF Assignable
<1>1. /\ Candidates(c, ids) \in SUBSET (Nat \ {0}) /\ IsFiniteSet(Candidates(c, ids))
      /\ \A g \in Candidates(c, ids) : g < next
  BY CandidatesAre
<1>2. state.next \in Nat /\ state.next >= next /\ state.next \notin state.used
  BY DEF Issued
<1>3. CASE free = {}
  <2>1. Given(state, c, ids) = state.next /\ NextAfter(state, c, ids) = state.next + 1
    BY <1>3 DEF Given, NextAfter
  <2>. QED  BY <1>0, <1>2, <1>3, <2>1
<1>4. CASE free # {}
  <2>1. Given(state, c, ids) = Preferred(free, c, ids) /\ NextAfter(state, c, ids) = state.next
    BY <1>4 DEF Given, NextAfter
  <2>2. IsFiniteSet(free) /\ free \in SUBSET Nat
    BY <1>1, FS_Subset
  <2>. HIDE DEF free
  <2>3. /\ Preferred(free, c, ids) \in free
        /\ \A g \in free : (\A h \in free \ {g} : Favoured(g, h, c, ids))
                             => g = Preferred(free, c, ids)
    BY <1>0, <1>4, <2>2, PreferredIs
  <2>4. /\ Given(state, c, ids) \in free
        /\ \A g \in free : (\A h \in free \ {g} : Favoured(g, h, c, ids))
                             => g = Given(state, c, ids)
    BY <2>1, <2>3
  <2>. USE DEF free
  <2>. QED  BY <1>0, <1>1, <1>2, <2>1, <2>4
<1>. QED  BY <1>3, <1>4

-----------------------------------------------------------------------------
(* All of them.                                                             *)

\* turn[C] is the state once the clusters of C have had their turn, in the order
\* of their ranks.
InTurn(turn, clusters, ids, next) ==
  \A C \in SUBSET clusters :
    turn[C] = IF C = {} THEN [used |-> {}, next |-> next, given |-> {}]
              ELSE Inherit(turn[C \ {LastRanked(C, ids, next)}], LastRanked(C, ids, next), ids)

LEMMA GrantedIs ==
  ASSUME NEW clusters, NEW ids, NEW next, Assignable(clusters, ids, next)
  PROVE  \E turn : InTurn(turn, clusters, ids, next) /\ Granted(clusters, ids, next) = turn[clusters]
<1>. DEFINE State == [used : SUBSET (Nat \ {0}), next : Nat, given : SUBSET (clusters \X Nat)]
            V == {state \in State : Issued(state, next)}
            first == [used |-> {}, next |-> next, given |-> {}]
            last(C) == LastRanked(C, ids, next)
            less == [C \in SUBSET clusters |-> IF C = {} THEN {} ELSE C \ {last(C)}]
            step == [ss \in (SUBSET clusters) \X V |->
                       IF ss[1] = {} THEN first ELSE Inherit(ss[2], last(ss[1]), ids)]
<1>0. next \in Nat \ {0} /\ IsFiniteSet(clusters)
  BY DEF Assignable
<1>1. \A C \in SUBSET clusters : C # {} => last(C) \in C
  BY LastRankedIs
<1>. HIDE DEF last
<1>2. first \in V
  <2>1. IsFiniteSet({})
    BY FS_EmptySet
  <2>2. first \in State /\ first.used = {} /\ first.next = next
    BY <1>0
  <2>. HIDE DEF first
  <2>. QED  BY <1>0, <2>1, <2>2 DEF Issued
<1>3. less \in [SUBSET clusters -> SUBSET clusters] /\ Shrinking(less, clusters)
  BY <1>1 DEF Shrinking
<1>4. ASSUME NEW state \in V, NEW c \in clusters PROVE Inherit(state, c, ids) \in V
  <2>. DEFINE g == Given(state, c, ids)  n == NextAfter(state, c, ids)
              after == Inherit(state, c, ids)
  <2>1. Issued(state, next) /\ state \in State
    OBVIOUS
  <2>2. /\ g \in Nat \ {0} /\ n \in Nat /\ n >= state.next /\ g < n
    BY <2>1, GivenIs
  <2>3. after = [used |-> state.used \cup {g}, next |-> n, given |-> state.given \cup {<<c, g>>}]
    BY <1>0, <2>1, InheritIs
  <2>. HIDE DEF g, n, after
  <2>4. /\ after \in State
        /\ after.used = state.used \cup {g} /\ after.next = n
    BY <2>1, <2>2, <2>3
  <2>5. IsFiniteSet(state.used \cup {g})
    BY <2>1, FS_AddElement DEF Issued
  <2>6. Issued(after, next)
    BY <1>0, <2>1, <2>2, <2>4, <2>5 DEF Issued
  <2>. QED  BY <2>4, <2>6 DEF after
<1>. HIDE DEF V, first
<1>5. step \in [(SUBSET clusters) \X V -> V]
  <2>1. ASSUME NEW ss \in (SUBSET clusters) \X V
        PROVE  (IF ss[1] = {} THEN first ELSE Inherit(ss[2], last(ss[1]), ids)) \in V
    BY <1>1, <1>2, <1>4
  <2>. QED  BY <2>1
<1>6. PICK f \in [SUBSET clusters -> V] : Recursive(f, clusters, first, less, step)
  <2>. HIDE DEF less, step
  <2>. QED  BY <1>0, <1>2, <1>3, <1>5, RecursionExists
<1>7. \A C \in SUBSET clusters :
        f[C] = IF C = {} THEN first ELSE Inherit(f[C \ {last(C)}], last(C), ids)
  <2>1. ASSUME NEW C \in SUBSET clusters, C # {}
        PROVE  f[C] = Inherit(f[C \ {last(C)}], last(C), ids)
    <3>1. less[C] = C \ {last(C)} /\ less[C] \in SUBSET clusters
      BY <1>3, <2>1
    <3>2. f[less[C]] \in V
      BY <3>1
    <3>3. step[<<C, f[less[C]]>>] = Inherit(f[less[C]], last(C), ids)
      BY <2>1, <3>2
    <3>. QED  BY <1>6, <2>1, <3>1, <3>3 DEF Recursive
  <2>2. f[{}] = first
    BY <1>6 DEF Recursive
  <2>. HIDE DEF less, step
  <2>. QED  BY <2>1, <2>2
<1>. DEFINE inTurn[C \in SUBSET clusters] ==
              IF C = {} THEN [used |-> {}, next |-> next, given |-> {}]
              ELSE LET latest == CHOOSE c \in C : \A d \in C \ {c} :
                                   RanksBefore(Rank(d, ids, next), Rank(c, ids, next))
                   IN Inherit(inTurn[C \ {latest}], latest, ids)
<1>8. f = [C \in SUBSET clusters |->
             IF C = {} THEN [used |-> {}, next |-> next, given |-> {}]
             ELSE LET latest == CHOOSE c \in C : \A d \in C \ {c} :
                                  RanksBefore(Rank(d, ids, next), Rank(c, ids, next))
                  IN Inherit(f[C \ {latest}], latest, ids)]
  <2>. HIDE DEF less, step
  <2>1. f = [C \in SUBSET clusters |->
               IF C = {} THEN first ELSE Inherit(f[C \ {last(C)}], last(C), ids)]
    BY <1>7
  <2>. QED  BY <2>1, Zenon DEF last, LastRanked, first
<1>9. inTurn = [C \in SUBSET clusters |->
             IF C = {} THEN [used |-> {}, next |-> next, given |-> {}]
             ELSE LET latest == CHOOSE c \in C : \A d \in C \ {c} :
                                  RanksBefore(Rank(d, ids, next), Rank(c, ids, next))
                  IN Inherit(inTurn[C \ {latest}], latest, ids)]
  BY <1>8
<1>10. Granted(clusters, ids, next) = inTurn[clusters]
  BY DEF Granted
<1>. HIDE DEF inTurn
<1>11. InTurn(inTurn, clusters, ids, next)
  BY <1>9, Zenon DEF InTurn, LastRanked
<1>. QED  BY <1>10, <1>11


\* The ID most members of c had, which no member of another cluster had.
Undisputed(g, c, clusters, ids) ==
  /\ g \in Candidates(c, ids)
  /\ \A h \in Candidates(c, ids) \ {g} : Favoured(g, h, c, ids)
  /\ \A d \in clusters \ {c} : g \notin Candidates(d, ids)

\* What holds once the clusters of C have had their turn.
Granting(state, C, clusters, ids, next) ==
  /\ Issued(state, next)
  /\ state.given \subseteq C \X state.used
  /\ \A c \in C : \E x \in state.given : x[1] = c
  /\ \A g \in state.used : \E x \in state.given : x[2] = g
  /\ \A x, y \in state.given : x[1] = y[1] <=> x[2] = y[2]
  /\ \A x \in state.given : x[2] \in Candidates(x[1], ids) \/ x[2] >= next
  /\ \A x \in state.given : \A g : Undisputed(g, x[1], clusters, ids) => x[2] = g

LEMMA OneTurn ==
  ASSUME NEW clusters, NEW ids, NEW next, Assignable(clusters, ids, next),
         NEW C \in SUBSET clusters, NEW c \in clusters \ C,
         NEW state, Granting(state, C, clusters, ids, next)
  PROVE  Granting(Inherit(state, c, ids), C \cup {c}, clusters, ids, next)
<1>. DEFINE g == Given(state, c, ids)  n == NextAfter(state, c, ids)
            after == Inherit(state, c, ids)
<1>0. next \in Nat \ {0} /\ Issued(state, next)
  BY DEF Assignable, Granting
<1>1. /\ g \in Nat \ {0} /\ g \notin state.used /\ n \in Nat /\ n >= state.next /\ g < n
      /\ g \in Candidates(c, ids) \/ g >= next
      /\ \A h \in Candidates(c, ids) \ state.used :
           (\A i \in Candidates(c, ids) \ {h} : Favoured(h, i, c, ids)) => h = g
  BY <1>0, GivenIs
<1>2. after = [used |-> state.used \cup {g}, next |-> n, given |-> state.given \cup {<<c, g>>}]
  BY <1>0, InheritIs
<1>. HIDE DEF g, n, after
<1>3. /\ after.used = state.used \cup {g} /\ after.next = n
      /\ after.given = state.given \cup {<<c, g>>}
  BY <1>2
<1>4. Issued(after, next)
  <2>1. IsFiniteSet(state.used \cup {g})
    BY <1>0, FS_AddElement DEF Issued
  <2>. QED  BY <1>0, <1>1, <1>3, <2>1 DEF Issued
<1>5. /\ state.given \subseteq C \X state.used
      /\ \A x \in state.given : x[1] \in C /\ x[2] \in state.used /\ x[1] # c /\ x[2] # g
  BY <1>1 DEF Granting
<1>6. after.given \subseteq (C \cup {c}) \X after.used
  BY <1>3, <1>5
<1>7. \A d \in C \cup {c} : \E x \in after.given : x[1] = d
  <2>1. <<c, g>> \in after.given /\ <<c, g>>[1] = c
    BY <1>3
  <2>2. \A d \in C : \E x \in after.given : x[1] = d
    BY <1>3 DEF Granting
  <2>. QED  BY <2>1, <2>2
<1>8. \A h \in after.used : \E x \in after.given : x[2] = h
  <2>1. <<c, g>> \in after.given /\ <<c, g>>[2] = g
    BY <1>3
  <2>2. \A h \in state.used : \E x \in after.given : x[2] = h
    BY <1>3 DEF Granting
  <2>. QED  BY <1>3, <2>1, <2>2
<1>9. ASSUME NEW x \in after.given, NEW y \in after.given PROVE x[1] = y[1] <=> x[2] = y[2]
  <2>1. \A z \in after.given : z \in state.given \/ (z[1] = c /\ z[2] = g)
    BY <1>3
  <2>2. CASE x \in state.given /\ y \in state.given
    BY <2>2 DEF Granting
  <2>3. CASE x \notin state.given /\ y \notin state.given
    BY <2>1, <2>3
  <2>4. CASE x \in state.given /\ y \notin state.given
    BY <1>5, <2>1, <2>4
  <2>5. CASE x \notin state.given /\ y \in state.given
    BY <1>5, <2>1, <2>5
  <2>. QED  BY <2>2, <2>3, <2>4, <2>5
<1>10. \A x \in after.given : x[2] \in Candidates(x[1], ids) \/ x[2] >= next
  BY <1>1, <1>3 DEF Granting
<1>11. ASSUME NEW x \in after.given, NEW h, Undisputed(h, x[1], clusters, ids)
       PROVE  x[2] = h
  <2>1. CASE x \in state.given
    BY <1>11, <2>1 DEF Granting
  <2>2. CASE x \notin state.given
    <3>1. x[1] = c /\ x[2] = g
      BY <1>3, <2>2
    <3>2. Undisputed(h, c, clusters, ids)
      BY <1>11, <3>1
    <3>3. h \notin state.used
      <4>1. ASSUME h \in state.used PROVE FALSE
        <5>1. PICK y \in state.given : y[2] = h
          BY <4>1 DEF Granting
        <5>2. y[1] \in clusters \ {c} /\ (h \in Candidates(y[1], ids) \/ h >= next)
          BY <1>5, <5>1 DEF Granting
        <5>3. h \in Candidates(c, ids) /\ h \notin Candidates(y[1], ids)
          BY <3>2, <5>2 DEF Undisputed
        <5>4. h < next /\ h \in Nat
          BY <5>3, CandidatesAre
        <5>. QED  BY <1>0, <5>2, <5>3, <5>4
      <4>. QED  BY <4>1
    <3>. QED  BY <1>1, <3>1, <3>2, <3>3 DEF Undisputed
  <2>. QED  BY <2>1, <2>2
<1>. QED
  BY <1>4, <1>6, <1>7, <1>8, <1>9, <1>10, <1>11 DEF Granting, after

LEMMA GrantedGranting ==
  ASSUME NEW clusters, NEW ids, NEW next, Assignable(clusters, ids, next)
  PROVE  Granting(Granted(clusters, ids, next), clusters, clusters, ids, next)
<1>1. PICK turn : InTurn(turn, clusters, ids, next) /\ Granted(clusters, ids, next) = turn[clusters]
  BY GrantedIs
<1>. DEFINE Good(C) == Granting(turn[C], C, clusters, ids, next)
            Bad == {C \in SUBSET clusters : ~Good(C)}
<1>2. SUFFICES ASSUME Bad # {} PROVE FALSE
  BY <1>1
<1>3. PICK C \in Bad : \A D \in Bad : D \subseteq C => D = C
  <2>1. Bad \in SUBSET (SUBSET clusters) /\ IsFiniteSet(clusters)
    BY DEF Assignable
  <2>. HIDE DEF Bad
  <2>. QED  BY <1>2, <2>1, SmallestSet
<1>4. C \in SUBSET clusters /\ ~Good(C)
  BY <1>3
<1>5. CASE C = {}
  <2>. DEFINE first == [used |-> {}, next |-> next, given |-> {}]
  <2>1. turn[C] = first
    BY <1>1, <1>5 DEF InTurn
  <2>2. first.used = {} /\ first.next = next /\ first.given = {} /\ IsFiniteSet({})
        /\ next \in Nat \ {0}
    BY FS_EmptySet DEF Assignable
  <2>. HIDE DEF first
  <2>3. Granting(first, {}, clusters, ids, next)
    BY <2>2 DEF Granting, Issued
  <2>. QED  BY <1>4, <1>5, <2>1, <2>3
<1>6. CASE C # {}
  <2>. DEFINE c == LastRanked(C, ids, next)  D == C \ {c}
  <2>1. c \in C
    BY <1>4, <1>6, LastRankedIs
  <2>2. turn[C] = Inherit(turn[D], c, ids)
    BY <1>1, <1>4, <1>6 DEF InTurn
  <2>3. D \in SUBSET clusters /\ D \subseteq C /\ D # C /\ D \cup {c} = C /\ c \in clusters \ D
    BY <1>4, <2>1
  <2>. HIDE DEF c, D
  <2>4. Good(D)
    BY <1>3, <2>3
  <2>5. Granting(Inherit(turn[D], c, ids), D \cup {c}, clusters, ids, next)
    BY <2>3, <2>4, OneTurn
  <2>6. Good(C)
    BY <2>2, <2>3, <2>5
  <2>. QED  BY <1>4, <2>6
<1>. QED  BY <1>5, <1>6

\* _publish_assignments: two tracklets get one ID exactly when they are in one
\* cluster; an ID is new or was held before; a cluster keeps the undisputed ID
\* of most of its members; and all IDs have been issued.
LEMMA AssignmentIs ==
  ASSUME NEW clusters, NEW ids, NEW next, Assignable(clusters, ids, next)
  PROVE  LET new == Assignment(clusters, ids, next)
         IN /\ DOMAIN new.ids = UNION clusters
            /\ new.next \in Nat /\ new.next >= next
            /\ \A k \in UNION clusters :
                 /\ new.ids[k] \in Nat \ {0} /\ new.ids[k] < new.next
                 /\ new.ids[k] >= next \/ \E l \in DOMAIN ids : ids[l] = new.ids[k]
            /\ \A k, l \in UNION clusters :
                 new.ids[k] = new.ids[l] <=> \E c \in clusters : k \in c /\ l \in c
            /\ \A c \in clusters : \A g :
                 Undisputed(g, c, clusters, ids) => \A k \in c : new.ids[k] = g
<1>. DEFINE granted == Granted(clusters, ids, next)
            new == Assignment(clusters, ids, next)
            X(k) == CHOOSE x \in granted.given : k \in x[1]
<1>1. Granting(granted, clusters, clusters, ids, next) /\ next \in Nat \ {0}
  BY GrantedGranting DEF Assignable
<1>2. new = [ids |-> [k \in UNION clusters |-> X(k)[2]], next |-> granted.next]
  BY Zenon DEF Assignment
<1>3. /\ DOMAIN new.ids = UNION clusters /\ new.next = granted.next
      /\ \A k \in UNION clusters : new.ids[k] = X(k)[2]
  <2>. HIDE DEF granted, X, new
  <2>. QED  BY <1>2
<1>. HIDE DEF granted, new
<1>4. ASSUME NEW k \in UNION clusters
      PROVE  /\ X(k) \in granted.given /\ k \in X(k)[1]
  <2>1. PICK c \in clusters : k \in c
    OBVIOUS
  <2>2. \E x \in granted.given : k \in x[1]
    BY <1>1, <2>1 DEF Granting
  <2>. QED  BY <2>2
<1>. HIDE DEF X
<1>5. ASSUME NEW k \in UNION clusters
      PROVE  /\ X(k)[1] \in clusters /\ X(k)[2] \in granted.used
             /\ \A c \in clusters : k \in c <=> c = X(k)[1]
  <2>1. X(k)[1] \in clusters /\ X(k)[2] \in granted.used
    BY <1>1, <1>4 DEF Granting
  <2>. QED  BY <1>4, <2>1 DEF Assignable
<1>6. new.next \in Nat /\ new.next >= next
  BY <1>1, <1>3 DEF Granting, Issued
<1>7. ASSUME NEW k \in UNION clusters
      PROVE  /\ new.ids[k] \in Nat \ {0} /\ new.ids[k] < new.next
             /\ new.ids[k] >= next \/ \E l \in DOMAIN ids : ids[l] = new.ids[k]
  <2>1. new.ids[k] \in granted.used /\ new.ids[k] = X(k)[2]
    BY <1>3, <1>5
  <2>2. new.ids[k] \in Nat \ {0} /\ new.ids[k] < new.next
    BY <1>1, <1>3, <2>1 DEF Granting, Issued
  <2>3. X(k)[2] \in Candidates(X(k)[1], ids) \/ X(k)[2] >= next
    BY <1>1, <1>4 DEF Granting
  <2>. QED  BY <1>5, <2>1, <2>2, <2>3, CandidatesAre
<1>8. ASSUME NEW k \in UNION clusters, NEW l \in UNION clusters
      PROVE  new.ids[k] = new.ids[l] <=> \E c \in clusters : k \in c /\ l \in c
  <2>1. X(k)[1] = X(l)[1] <=> X(k)[2] = X(l)[2]
    BY <1>1, <1>4 DEF Granting
  <2>2. (\E c \in clusters : k \in c /\ l \in c) <=> X(k)[1] = X(l)[1]
    BY <1>5
  <2>. QED  BY <1>3, <2>1, <2>2
<1>9. ASSUME NEW c \in clusters, NEW g, Undisputed(g, c, clusters, ids), NEW k \in c
      PROVE  new.ids[k] = g
  <2>1. k \in UNION clusters /\ X(k)[1] = c
    BY <1>5
  <2>2. X(k)[2] = g
    BY <1>1, <1>4, <1>9, <2>1 DEF Granting
  <2>. QED  BY <1>3, <2>1, <2>2
<1>. QED  BY <1>3, <1>6, <1>7, <1>8, <1>9 DEF new

=============================================================================

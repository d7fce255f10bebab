-------------------------- MODULE MtmcFuserProofs --------------------------
(***************************************************************************)
(* Proofs about MtmcFuser, for every set of detections, TTL, reassignment  *)
(* interval, thresholds and bounds.                                        *)
(***************************************************************************)
EXTENDS MtmcFuserProps, ClusteringProofs

-----------------------------------------------------------------------------
(* The window and the live tracklets.  The claim is inductive once rows are *)
(* known not to lie in the future.                                          *)

\* rows describe exactly the tracklets of live, last seen at last.
Matches(rows, live, last, epoch) ==
  /\ \A r \in rows : r.epoch \in Nat /\ r.epoch <= epoch
  /\ Seen(rows) = live
  /\ DOMAIN last = live
  /\ \A k \in live : \E r \in rows : k \in r.seen /\ r.epoch = last[k]
  /\ \A k \in live : \A r \in rows : k \in r.seen => r.epoch <= last[k]

\* One more row, of the newest epoch.
LEMMA RowAdded ==
  ASSUME NEW rows, NEW live, NEW last, NEW old \in Nat,
         Matches(rows, live, last, old),
         NEW row, row.epoch = old + 1,
         NEW new, new = [k \in DOMAIN last \cup row.seen |->
                           IF k \in row.seen THEN old + 1 ELSE last[k]]
  PROVE  Matches(rows \cup {row}, live \cup row.seen, new, old + 1)
<1>. DEFINE all == rows \cup {row}
<1>1. \A r \in all : r.epoch \in Nat /\ r.epoch <= old + 1
  BY DEF Matches
<1>2. Seen(all) = live \cup row.seen
  BY DEF Matches, Seen
<1>3. DOMAIN new = live \cup row.seen
  BY DEF Matches
<1>4. ASSUME NEW k \in live \cup row.seen
      PROVE  \E r \in all : k \in r.seen /\ r.epoch = new[k]
  <2>1. CASE k \in row.seen
    BY <2>1
  <2>2. CASE k \notin row.seen
    BY <2>2 DEF Matches
  <2>. QED  BY <2>1, <2>2
<1>5. ASSUME NEW k \in live \cup row.seen, NEW r \in all, k \in r.seen
      PROVE  r.epoch <= new[k]
  <2>1. CASE k \in row.seen
    BY <2>1, <1>1
  <2>2. CASE k \notin row.seen
    BY <2>2, <1>5 DEF Matches
  <2>. QED  BY <2>1, <2>2
<1>. QED  BY <1>1, <1>2, <1>3, <1>4, <1>5 DEF Matches

\* _evict_stale_tracklets keeps the two bounds in step.
LEMMA Trimmed ==
  ASSUME NEW rows, NEW live, NEW last, NEW epoch \in Nat, Matches(rows, live, last, epoch)
  PROVE  LET stale == Stale(last, epoch)
         IN Matches(RecentRows(rows, epoch), live \ stale, Without(last, stale), epoch)
<1>. DEFINE stale == Stale(last, epoch)
            kept == RecentRows(rows, epoch)
<1>0. TrackletTtl \in Nat \ {0}
  BY ConfigAssumption
<1>1. ASSUME NEW k \in live
      PROVE  last[k] \in Nat /\ (k \in stale <=> epoch - last[k] >= TrackletTtl)
  BY DEF Matches, Stale
<1>2. ASSUME NEW k \in live \ stale
      PROVE  \E r \in kept : k \in r.seen /\ r.epoch = last[k]
  BY <1>0, <1>1 DEF Matches, RecentRows
<1>3. ASSUME NEW r \in kept, NEW k \in r.seen PROVE k \in live \ stale
  <2>1. k \in live /\ r.epoch <= last[k] /\ r.epoch \in Nat
    BY <1>3 DEF Matches, Seen, RecentRows
  <2>2. r.epoch >= epoch - TrackletTtl + 1
    BY DEF RecentRows
  <2>. QED  BY <1>0, <1>1, <2>1, <2>2
<1>4. Seen(kept) = live \ stale
  BY <1>2, <1>3 DEF Seen
<1>5. \A k \in live \ stale : Without(last, stale)[k] = last[k]
  BY DEF Matches, Without
<1>6. DOMAIN Without(last, stale) = live \ stale
  BY DEF Matches, Without
<1>7. \A r \in kept : r \in rows
  BY DEF RecentRows
<1>. QED  BY <1>2, <1>4, <1>5, <1>6, <1>7 DEF Matches

WindowInv == attempted \in Nat /\ Matches(window, tracklets, lastSeen, attempted)

LEMMA WindowKept == WindowInv /\ [Next]_vars => WindowInv'
<1>. SUFFICES ASSUME WindowInv, [Next]_vars PROVE WindowInv'
  OBVIOUS
<1>. USE DEF WindowInv
<1>1. ASSUME NEW seen, NEW matched, Accept(seen, matched) PROVE WindowInv'
  <2>. DEFINE epoch == attempted + 1
              row == [epoch |-> epoch, bucket |-> processed + 1, seen |-> seen,
                      matched |-> matched]
              last == [k \in DOMAIN lastSeen \cup seen |->
                         IF k \in seen THEN epoch ELSE lastSeen[k]]
              stale == Stale(last, epoch)
  <2>1. row.epoch = epoch /\ row.seen = seen
    OBVIOUS
  <2>2. Matches(window \cup {row}, tracklets \cup seen, last, epoch)
    <3>. HIDE DEF row
    <3>. QED  BY <2>1, RowAdded
  <2>3. epoch \in Nat
    OBVIOUS
  <2>4. Matches(RecentRows(window \cup {row}, epoch), (tracklets \cup seen) \ stale,
                Without(last, stale), epoch)
    <3>. HIDE DEF row, last, epoch
    <3>. QED  BY <2>2, <2>3, Trimmed DEF stale
  <2>5. /\ attempted' = epoch
        /\ window' = RecentRows(window \cup {row}, epoch)
        /\ tracklets' = (tracklets \cup seen) \ stale
        /\ lastSeen' = Without(last, stale)
    BY <1>1 DEF Accept
  <2>. HIDE DEF row, last, epoch, stale
  <2>. QED  BY <2>3, <2>4, <2>5
<1>2. CASE Age
  <2>1. attempted + 1 \in Nat
    OBVIOUS
  <2>2. Matches(window, tracklets, lastSeen, attempted + 1)
    BY DEF Matches
  <2>3. LET stale == Stale(lastSeen, attempted + 1)
        IN Matches(RecentRows(window, attempted + 1), tracklets \ stale,
                   Without(lastSeen, stale), attempted + 1)
    BY <2>1, <2>2, Trimmed
  <2>. QED  BY <1>2, <2>1, <2>3 DEF Age
<1>3. ASSUME UNCHANGED <<attempted, window, tracklets, lastSeen>> PROVE WindowInv'
  BY <1>3 DEF Matches, Seen
<1>. QED
  BY <1>1, <1>2, <1>3 DEF Next, vars, ObserveBatch, RejectBatch, AdvanceLiveness,
    BumpGeneration, FlushForced

LEMMA WindowStarts == Init => WindowInv
BY DEF Init, WindowInv, Matches, Seen, Nothing

\* The window, the live set and last_seen describe the same tracklets.
THEOREM WindowInStep == Spec => []WindowMatchesLive
<1>1. WindowInv => WindowMatchesLive
  BY DEF WindowInv, Matches, WindowMatchesLive
<1>. QED  BY WindowStarts, WindowKept, <1>1, PTL DEF Spec

-----------------------------------------------------------------------------
(* The public map.                                                           *)

IsMap(f) == f = [k \in DOMAIN f |-> f[k]]

\* Whatever IDs are assigned, the result is a map.
LEMMA AssignmentIsMap ==
  ASSUME NEW clusters, NEW prior, NEW next
  PROVE  IsMap(Assignment(clusters, prior, next).ids)
BY DEF Assignment, IsMap

PublicInv == PublicMapInStep /\ IsMap(ids)

\* Publications, evictions, reconnects and the final flush all leave the public
\* map equal to the qualified map seen through the current generations.
LEMMA PublicKept == PublicInv /\ [Next]_vars => PublicInv'
<1>. SUFFICES ASSUME PublicInv, [Next]_vars PROVE PublicInv'
  OBVIOUS
<1>. USE DEF PublicInv
<1>1. ASSUME NEW rows, NEW live, NEW prior, Publish(rows, live, prior), UNCHANGED generation
      PROVE  PublicInv'
  BY <1>1, AssignmentIsMap DEF Publish, PublicMapInStep
<1>2. ASSUME NEW S, KeepAssignments(Without(ids, S), S), UNCHANGED generation
      PROVE  PublicInv'
  <2>1. CASE S = {}
    <3>1. Without(ids, S) = ids
      BY <2>1 DEF Without, IsMap
    <3>. QED  BY <1>2, <2>1, <3>1 DEF KeepAssignments, PublicMapInStep
  <2>2. CASE S # {}
    BY <1>2, <2>2 DEF KeepAssignments, PublicMapInStep, Without, IsMap
  <2>. QED  BY <2>1, <2>2
<1>3. ASSUME NEW seen, NEW matched, Accept(seen, matched) PROVE PublicInv'
  BY <1>1, <1>2, <1>3 DEF Accept
<1>4. CASE Age
  BY <1>2, <1>4 DEF Age
<1>5. ASSUME NEW s \in Source, BumpGeneration(s) PROVE PublicInv'
  BY <1>5 DEF BumpGeneration, PublicMapInStep, IsMap
<1>6. CASE FlushForced
  <2>1. CASE UNCHANGED <<ids, nextId, idMap>>
    BY <1>6, <2>1 DEF FlushForced, PublicMapInStep, IsMap
  <2>2. CASE Publish(window, tracklets, ids)
    BY <1>1, <1>6, <2>2 DEF FlushForced
  <2>. QED  BY <1>6, <2>1, <2>2 DEF FlushForced
<1>7. CASE UNCHANGED vars
  BY <1>7 DEF vars, PublicMapInStep, IsMap
<1>. QED
  BY <1>3, <1>4, <1>5, <1>6, <1>7 DEF Next, ObserveBatch, RejectBatch, AdvanceLiveness

THEOREM PublicAlways == Spec => []PublicInv
<1>1. Init => PublicInv
  BY DEF Init, PublicInv, PublicMapInStep, PublicView, Nothing, IsMap
<1>. QED  BY <1>1, PublicKept, PTL DEF Spec

\* The public map is never behind the qualified map and the generations.
THEOREM PublicMapCurrent == Spec => []PublicMapInStep
<1>1. PublicInv => PublicMapInStep
  BY DEF PublicInv
<1>. QED  BY PublicAlways, <1>1, PTL

-----------------------------------------------------------------------------
(* The statistics and the stream.                                            *)

\* One more row that is or is not one of those counted.
LEMMA OneMoreCounted ==
  ASSUME NEW S, IsFiniteSet(S), NEW x, x \notin S,
         NEW A \in SUBSET S, NEW B, B = A \/ B = A \cup {x}
  PROVE  /\ Cardinality(A) \in Nat
         /\ Cardinality(B) = Cardinality(A) + (IF B = A THEN 0 ELSE 1)
<1>1. IsFiniteSet(A)
  BY FS_Subset
<1>2. Cardinality(A) \in Nat
  BY <1>1, FS_CardinalityType
<1>3. CASE B = A
  BY <1>2, <1>3
<1>4. CASE B = A \cup {x} /\ B # A
  BY <1>1, <1>2, <1>4, FS_AddElement
<1>. QED  BY <1>2, <1>3, <1>4

LEMMA SupportCounted ==
  ASSUME NEW rows, IsFiniteSet(rows), NEW row, row \notin rows
  PROVE  Counted(Support(rows), row.matched) = Support(rows \cup {row})
<1>. DEFINE with(p) == {r \in rows : p \in r.matched}
            withNew(p) == {r \in rows \cup {row} : p \in r.matched}
            counted == Counted(Support(rows), row.matched)
            all == Support(rows \cup {row})
<1>1. DOMAIN counted = DOMAIN all
  BY DEF Counted, Support
<1>2. ASSUME NEW p \in DOMAIN all PROVE counted[p] = all[p]
  <2>1. all[p] = Cardinality(withNew(p))
    BY DEF Support
  <2>2. counted[p] = (IF p \in DOMAIN Support(rows) THEN Cardinality(with(p)) ELSE 0)
                       + (IF p \in row.matched THEN 1 ELSE 0)
    BY <1>1 DEF Counted, Support
  <2>3. p \notin DOMAIN Support(rows) => with(p) = {}
    BY DEF Support
  <2>4. withNew(p) = IF p \in row.matched THEN with(p) \cup {row} ELSE with(p)
    OBVIOUS
  <2>5. /\ Cardinality(with(p)) \in Nat
        /\ Cardinality(withNew(p)) = Cardinality(with(p)) + (IF withNew(p) = with(p) THEN 0 ELSE 1)
    <3>1. with(p) \in SUBSET rows
      OBVIOUS
    <3>2. withNew(p) = with(p) \/ withNew(p) = with(p) \cup {row}
      BY <2>4
    <3>. HIDE DEF with, withNew
    <3>. QED  BY <3>1, <3>2, OneMoreCounted
  <2>6. p \in row.matched <=> withNew(p) # with(p)
    BY <2>4
  <2>7. Cardinality({}) = 0
    BY FS_EmptySet
  <2>. HIDE DEF with, withNew
  <2>. QED  BY <2>1, <2>2, <2>3, <2>5, <2>6, <2>7
<1>3. counted = [p \in DOMAIN all |-> counted[p]] /\ all = [p \in DOMAIN all |-> all[p]]
  BY <1>1 DEF Counted, Support
<1>. HIDE DEF counted, all
<1>. QED  BY <1>2, <1>3 DEF counted, all

LEMMA CooccurrenceCounted ==
  ASSUME NEW rows, IsFiniteSet(rows), NEW row, row \notin rows
  PROVE  Counted(Cooccurrence(rows), CrossPairs(row.seen)) = Cooccurrence(rows \cup {row})
<1>. DEFINE with(p) == {r \in rows : {p[1], p[2]} \subseteq r.seen}
            withNew(p) == {r \in rows \cup {row} : {p[1], p[2]} \subseteq r.seen}
            counted == Counted(Cooccurrence(rows), CrossPairs(row.seen))
            all == Cooccurrence(rows \cup {row})
<1>1. DOMAIN counted = DOMAIN all
  BY DEF Counted, Cooccurrence
<1>2. ASSUME NEW p \in DOMAIN all PROVE counted[p] = all[p]
  <2>1. all[p] = Cardinality(withNew(p))
    BY DEF Cooccurrence
  <2>2. counted[p] = (IF p \in DOMAIN Cooccurrence(rows) THEN Cardinality(with(p)) ELSE 0)
                       + (IF p \in CrossPairs(row.seen) THEN 1 ELSE 0)
    BY <1>1 DEF Counted, Cooccurrence
  <2>3. PICK r0 \in rows \cup {row} : p \in CrossPairs(r0.seen)
    BY DEF Cooccurrence
  <2>4. \A r : {p[1], p[2]} \subseteq r.seen <=> p \in CrossPairs(r.seen)
    BY <2>3 DEF CrossPairs
  <2>5. p \notin DOMAIN Cooccurrence(rows) => with(p) = {}
    BY <2>4 DEF Cooccurrence
  <2>6. withNew(p) = IF p \in CrossPairs(row.seen) THEN with(p) \cup {row} ELSE with(p)
    BY <2>4
  <2>7. /\ Cardinality(with(p)) \in Nat
        /\ Cardinality(withNew(p)) = Cardinality(with(p)) + (IF withNew(p) = with(p) THEN 0 ELSE 1)
    <3>1. with(p) \in SUBSET rows
      OBVIOUS
    <3>2. withNew(p) = with(p) \/ withNew(p) = with(p) \cup {row}
      BY <2>6
    <3>. HIDE DEF with, withNew
    <3>. QED  BY <3>1, <3>2, OneMoreCounted
  <2>8. p \in CrossPairs(row.seen) <=> withNew(p) # with(p)
    BY <2>6
  <2>9. Cardinality({}) = 0
    BY FS_EmptySet
  <2>. HIDE DEF with, withNew
  <2>. QED  BY <2>1, <2>2, <2>5, <2>7, <2>8, <2>9
<1>3. counted = [p \in DOMAIN all |-> counted[p]] /\ all = [p \in DOMAIN all |-> all[p]]
  BY <1>1 DEF Counted, Cooccurrence
<1>. HIDE DEF counted, all
<1>. QED  BY <1>2, <1>3 DEF counted, all

LEMMA LeastAndGreatest ==
  ASSUME NEW S \in SUBSET Nat, NEW a \in S, NEW b \in S,
         \A x \in S : a <= x, \A x \in S : x <= b
  PROVE  Min(S) = a /\ Max(S) = b
<1>0. a \in Nat /\ b \in Nat
  OBVIOUS
<1>1. Min(S) \in S /\ Min(S) <= a
  BY DEF Min
<1>2. Max(S) \in S /\ Max(S) >= b
  <2>1. \A x \in S : b >= x
    BY <1>0
  <2>. QED  BY <2>1 DEF Max
<1>3. Min(S) \in Nat /\ Max(S) \in Nat /\ a <= Min(S) /\ Max(S) <= b
  BY <1>1, <1>2
<1>. QED  BY <1>0, <1>1, <1>2, <1>3

\* The buckets a tracklet was seen in, and their ends where there are any.
Buckets(rows, k) == {r.bucket : r \in {x \in rows : k \in x.seen}}

Spanned(rows) ==
  \A k \in Seen(rows) : \E a, b \in Buckets(rows, k) :
    \A x \in Buckets(rows, k) : a <= x /\ x <= b

LEMMA LifetimesExtended ==
  ASSUME NEW rows, \A r \in rows : r.bucket \in Nat, Spanned(rows),
         NEW row, row.bucket \in Nat
  PROVE  /\ Spanned(rows \cup {row})
         /\ Extended(Lifetimes(rows), row.seen, row.bucket) = Lifetimes(rows \cup {row})
<1>. DEFINE all == rows \cup {row}
            n == row.bucket
            extended == Extended(Lifetimes(rows), row.seen, n)
<1>0. /\ DOMAIN Lifetimes(rows) = Seen(rows)
      /\ \A k \in Seen(rows) :
           Lifetimes(rows)[k] = <<Min(Buckets(rows, k)), Max(Buckets(rows, k))>>
      /\ DOMAIN Lifetimes(all) = Seen(all)
      /\ \A k \in Seen(all) :
           Lifetimes(all)[k] = <<Min(Buckets(all, k)), Max(Buckets(all, k))>>
  BY DEF Lifetimes, Buckets
<1>1. Seen(all) = Seen(rows) \cup row.seen
  BY DEF Seen
<1>2. ASSUME NEW k
      PROVE  /\ Buckets(rows, k) \in SUBSET Nat
             /\ Buckets(all, k) = Buckets(rows, k) \cup (IF k \in row.seen THEN {n} ELSE {})
             /\ k \notin Seen(rows) => Buckets(rows, k) = {}
  BY DEF Buckets, Seen
<1>3. ASSUME NEW k \in Seen(all)
      PROVE  /\ extended[k] = Lifetimes(all)[k]
             /\ \E a, b \in Buckets(all, k) : \A x \in Buckets(all, k) : a <= x /\ x <= b
  <2>1. CASE k \notin Seen(rows)
    <3>1. Buckets(all, k) = {n}
      BY <1>1, <1>2, <2>1
    <3>2. Min({n}) = n /\ Max({n}) = n
      BY LeastAndGreatest
    <3>3. extended[k] = <<n, n>>
      BY <1>0, <1>1, <2>1 DEF Extended
    <3>4. extended[k] = Lifetimes(all)[k]
      BY <1>0, <3>1, <3>2, <3>3
    <3>5. n <= n
      OBVIOUS
    <3>. HIDE DEF extended, all, n
    <3>. QED  BY <3>1, <3>4, <3>5
  <2>2. CASE k \in Seen(rows)
    <3>1. PICK a \in Buckets(rows, k), b \in Buckets(rows, k) :
            \A x \in Buckets(rows, k) : a <= x /\ x <= b
      BY <2>2 DEF Spanned
    <3>2. a \in Nat /\ b \in Nat
      BY <1>2, <3>1
    <3>3. Lifetimes(rows)[k] = <<a, b>>
      BY <1>0, <1>2, <2>2, <3>1, LeastAndGreatest
    <3>4. CASE k \notin row.seen
      <4>1. Buckets(all, k) = Buckets(rows, k)
        BY <1>2, <3>4
      <4>2. extended[k] = Lifetimes(rows)[k]
        BY <1>0, <1>1, <2>2, <3>4 DEF Extended
      <4>. QED  BY <1>0, <2>2, <3>1, <4>1, <4>2
    <3>5. CASE k \in row.seen
      <4>. DEFINE lo == IF a <= n THEN a ELSE n
                  hi == IF b <= n THEN n ELSE b
      <4>1. Buckets(all, k) = Buckets(rows, k) \cup {n}
        BY <1>2, <3>5
      <4>2. /\ lo \in Buckets(all, k) /\ hi \in Buckets(all, k)
            /\ \A x \in Buckets(all, k) : lo <= x /\ x <= hi
        <5>1. lo \in {a, n} /\ lo <= a /\ lo <= n /\ hi \in {b, n} /\ b <= hi /\ n <= hi
          BY <3>2
        <5>2. lo \in Nat /\ hi \in Nat
          BY <3>2
        <5>3. ASSUME NEW x \in Buckets(all, k) PROVE lo <= x /\ x <= hi
          <6>. HIDE DEF lo, hi, all
          <6>. QED  BY <1>2, <3>1, <3>2, <4>1, <5>1, <5>2
        <5>. HIDE DEF lo, hi, all
        <5>. QED  BY <3>1, <4>1, <5>1, <5>3
      <4>3. Buckets(all, k) \in SUBSET Nat
        BY <1>2, <4>1
      <4>4. Lifetimes(all)[k] = <<lo, hi>>
        BY <1>0, <4>2, <4>3, LeastAndGreatest
      <4>5. Min({a, n}) = lo
        <5>1. lo \in {a, n} /\ lo <= a /\ lo <= n
          BY <3>2
        <5>. QED  BY <3>2, <5>1 DEF Min
      <4>6. Max({b, n}) = hi
        <5>1. hi \in {b, n} /\ hi >= b /\ hi >= n
          BY <3>2
        <5>. QED  BY <3>2, <5>1 DEF Max
      <4>7. extended[k] = <<Min({a, n}), Max({b, n})>>
        <5>1. extended[k] = <<Min({Lifetimes(rows)[k][1], n}), Max({Lifetimes(rows)[k][2], n})>>
          BY <1>0, <1>1, <2>2, <3>5 DEF Extended
        <5>2. Lifetimes(rows)[k][1] = a /\ Lifetimes(rows)[k][2] = b
          BY <3>3
        <5>. HIDE DEF extended, n
        <5>. QED  BY <5>1, <5>2
      <4>. HIDE DEF lo, hi, extended, all
      <4>. QED  BY <4>2, <4>4, <4>5, <4>6, <4>7
    <3>. QED  BY <3>4, <3>5
  <2>. QED  BY <2>1, <2>2
<1>4. DOMAIN extended = Seen(all)
  BY <1>0, <1>1 DEF Extended
<1>5. /\ extended = [k \in DOMAIN extended |-> extended[k]]
      /\ Lifetimes(all) = [k \in DOMAIN Lifetimes(all) |-> Lifetimes(all)[k]]
  BY DEF Extended, Lifetimes
<1>6. extended = Lifetimes(all)
  <2>. HIDE DEF extended, all
  <2>. QED  BY <1>0, <1>3, <1>4, <1>5
<1>7. Spanned(all)
  BY <1>3 DEF Spanned
<1>. QED  BY <1>6, <1>7

\* What the authoritative map is computed from is the evidence of every batch
\* ever accepted, whatever was evicted meanwhile.
THEOREM HistoryComplete == Spec => []HistoryMatchesStream
<1>. DEFINE HInv == /\ processed \in Nat
                    /\ IsFiniteSet(stream)
                    /\ \A r \in stream : r.bucket \in Nat /\ r.bucket <= processed
                    /\ Spanned(stream)
                    /\ HistoryMatchesStream
<1>1. Init => HInv
  <2>. SUFFICES ASSUME Init PROVE HInv
    OBVIOUS
  <2>1. IsFiniteSet({})
    BY FS_EmptySet
  <2>2. /\ Support({}) = Nothing /\ Cooccurrence({}) = Nothing
        /\ Lifetimes({}) = Nothing /\ Spanned({})
    BY DEF Support, Cooccurrence, Lifetimes, Spanned, Seen, Nothing
  <2>. QED  BY <2>1, <2>2 DEF Init, HistoryMatchesStream
<1>2. HInv /\ [Next]_vars => HInv'
  <2>. SUFFICES ASSUME HInv, [Next]_vars PROVE HInv'
    OBVIOUS
  <2>1. ASSUME NEW seen, NEW matched, Accept(seen, matched) PROVE HInv'
    <3>1. PICK row : /\ row.bucket = processed + 1
                     /\ history' = Recorded(row)
                     /\ stream' = stream \cup {row}
                     /\ processed' = processed + 1
      BY <2>1 DEF Accept
    <3>2. row \notin stream /\ row.bucket \in Nat
      BY <3>1
    <3>3. IsFiniteSet(stream')
      BY <3>1, FS_AddElement
    <3>4. \A r \in stream' : r.bucket \in Nat /\ r.bucket <= processed'
      BY <3>1
    <3>5. /\ Spanned(stream \cup {row})
          /\ Extended(Lifetimes(stream), row.seen, row.bucket) = Lifetimes(stream \cup {row})
      BY <3>2, LifetimesExtended
    <3>6. /\ history'.support = Support(stream')
          /\ history'.cooccurrence = Cooccurrence(stream')
          /\ history'.lifetimes = Lifetimes(stream')
      BY <3>1, <3>2, <3>5, SupportCounted, CooccurrenceCounted
        DEF Recorded, HistoryMatchesStream
    <3>7. HistoryMatchesStream'
      BY <3>6 DEF HistoryMatchesStream
    <3>8. Spanned(stream)'
      BY <3>1, <3>5 DEF Spanned, Seen, Buckets
    <3>. QED  BY <3>1, <3>3, <3>4, <3>7, <3>8
  <2>2. ASSUME UNCHANGED <<processed, stream, history>> PROVE HInv'
    BY <2>2 DEF HistoryMatchesStream, Spanned, Seen, Buckets, Support, Cooccurrence, Lifetimes
  <2>. QED
    BY <2>1, <2>2 DEF Next, vars, ObserveBatch, RejectBatch, AdvanceLiveness, Age,
      BumpGeneration, FlushForced
<1>. QED  BY <1>1, <1>2, PTL DEF Spec


-----------------------------------------------------------------------------
(* The rows are evidence that can be clustered.                             *)

Evidence(rows) ==
  /\ IsFiniteSet(rows)
  /\ \A r \in rows : r \in Row /\ IsFiniteSet(r.seen) /\ r.matched \subseteq CrossPairs(r.seen)

LEMMA KeysAreTriples == Key \subseteq Triple
<1>1. Source \subseteq Nat /\ {d[2] : d \in Detection} \subseteq Nat
  BY DetectionAssumption DEF Source
<1>. QED  BY <1>1 DEF Key, Triple

\* A finite set of numbers has ends.
LEMMA EndsExist ==
  ASSUME NEW S \in SUBSET Nat, IsFiniteSet(S), S # {}
  PROVE  \E a, b \in S : \A x \in S : a <= x /\ x <= b
<1>1. PICK a \in S : \A x \in S : a <= x
  BY LeastNumber
<1>. DEFINE R == {ss \in S \X S : ss[1] < ss[2]}
<1>2. \A x, y \in S : <<x, y>> \in R <=> x < y
  OBVIOUS
<1>. HIDE DEF R
<1>3. \E b \in S : \A x \in S \ {b} : <<x, b>> \in R
  <2>1. \A x, y \in S : x # y => <<x, y>> \in R \/ <<y, x>> \in R
    BY <1>2
  <2>2. \A x, y, z \in S : <<x, y>> \in R /\ <<y, z>> \in R => <<x, z>> \in R
    BY <1>2
  <2>. QED  BY <2>1, <2>2, LastExists
<1>4. PICK b \in S : \A x \in S \ {b} : x < b
  BY <1>2, <1>3
<1>5. \A x \in S : x <= b
  BY <1>4
<1>. QED  BY <1>1, <1>5

LEMMA EvidenceSpanned ==
  ASSUME NEW rows, Evidence(rows)
  PROVE  Spanned(rows)
<1>1. ASSUME NEW k \in Seen(rows)
      PROVE  Buckets(rows, k) \in SUBSET Nat /\ IsFiniteSet(Buckets(rows, k)) /\ Buckets(rows, k) # {}
  <2>. DEFINE with == {x \in rows : k \in x.seen}
  <2>1. IsFiniteSet(with)
    BY FS_Subset DEF Evidence
  <2>2. Buckets(rows, k) = {r.bucket : r \in with}
    BY DEF Buckets
  <2>3. with # {} /\ \A r \in with : r.bucket \in Nat
    BY DEF Seen, Evidence, Row
  <2>. HIDE DEF with
  <2>4. IsFiniteSet({r.bucket : r \in with})
    <3>. DEFINE f == [r \in with |-> r.bucket]
    <3>1. {r.bucket : r \in with} = {f[r] : r \in with}
      OBVIOUS
    <3>2. DOMAIN f = with /\ f = [r \in with |-> f[r]]
      OBVIOUS
    <3>. HIDE DEF f
    <3>3. IsFiniteSet({f[r] : r \in with})
      BY <2>1, <3>2, ImageFinite
    <3>. QED  BY <3>1, <3>3, Zenon
  <2>. QED  BY <2>2, <2>3, <2>4
<1>2. ASSUME NEW k \in Seen(rows)
      PROVE  \E a, b \in Buckets(rows, k) : \A x \in Buckets(rows, k) : a <= x /\ x <= b
  BY <1>1, EndsExist
<1>. QED  BY <1>2 DEF Spanned

\* What is counted of some rows are statistics of the tracklets seen in them.
LEMMA EvidenceStatistics ==
  ASSUME NEW rows, Evidence(rows)
  PROVE  /\ Statistics(Seen(rows), Support(rows), Cooccurrence(rows), Lifetimes(rows))
         /\ IsFiniteSet(Seen(rows))
         /\ \A p \in DOMAIN Support(rows) : Support(rows)[p] <= Cooccurrence(rows)[p]
<1>0. \A r \in rows : /\ r \in Row /\ IsFiniteSet(r.seen) /\ r.matched \subseteq CrossPairs(r.seen)
                      /\ r.seen \subseteq Key
  BY DEF Evidence, Row
<1>1. Seen(rows) \subseteq Triple
  BY <1>0, KeysAreTriples DEF Seen
<1>2. IsFiniteSet(Seen(rows))
  <2>. DEFINE parts == {r.seen : r \in rows}
  <2>1. IsFiniteSet(parts)
    <3>. DEFINE f == [r \in rows |-> r.seen]
    <3>1. parts = {f[r] : r \in rows} /\ IsFiniteSet(rows)
      BY DEF Evidence
    <3>2. DOMAIN f = rows /\ f = [r \in rows |-> f[r]]
      OBVIOUS
    <3>. HIDE DEF f, parts
    <3>. QED  BY <3>1, <3>2, ImageFinite
  <2>2. \A part \in parts : IsFiniteSet(part)
    BY <1>0
  <2>. HIDE DEF parts
  <2>3. IsFiniteSet(UNION parts)
    BY <2>1, <2>2, FS_UNION
  <2>. QED  BY <2>3 DEF Seen, parts
<1>3. /\ DOMAIN Support(rows) = UNION {r.matched : r \in rows}
      /\ DOMAIN Cooccurrence(rows) = UNION {CrossPairs(r.seen) : r \in rows}
  BY DEF Support, Cooccurrence
<1>4. DOMAIN Support(rows) \subseteq CrossPairs(Seen(rows))
  BY <1>0, <1>3 DEF CrossPairs, Seen
<1>5. IsFiniteSet(DOMAIN Support(rows))
  <2>1. IsFiniteSet(Seen(rows) \X Seen(rows))
    BY <1>2, FS_Product
  <2>2. DOMAIN Support(rows) \subseteq Seen(rows) \X Seen(rows)
    BY <1>4 DEF CrossPairs
  <2>. QED  BY <2>1, <2>2, FS_Subset
<1>6. ASSUME NEW p \in DOMAIN Support(rows)
      PROVE  /\ Support(rows)[p] \in Nat \ {0} /\ Cooccurrence(rows)[p] \in Nat \ {0}
             /\ Support(rows)[p] <= Cooccurrence(rows)[p]
  <2>. DEFINE with == {r \in rows : p \in r.matched}
              together == {r \in rows : {p[1], p[2]} \subseteq r.seen}
  <2>1. PICK r \in rows : p \in r.matched
    BY <1>3
  <2>2. with \subseteq together /\ together \subseteq rows /\ with # {}
    BY <1>0, <2>1 DEF CrossPairs
  <2>3. Support(rows)[p] = Cardinality(with) /\ Cooccurrence(rows)[p] = Cardinality(together)
    <3>1. p \in DOMAIN Cooccurrence(rows)
      BY <1>0, <1>3, <2>1
    <3>. QED  BY <1>3, <3>1 DEF Support, Cooccurrence
  <2>. HIDE DEF with, together
  <2>4. IsFiniteSet(with) /\ IsFiniteSet(together)
    BY <2>2, FS_Subset DEF Evidence
  <2>5. /\ Cardinality(with) \in Nat /\ Cardinality(together) \in Nat
        /\ Cardinality(with) <= Cardinality(together) /\ Cardinality(with) # 0
    BY <2>2, <2>4, FS_CardinalityType, FS_Subset, FS_EmptySet
  <2>. QED  BY <2>3, <2>5
<1>7. ASSUME NEW k \in Seen(rows)
      PROVE  Lifetimes(rows)[k] \in Nat \X Nat /\ Lifetimes(rows)[k][1] <= Lifetimes(rows)[k][2]
  <2>1. PICK a \in Buckets(rows, k), b \in Buckets(rows, k) :
          \A x \in Buckets(rows, k) : a <= x /\ x <= b
    BY EvidenceSpanned DEF Spanned
  <2>2. Buckets(rows, k) \in SUBSET Nat
    BY <1>0 DEF Buckets, Row
  <2>3. Lifetimes(rows)[k] = <<Min(Buckets(rows, k)), Max(Buckets(rows, k))>>
    BY DEF Lifetimes, Buckets
  <2>4. Lifetimes(rows)[k] = <<a, b>>
    BY <2>1, <2>2, <2>3, LeastAndGreatest
  <2>5. a \in Nat /\ b \in Nat /\ a <= b
    BY <2>1, <2>2
  <2>. QED  BY <2>4, <2>5
<1>. QED  BY <1>1, <1>2, <1>4, <1>5, <1>6, <1>7 DEF Statistics

EvidenceInv ==
  /\ attempted \in Nat /\ processed \in Nat
  /\ generation \in [Source -> Nat]
  /\ Evidence(stream) /\ window \subseteq stream
  /\ \A r \in stream : \A k \in r.seen : <<k[1], k[3]>> \in Detection

LEMMA KeysOfDetections ==
  ASSUME generation \in [Source -> Nat], NEW detections \in SUBSET Detection
  PROVE  /\ CurrentKeys(detections) \subseteq Key /\ IsFiniteSet(CurrentKeys(detections))
         /\ \A k \in CurrentKeys(detections) : <<k[1], k[3]>> \in Detection
<1>1. IsFiniteSet(detections)
  BY DetectionAssumption, FS_Subset
<1>2. IsFiniteSet(CurrentKeys(detections))
  <2>. DEFINE f == [d \in detections |-> <<d[1], generation[d[1]], d[2]>>]
  <2>1. CurrentKeys(detections) = {f[d] : d \in detections}
    BY DEF CurrentKeys
  <2>2. DOMAIN f = detections /\ f = [d \in detections |-> f[d]]
    OBVIOUS
  <2>. HIDE DEF f
  <2>. QED  BY <1>1, <2>1, <2>2, ImageFinite
<1>3. \A d \in detections : d[1] \in Source /\ d[2] \in {e[2] : e \in Detection}
  BY DEF Source
<1>4. \A d \in detections : <<d[1], d[2]>> = d
  BY DetectionAssumption
<1>5. \A k \in CurrentKeys(detections) : <<k[1], k[3]>> \in Detection
  BY <1>4 DEF CurrentKeys
<1>6. CurrentKeys(detections) \subseteq Key
  BY <1>3 DEF CurrentKeys, Key
<1>. QED  BY <1>2, <1>5, <1>6

\* Every batch leaves a row of its detections, and the window keeps some of them.
LEMMA EvidenceKept == EvidenceInv /\ [Next]_vars => EvidenceInv'
<1>. SUFFICES ASSUME EvidenceInv, [Next]_vars PROVE EvidenceInv'
  OBVIOUS
<1>. USE DEF EvidenceInv
<1>1. CASE ObserveBatch
  <2>0. PICK detections \in SUBSET Detection :
          \E matched \in Matchings(CurrentKeys(detections)) :
            Accept(CurrentKeys(detections), matched)
    BY <1>1 DEF ObserveBatch
  <2>1. PICK matched \in Matchings(CurrentKeys(detections)) :
          Accept(CurrentKeys(detections), matched)
    BY <2>0
  <2>. DEFINE seen == CurrentKeys(detections)
              row == [epoch |-> attempted + 1, bucket |-> processed + 1, seen |-> seen,
                      matched |-> matched]
  <2>2. /\ seen \subseteq Key /\ IsFiniteSet(seen) /\ matched \subseteq CrossPairs(seen)
        /\ \A k \in seen : <<k[1], k[3]>> \in Detection
    BY KeysOfDetections DEF Matchings
  <2>3. /\ attempted' = attempted + 1 /\ processed' = processed + 1
        /\ generation' = generation /\ stream' = stream \cup {row}
        /\ window' = RecentRows(window \cup {row}, attempted + 1)
    BY <2>1 DEF Accept
  <2>. HIDE DEF seen
  <2>4. /\ row \in Row /\ row.seen = seen /\ row.matched = matched
    BY <2>2 DEF Row, CrossPairs
  <2>. HIDE DEF row
  <2>5. Evidence(stream \cup {row})
    BY <2>2, <2>4, FS_AddElement DEF Evidence
  <2>6. window' \subseteq stream \cup {row}
    BY <2>3 DEF RecentRows
  <2>7. \A r \in stream \cup {row} : \A k \in r.seen : <<k[1], k[3]>> \in Detection
    BY <2>2, <2>4
  <2>8. \A r \in stream' : \A k \in r.seen : <<k[1], k[3]>> \in Detection
    BY <2>3, <2>7, Zenon
  <2>9. Evidence(stream)' /\ (window \subseteq stream)'
    BY <2>3, <2>5, <2>6 DEF Evidence
  <2>10. attempted' \in Nat /\ processed' \in Nat /\ generation' \in [Source -> Nat]
    BY <2>3
  <2>. QED  BY <2>8, <2>9, <2>10, Zenon
<1>2. CASE Age
  BY <1>2 DEF Age, RecentRows
<1>3. ASSUME NEW s \in Source, BumpGeneration(s) PROVE EvidenceInv'
  BY <1>3 DEF BumpGeneration
<1>4. CASE FlushForced
  BY <1>4 DEF FlushForced
<1>5. CASE UNCHANGED vars
  BY <1>5 DEF vars
<1>. QED
  BY <1>1, <1>2, <1>3, <1>4, <1>5 DEF Next, RejectBatch, AdvanceLiveness

LEMMA EvidenceStarts == Init => EvidenceInv
<1>1. IsFiniteSet({})
  BY FS_EmptySet
<1>. QED  BY <1>1 DEF Init, EvidenceInv, Evidence

\* The rows of the window and of the whole run are statistics that can be
\* clustered.
THEOREM EvidenceAlways == Spec => []EvidenceInv
BY EvidenceStarts, EvidenceKept, PTL DEF Spec

\* The authoritative map never joins two tracklets of one camera that were alive
\* together, in any run, whatever bridges them.
THEOREM AuthoritativeSeparates == Spec => []AuthoritativeSeparatesOverlaps
<1>1. EvidenceInv /\ HistoryMatchesStream => AuthoritativeSeparatesOverlaps
  <2>. SUFFICES ASSUME EvidenceInv, HistoryMatchesStream PROVE AuthoritativeSeparatesOverlaps
    OBVIOUS
  <2>. DEFINE keys == Seen(stream)  support == Support(stream)
              together == Cooccurrence(stream)  life == Lifetimes(stream)
  <2>1. Statistics(keys, support, together, life)
    BY EvidenceStatistics DEF EvidenceInv
  <2>2. DOMAIN life = keys
    BY DEF Lifetimes
  <2>3. AuthoritativeClusters = Clusters(keys, support, together, life)
    BY <2>2 DEF AuthoritativeClusters, HistoryMatchesStream
  <2>. HIDE DEF keys, support, together, life
  <2>4. Separate(AuthoritativeClusters, life)
    BY <2>1, <2>3, EdgesTallied, ClustersAre
  <2>. QED  BY <2>4 DEF Separate, AuthoritativeSeparatesOverlaps, life
<1>. QED  BY <1>1, EvidenceAlways, HistoryComplete, PTL


-----------------------------------------------------------------------------
(* One publication.                                                         *)

\* The clusters of a window partition the tracklets seen in it.
LEMMA WindowClusters ==
  ASSUME NEW rows, Evidence(rows), NEW live, Seen(rows) = live
  PROVE  /\ Partition(NewClusters(rows, live), live)
         /\ IsFiniteSet(NewClusters(rows, live))
         /\ \A c \in NewClusters(rows, live) : c \subseteq Triple /\ IsFiniteSet(c)
<1>. DEFINE clusters == ClustersOfRows(rows)
            support == Support(rows)  together == Cooccurrence(rows)  life == Lifetimes(rows)
<1>1. NewClusters(rows, live) = clusters
  <2>1. live \ Seen(rows) = {}
    OBVIOUS
  <2>. QED  BY <2>1 DEF NewClusters
<1>2. Statistics(live, support, together, life) /\ IsFiniteSet(live)
  BY EvidenceStatistics
<1>3. clusters = Clusters(live, support, together, life)
  BY DEF ClustersOfRows
<1>. HIDE DEF clusters, support, together, life
<1>4. Partition(clusters, live)
  BY <1>2, <1>3, EdgesTallied, ClustersAre
<1>5. \A c \in clusters : c \subseteq live
  BY <1>4 DEF Partition
<1>6. IsFiniteSet(clusters)
  <2>1. IsFiniteSet(SUBSET live)
    BY <1>2, FS_SUBSET
  <2>. QED  BY <1>5, <2>1, FS_Subset
<1>7. \A c \in clusters : c \subseteq Triple /\ IsFiniteSet(c)
  BY <1>2, <1>5, FS_Subset DEF Statistics
<1>. QED  BY <1>1, <1>4, <1>6, <1>7

\* Every ID in use was issued to a tracklet that is still live.
IssuedInv ==
  /\ nextId \in Nat \ {0}
  /\ DOMAIN ids \subseteq tracklets
  /\ \A k \in DOMAIN ids : ids[k] \in Nat \ {0} /\ ids[k] < nextId

\* prior is what an eviction that spares live leaves of the qualified map.
Remains(prior, live) ==
  /\ \A k \in DOMAIN prior : k \in DOMAIN ids /\ prior[k] = ids[k]
  /\ DOMAIN ids \cap live \subseteq DOMAIN prior

\* The new map: one ID for each cluster, new or held before, the undisputed one
\* of most members where there is one.
Published(clusters, live) ==
  /\ DOMAIN ids' = live
  /\ nextId' \in Nat /\ nextId' >= nextId
  /\ \A k \in live :
       /\ ids'[k] \in Nat \ {0} /\ ids'[k] < nextId'
       /\ ids'[k] >= nextId \/ \E l \in DOMAIN ids : ids[l] = ids'[k]
  /\ \A k, l \in live : ids'[k] = ids'[l] <=> \E c \in clusters : k \in c /\ l \in c
  /\ \A c \in clusters : \A g : Undisputed(g, c, clusters, ids) => \A k \in c : ids'[k] = g

LEMMA RemainsVotes ==
  ASSUME NEW prior, NEW live, Remains(prior, live), NEW c \in SUBSET live
  PROVE  /\ Candidates(c, prior) = Candidates(c, ids)
         /\ \A g : Votes(c, prior, g) = Votes(c, ids, g)
<1>1. /\ c \cap DOMAIN prior = c \cap DOMAIN ids
      /\ \A k \in c \cap DOMAIN ids : prior[k] = ids[k]
  BY DEF Remains
<1>2. Candidates(c, prior) = Candidates(c, ids)
  BY <1>1 DEF Candidates
<1>3. ASSUME NEW g PROVE Votes(c, prior, g) = Votes(c, ids, g)
  <2>1. {k \in c \cap DOMAIN prior : prior[k] = g} = {k \in c \cap DOMAIN ids : ids[k] = g}
    BY <1>1
  <2>. QED  BY <2>1, Zenon DEF Votes
<1>. QED  BY <1>2, <1>3

LEMMA PublicationIs ==
  ASSUME IssuedInv, NEW rows, Evidence(rows), NEW live, Seen(rows) = live,
         NEW prior, Remains(prior, live), Publish(rows, live, prior)
  PROVE  Published(NewClusters(rows, live), live)
<1>. DEFINE clusters == NewClusters(rows, live)
            new == Assignment(clusters, prior, nextId)
<1>1. /\ Partition(clusters, live) /\ IsFiniteSet(clusters)
      /\ \A c \in clusters : c \subseteq Triple /\ IsFiniteSet(c)
  BY WindowClusters
<1>2. ids' = new.ids /\ nextId' = new.next
  BY DEF Publish
<1>. HIDE DEF clusters, new
<1>3. \A k \in DOMAIN prior : k \in DOMAIN ids /\ prior[k] = ids[k]
  BY DEF Remains
<1>4. Assignable(clusters, prior, nextId)
  BY <1>1, <1>3 DEF Assignable, Partition, IssuedInv
<1>5. /\ DOMAIN new.ids = UNION clusters
      /\ new.next \in Nat /\ new.next >= nextId
      /\ \A k \in UNION clusters :
           /\ new.ids[k] \in Nat \ {0} /\ new.ids[k] < new.next
           /\ new.ids[k] >= nextId \/ \E l \in DOMAIN prior : prior[l] = new.ids[k]
      /\ \A k, l \in UNION clusters :
           new.ids[k] = new.ids[l] <=> \E c \in clusters : k \in c /\ l \in c
      /\ \A c \in clusters : \A g :
           Undisputed(g, c, clusters, prior) => \A k \in c : new.ids[k] = g
  BY <1>4, AssignmentIs DEF new
<1>6. UNION clusters = live /\ \A c \in clusters : c \in SUBSET live
  BY <1>1 DEF Partition
<1>7. \A c \in clusters : \A g : Undisputed(g, c, clusters, ids)
                                  => Undisputed(g, c, clusters, prior)
  <2>1. \A c \in clusters : /\ Candidates(c, prior) = Candidates(c, ids)
                            /\ \A g : Votes(c, prior, g) = Votes(c, ids, g)
    BY <1>6, RemainsVotes
  <2>2. \A c \in clusters : \A g, h : Favoured(g, h, c, ids) => Favoured(g, h, c, prior)
    BY <2>1 DEF Favoured
  <2>. QED  BY <2>1, <2>2 DEF Undisputed
<1>. QED  BY <1>2, <1>3, <1>5, <1>6, <1>7 DEF Published, clusters

-----------------------------------------------------------------------------
(* The qualified map in every step.                                         *)

FuserInv == EvidenceInv /\ WindowInv /\ IssuedInv

\* What a step does to the map: it publishes the clusters of the new window, or
\* it takes the evicted tracklets out.
PublishingStep == Published(NewClusters(window', tracklets'), tracklets')

EvictingStep(stale) ==
  /\ ~Publishes
  /\ ids' = Without(ids, stale) /\ nextId' = nextId
  /\ tracklets' \cap stale = {} /\ tracklets \ stale \subseteq tracklets'

LEMMA IdleStep ==
  ASSUME UNCHANGED <<processed, stopped, tracklets, ids, nextId>>, IsMap(ids)
  PROVE  EvictingStep({})
BY DEF EvictingStep, Publishes, Without, IsMap

LEMMA AcceptStep ==
  ASSUME FuserInv, EvidenceInv', WindowInv', NEW detections \in SUBSET Detection,
         NEW matched, Accept(CurrentKeys(detections), matched)
  PROVE  LET seen == CurrentKeys(detections)
         IN \E stale \in SUBSET (tracklets \ seen) :
              /\ tracklets' = (tracklets \cup seen) \ stale
              /\ processed' = processed + 1 /\ stopped' = stopped
              /\ IF processed' % ReassignInterval = 0 THEN PublishingStep ELSE EvictingStep(stale)
<1>. DEFINE seen == CurrentKeys(detections)
            epoch == attempted + 1
            bucket == processed + 1
            row == [epoch |-> epoch, bucket |-> bucket, seen |-> seen, matched |-> matched]
            rows == RecentRows(window \cup {row}, epoch)
            last == [k \in DOMAIN lastSeen \cup seen |-> IF k \in seen THEN epoch ELSE lastSeen[k]]
            stale == Stale(last, epoch)
            live == (tracklets \cup seen) \ stale
            prior == Without(ids, stale)
<1>0. /\ attempted \in Nat /\ processed \in Nat /\ DOMAIN lastSeen = tracklets
      /\ DOMAIN ids \subseteq tracklets /\ TrackletTtl \in Nat \ {0}
  BY ConfigAssumption DEF FuserInv, EvidenceInv, WindowInv, Matches, IssuedInv
<1>1. /\ processed' = bucket /\ window' = rows /\ tracklets' = live
      /\ bucket % ReassignInterval = 0 => Publish(rows, live, prior)
      /\ bucket % ReassignInterval # 0 => KeepAssignments(prior, stale)
      /\ generation' = generation /\ stopped' = stopped
  BY DEF Accept
<1>2. stale \in SUBSET (tracklets \ seen)
  <2>1. \A k \in seen : last[k] = epoch /\ ~(epoch - epoch >= TrackletTtl)
    BY <1>0
  <2>2. stale \subseteq tracklets \cup seen
    BY <1>0 DEF Stale
  <2>. HIDE DEF epoch, last
  <2>3. \A k \in seen : k \notin stale
    BY <2>1 DEF Stale
  <2>. QED  BY <2>2, <2>3
<1>. HIDE DEF seen, epoch, row, rows, last, stale
<1>3. CASE bucket % ReassignInterval = 0
  <2>1. Evidence(rows) /\ Seen(rows) = live
    <3>1. Evidence(window)' /\ (Seen(window) = tracklets)'
      <4>1. (window \subseteq stream)' /\ Evidence(stream)'
        BY DEF FuserInv, EvidenceInv
      <4>2. Evidence(window)'
        BY <4>1, FS_Subset DEF Evidence
      <4>. QED  BY <4>2 DEF WindowInv, Matches
    <3>. QED  BY <1>1, <3>1
  <2>2. Remains(prior, live)
    BY <1>0, <1>2 DEF Remains, Without
  <2>. HIDE DEF live, prior
  <2>3. Published(NewClusters(rows, live), live)
    BY <1>1, <1>3, <2>1, <2>2, PublicationIs DEF FuserInv
  <2>4. PublishingStep
    BY <1>1, <2>3 DEF PublishingStep
  <2>. QED  BY <1>1, <1>2, <1>3, <2>4 DEF seen, live
<1>4. CASE bucket % ReassignInterval # 0
  <2>1. ids' = prior /\ nextId' = nextId
    BY <1>1, <1>4 DEF KeepAssignments
  <2>2. EvictingStep(stale)
    BY <1>1, <1>4, <2>1 DEF EvictingStep, Publishes
  <2>. QED  BY <1>1, <1>2, <1>4, <2>2 DEF seen, live
<1>. QED  BY <1>3, <1>4

LEMMA AgeStep ==
  ASSUME FuserInv, Age
  PROVE  \E stale : /\ EvictingStep(stale) /\ tracklets' = tracklets \ stale
                    /\ UNCHANGED <<processed, stopped>>
<1>1. /\ ids' = Without(ids, Stale(lastSeen, attempted + 1)) /\ nextId' = nextId
      /\ tracklets' = tracklets \ Stale(lastSeen, attempted + 1)
      /\ processed' = processed /\ stopped' = stopped
  BY DEF Age, KeepAssignments
<1>2. EvictingStep(Stale(lastSeen, attempted + 1))
  BY <1>1 DEF EvictingStep, Publishes
<1>. QED  BY <1>1, <1>2

LEMMA FlushStep ==
  ASSUME FuserInv, IsMap(ids), FlushForced
  PROVE  /\ tracklets' = tracklets /\ processed' = processed /\ stopped' # stopped
         /\ IF tracklets # {} /\ processed % ReassignInterval # 0
              THEN PublishingStep ELSE EvictingStep({})
<1>1. /\ tracklets' = tracklets /\ processed' = processed /\ window' = window
      /\ ~stopped /\ stopped' = TRUE
      /\ IF tracklets # {} /\ processed % ReassignInterval # 0
           THEN Publish(window, tracklets, ids) ELSE UNCHANGED <<ids, nextId, idMap>>
  BY DEF FlushForced
<1>2. CASE tracklets # {} /\ processed % ReassignInterval # 0
  <2>1. Evidence(window) /\ Seen(window) = tracklets
    <3>1. Evidence(window)
      BY FS_Subset DEF FuserInv, EvidenceInv, Evidence
    <3>. QED  BY <3>1 DEF FuserInv, WindowInv, Matches
  <2>2. Remains(ids, tracklets)
    BY DEF Remains
  <2>3. Published(NewClusters(window, tracklets), tracklets)
    BY <1>1, <1>2, <2>1, <2>2, PublicationIs DEF FuserInv
  <2>4. PublishingStep
    BY <1>1, <2>3 DEF PublishingStep
  <2>. QED  BY <1>1, <1>2, <2>4
<1>3. CASE ~(tracklets # {} /\ processed % ReassignInterval # 0)
  <2>1. EvictingStep({})
    BY <1>1, <1>3 DEF EvictingStep, Publishes, Without, IsMap
  <2>. QED  BY <1>1, <1>3, <2>1
<1>. QED  BY <1>2, <1>3


LEMMA StepIs ==
  ASSUME FuserInv, EvidenceInv', WindowInv', IsMap(ids), [Next]_vars
  PROVE  PublishingStep \/ \E stale : EvictingStep(stale)
<1>1. CASE ObserveBatch
  <2>1. PICK detections \in SUBSET Detection :
          \E matched \in Matchings(CurrentKeys(detections)) :
            Accept(CurrentKeys(detections), matched)
    BY <1>1 DEF ObserveBatch
  <2>. QED  BY <2>1, AcceptStep
<1>2. CASE Age
  BY <1>2, AgeStep
<1>3. ASSUME NEW s \in Source, BumpGeneration(s) PROVE EvictingStep({})
  BY <1>3, IdleStep DEF BumpGeneration
<1>4. CASE FlushForced
  BY <1>4, FlushStep
<1>5. CASE UNCHANGED vars
  BY <1>5, IdleStep DEF vars
<1>. QED
  BY <1>1, <1>2, <1>3, <1>4, <1>5 DEF Next, RejectBatch, AdvanceLiveness

THEOREM FuserAlways == Spec => [](FuserInv /\ IsMap(ids))
<1>1. Init => IssuedInv
  BY DEF Init, IssuedInv, Nothing
<1>2. FuserInv /\ EvidenceInv' /\ WindowInv' /\ IsMap(ids) /\ [Next]_vars => IssuedInv'
  <2>. SUFFICES ASSUME FuserInv, EvidenceInv', WindowInv', IsMap(ids), [Next]_vars
                PROVE  IssuedInv'
    OBVIOUS
  <2>1. CASE PublishingStep
    <3>1. nextId' \in Nat \ {0}
      BY <2>1 DEF PublishingStep, Published, FuserInv, IssuedInv
    <3>. QED  BY <2>1, <3>1 DEF PublishingStep, Published, IssuedInv
  <2>2. ASSUME NEW stale, EvictingStep(stale) PROVE IssuedInv'
    BY <2>2 DEF EvictingStep, FuserInv, IssuedInv, Without
  <2>. QED  BY <2>1, <2>2, StepIs
<1>3. PublicInv => IsMap(ids)
  BY DEF PublicInv
<1>4. EvidenceInv /\ WindowInv /\ IssuedInv <=> FuserInv
  BY DEF FuserInv
<1>. QED
  BY <1>1, <1>2, <1>3, <1>4, EvidenceStarts, EvidenceKept, WindowStarts, WindowKept, PublicAlways,
    PTL DEF Spec

\* No ID is handed to anybody else once its last holder is gone, and none
\* appears that was not issued.
THEOREM NoIdReused == Spec => IdsNeverReused
<1>. DEFINE Fresh == \A k \in DOMAIN ids' :
                       /\ ids'[k] < nextId'
                       /\ ids'[k] >= nextId \/ \E l \in DOMAIN ids : ids[l] = ids'[k]
<1>1. FuserInv /\ IsMap(ids) /\ FuserInv' /\ [Next]_vars => [Fresh]_vars
  <2>. SUFFICES ASSUME FuserInv, IsMap(ids), FuserInv', [Next]_vars PROVE Fresh
    OBVIOUS
  <2>1. CASE PublishingStep
    BY <2>1 DEF PublishingStep, Published
  <2>2. ASSUME NEW stale, EvictingStep(stale) PROVE Fresh
    BY <2>2 DEF EvictingStep, FuserInv, IssuedInv, Without
  <2>. QED  BY <2>1, <2>2, StepIs DEF FuserInv
<1>. QED  BY <1>1, FuserAlways, PTL DEF Spec, IdsNeverReused

\* An assignment gives two tracklets one ID exactly when they are in one cluster.
THEOREM OneIdEach == Spec => OneIdPerCluster
<1>. DEFINE One == Publishes => \A k, l \in DOMAIN ids' :
       (ids'[k] = ids'[l]) = (\E c \in NewClusters(window', tracklets') : {k, l} \subseteq c)
<1>1. FuserInv /\ IsMap(ids) /\ FuserInv' /\ [Next]_vars => [One]_vars
  <2>. SUFFICES ASSUME FuserInv, IsMap(ids), FuserInv', [Next]_vars, Publishes,
                       NEW k \in DOMAIN ids', NEW l \in DOMAIN ids'
                PROVE  (ids'[k] = ids'[l])
                         = (\E c \in NewClusters(window', tracklets') : {k, l} \subseteq c)
    OBVIOUS
  <2>1. PublishingStep
    BY StepIs DEF FuserInv, EvictingStep
  <2>2. ids'[k] = ids'[l] <=> \E c \in NewClusters(window', tracklets') : k \in c /\ l \in c
    BY <2>1 DEF PublishingStep, Published
  <2>. QED  BY <2>2
<1>. QED  BY <1>1, FuserAlways, PTL DEF Spec, OneIdPerCluster

\* A cluster keeps the ID most of its members had, unless a member of another
\* cluster had it too.
THEOREM MajorityKept == Spec => MajorityIdKept
<1>. DEFINE Kept == Publishes => \A c \in NewClusters(window', tracklets') :
       LET held == {ids[k] : k \in c \cap DOMAIN ids}
           holders(g) == {k \in c \cap DOMAIN ids : ids[k] = g}
           majority == {g \in held : \A h \in held \ {g} :
                          \/ Cardinality(holders(g)) > Cardinality(holders(h))
                          \/ Cardinality(holders(g)) = Cardinality(holders(h)) /\ g < h}
       IN \A g \in majority :
            (\A k \in (tracklets' \cap DOMAIN ids) \ c : ids[k] # g)
              => \A k \in c : ids'[k] = g
<1>1. FuserInv /\ IsMap(ids) /\ FuserInv' /\ [Next]_vars => [Kept]_vars
  <2>. SUFFICES ASSUME FuserInv, IsMap(ids), FuserInv', [Next]_vars, Publishes,
                       NEW c \in NewClusters(window', tracklets'),
                       NEW g \in Candidates(c, ids),
                       \A h \in Candidates(c, ids) \ {g} : Favoured(g, h, c, ids),
                       \A k \in (tracklets' \cap DOMAIN ids) \ c : ids[k] # g,
                       NEW k \in c
                PROVE  ids'[k] = g
    BY Zenon DEF Candidates, Favoured, Votes
  <2>1. PublishingStep
    BY StepIs DEF FuserInv, EvictingStep
  <2>2. Partition(NewClusters(window, tracklets), tracklets)'
    <3>1. Evidence(window)' /\ (Seen(window) = tracklets)'
      <4>1. (window \subseteq stream)' /\ Evidence(stream)'
        BY DEF FuserInv, EvidenceInv
      <4>2. Evidence(window)'
        BY <4>1, FS_Subset DEF Evidence
      <4>. QED  BY <4>2 DEF FuserInv, WindowInv, Matches
    <3>. QED  BY <3>1, WindowClusters
  <2>3. Undisputed(g, c, NewClusters(window', tracklets'), ids)
    <3>1. ASSUME NEW d \in NewClusters(window', tracklets') \ {c} PROVE g \notin Candidates(d, ids)
      <4>1. d \subseteq tracklets' /\ d \cap c = {}
        BY <2>2 DEF Partition
      <4>. QED  BY <4>1 DEF Candidates
    <3>. QED  BY <3>1 DEF Undisputed
  <2>. QED  BY <2>1, <2>3 DEF PublishingStep, Published
<1>. QED  BY <1>1, FuserAlways, PTL DEF Spec, MajorityIdKept

\* MtmcRuntime's picture of a fuser step holds of every step of the fuser.
THEOREM RuntimePicture == Spec => RuntimeAbstraction
<1>. DEFINE Accepted == processed' = processed + 1 =>
              \E new \in SUBSET CurrentKeys(Detection) : \E stale \in SUBSET (tracklets \ new) :
                /\ tracklets' = (tracklets \cup new) \ stale
                /\ DOMAIN ids' = IF processed' % ReassignInterval = 0 THEN tracklets'
                                 ELSE DOMAIN ids \ stale
            Aged == processed' = processed /\ attempted' # attempted =>
              /\ tracklets' \subseteq tracklets
              /\ DOMAIN ids' = DOMAIN ids \cap tracklets'
            Bumped == generation' # generation => UNCHANGED <<tracklets, ids>>
            Flushed == stopped' # stopped =>
              DOMAIN ids' = IF processed % ReassignInterval # 0 THEN tracklets ELSE DOMAIN ids
<1>1. FuserInv /\ IsMap(ids) /\ FuserInv' /\ [Next]_vars
        => [Accepted /\ Aged /\ Bumped /\ Flushed]_vars
  <2>. SUFFICES ASSUME FuserInv, IsMap(ids), FuserInv', [Next]_vars
                PROVE  Accepted /\ Aged /\ Bumped /\ Flushed
    OBVIOUS
  <2>0. processed \in Nat /\ DOMAIN ids \subseteq tracklets
    BY DEF FuserInv, EvidenceInv, IssuedInv
  <2>1. CASE ObserveBatch
    <3>1. PICK detections \in SUBSET Detection :
            \E matched \in Matchings(CurrentKeys(detections)) :
              Accept(CurrentKeys(detections), matched)
      BY <2>1 DEF ObserveBatch
    <3>2. generation' = generation
      BY <3>1 DEF Accept
    <3>. DEFINE seen == CurrentKeys(detections)
    <3>3. PICK stale \in SUBSET (tracklets \ seen) :
            /\ tracklets' = (tracklets \cup seen) \ stale
            /\ processed' = processed + 1 /\ stopped' = stopped
            /\ IF processed' % ReassignInterval = 0 THEN PublishingStep ELSE EvictingStep(stale)
      BY <3>1, AcceptStep DEF FuserInv
    <3>4. seen \in SUBSET CurrentKeys(Detection)
      BY DEF CurrentKeys
    <3>. HIDE DEF seen
    <3>5. DOMAIN ids' = IF processed' % ReassignInterval = 0 THEN tracklets' ELSE DOMAIN ids \ stale
      BY <3>3 DEF PublishingStep, Published, EvictingStep, Without
    <3>6. Accepted
      BY <3>3, <3>4, <3>5, Zenon
    <3>7. Aged /\ Bumped /\ Flushed
      BY <2>0, <3>2, <3>3
    <3>. QED  BY <3>6, <3>7
  <2>2. CASE Age
    <3>1. PICK stale : /\ EvictingStep(stale) /\ tracklets' = tracklets \ stale
                       /\ UNCHANGED <<processed, stopped>>
      BY <2>2, AgeStep
    <3>2. DOMAIN ids' = DOMAIN ids \ stale /\ generation' = generation
      BY <2>2, <3>1 DEF EvictingStep, Without, Age
    <3>. QED  BY <2>0, <3>1, <3>2
  <2>3. ASSUME NEW s \in Source, BumpGeneration(s)
        PROVE  Accepted /\ Aged /\ Bumped /\ Flushed
    BY <2>0, <2>3 DEF BumpGeneration
  <2>4. CASE FlushForced
    <3>1. /\ tracklets' = tracklets /\ processed' = processed /\ stopped' # stopped
          /\ IF tracklets # {} /\ processed % ReassignInterval # 0
               THEN PublishingStep ELSE EvictingStep({})
          /\ UNCHANGED <<attempted, generation>>
      BY <2>4, FlushStep DEF FlushForced
    <3>2. DOMAIN ids' = IF tracklets # {} /\ processed % ReassignInterval # 0
                          THEN tracklets ELSE DOMAIN ids
      BY <3>1 DEF PublishingStep, Published, EvictingStep, Without
    <3>. QED  BY <2>0, <3>1, <3>2
  <2>5. CASE UNCHANGED vars
    BY <2>0, <2>5 DEF vars
  <2>. QED
    BY <2>1, <2>2, <2>3, <2>4, <2>5 DEF Next, RejectBatch, AdvanceLiveness
<1>. QED  BY <1>1, FuserAlways, PTL DEF Spec, RuntimeAbstraction

\* Everything the fuser keeps has its type: the public keys are detections, the
\* counts of a pair do not exceed the buckets it shared, and lifetimes do not end
\* before they begin.
THEOREM TypeCorrect == Spec => []TypeOK
<1>1. Spec => [](stopped \in BOOLEAN)
  <2>1. Init => stopped \in BOOLEAN
    BY DEF Init
  <2>2. stopped \in BOOLEAN /\ [Next]_vars => (stopped \in BOOLEAN)'
    BY DEF Next, vars, ObserveBatch, RejectBatch, AdvanceLiveness, Age, Accept, BumpGeneration,
      FlushForced
  <2>. QED  BY <2>1, <2>2, PTL DEF Spec
<1>2. FuserInv /\ PublicInv /\ HistoryMatchesStream /\ stopped \in BOOLEAN => TypeOK
  <2>. SUFFICES ASSUME FuserInv, PublicInv, HistoryMatchesStream, stopped \in BOOLEAN
                PROVE  TypeOK
    OBVIOUS
  <2>1. /\ attempted \in Nat /\ processed \in Nat /\ generation \in [Source -> Nat]
        /\ stream \in SUBSET Row /\ window \in SUBSET Row
        /\ \A r \in window : r.seen \in SUBSET Key /\ r.epoch \in Nat
        /\ \A r \in window : \A k \in r.seen : <<k[1], k[3]>> \in Detection
    BY DEF FuserInv, EvidenceInv, Evidence, Row
  <2>2. /\ Seen(window) = tracklets /\ DOMAIN lastSeen = tracklets
        /\ \A k \in tracklets : \E r \in window : k \in r.seen /\ r.epoch = lastSeen[k]
    BY DEF FuserInv, WindowInv, Matches
  <2>3. tracklets \in SUBSET Key /\ \A k \in tracklets : lastSeen[k] \in Nat
    BY <2>1, <2>2
  <2>4. \A k \in tracklets : <<k[1], k[3]>> \in Detection
    BY <2>1, <2>2
  <2>5. /\ DOMAIN ids \subseteq tracklets /\ nextId \in Nat
        /\ \A k \in DOMAIN ids : ids[k] \in Nat \ {0}
    BY DEF FuserInv, IssuedInv
  <2>6. DOMAIN idMap \subseteq Detection
    <3>1. DOMAIN idMap = {<<k[1], k[3]>> : k \in {l \in DOMAIN ids : l[2] = generation[l[1]]}}
      BY DEF PublicInv, PublicMapInStep, PublicView
    <3>. QED  BY <2>4, <2>5, <3>1
  <2>7. /\ Statistics(Seen(stream), Support(stream), Cooccurrence(stream), Lifetimes(stream))
        /\ \A p \in DOMAIN Support(stream) : Support(stream)[p] <= Cooccurrence(stream)[p]
    BY EvidenceStatistics DEF FuserInv, EvidenceInv
  <2>8. ASSUME NEW k \in DOMAIN history.lifetimes
        PROVE  history.lifetimes[k] \in {i \in Nat \X Nat : i[1] <= i[2]}
    <3>1. DOMAIN Lifetimes(stream) = Seen(stream) /\ history.lifetimes = Lifetimes(stream)
      BY DEF Lifetimes, HistoryMatchesStream
    <3>. QED  BY <2>7, <2>8, <3>1 DEF Statistics
  <2>9. ASSUME NEW p \in DOMAIN history.support
        PROVE  history.support[p] \in 1..history.cooccurrence[p]
    <3>1. history.support = Support(stream) /\ history.cooccurrence = Cooccurrence(stream)
      BY DEF HistoryMatchesStream
    <3>2. /\ history.support[p] \in Nat \ {0} /\ history.cooccurrence[p] \in Nat
          /\ history.support[p] <= history.cooccurrence[p]
      BY <2>7, <2>9, <3>1 DEF Statistics
    <3>. QED  BY <3>2
  <2>. QED  BY <2>1, <2>2, <2>3, <2>5, <2>6, <2>8, <2>9 DEF TypeOK
<1>. QED  BY <1>1, <1>2, FuserAlways, PublicAlways, HistoryComplete, PTL

=============================================================================

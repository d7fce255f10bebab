----------------------------- MODULE MtmcFuser -----------------------------
(***************************************************************************)
(* pipelines/mtmc.py: MtmcFuser in atomic mode, as MtmcRuntime's worker    *)
(* drives it: attempts in order, TTL measured in attempts, reassignment    *)
(* every ReassignInterval accepted buckets, and whole-run statistics for   *)
(* the authoritative map.                                                  *)
(*                                                                         *)
(* The worker applies attempts with the next epoch and the next bucket     *)
(* (MtmcRuntimeProofs, theorem NeverRefused), so the order checks are not  *)
(* repeated here.  Observations of one batch share their epoch, so the     *)
(* window of observations is a set of rows, one per accepted batch.  The   *)
(* embedding cache, which follows last_seen, and the statistics counters   *)
(* decide nothing else and are left out.                                   *)
(***************************************************************************)
EXTENDS MtmcAssociation

CONSTANTS
  Detection,         \* the <<source, object>> the local trackers may report
  TrackletTtl,       \* MtmcConfig.tracklet_ttl
  ReassignInterval,  \* MtmcConfig.reassign_interval
  MaxAttempts,       \* bound: attempts
  MaxReconnects      \* bound: reconnects, of all sources together

Source == {d[1] : d \in Detection}

ASSUME DetectionAssumption == Detection \subseteq Nat \X Nat /\ IsFiniteSet(Detection)
ASSUME ConfigAssumption ==
  /\ TrackletTtl \in Nat \ {0}
  /\ ReassignInterval \in Nat \ {0}
ASSUME BoundAssumption == MaxAttempts \in Nat /\ MaxReconnects \in Nat

VARIABLES
  attempted,    \* _attempted_buckets
  processed,    \* _processed_buckets
  generation,   \* _generations
  window,       \* _observations, as rows
  tracklets,    \* _all_tracklets
  lastSeen,     \* _last_seen
  ids,          \* _qualified_id_map
  idMap,        \* _id_map, the public view
  nextId,       \* _next_global_id
  history,      \* the _historical_* statistics
  stream,       \* every accepted row: what offline fusion would be given
  stopped       \* flush_ready(force=True) was called

vars == <<attempted, processed, generation, window, tracklets, lastSeen, ids, idMap,
          nextId, history, stream, stopped>>

-----------------------------------------------------------------------------
Key == Source \X Nat \X {d[2] : d \in Detection}

Row == [epoch : Nat, bucket : Nat, seen : SUBSET Key, matched : SUBSET (Key \X Key)]

TypeOK ==
  /\ attempted \in Nat
  /\ processed \in Nat
  /\ generation \in [Source -> Nat]
  /\ window \in SUBSET Row
  /\ tracklets \in SUBSET Key
  /\ DOMAIN lastSeen \subseteq Key
  /\ \A k \in DOMAIN lastSeen : lastSeen[k] \in Nat
  /\ DOMAIN ids \subseteq Key
  /\ \A k \in DOMAIN ids : ids[k] \in Nat \ {0}
  /\ DOMAIN idMap \subseteq Detection
  /\ nextId \in Nat
  /\ \A k \in DOMAIN history.lifetimes :
       history.lifetimes[k] \in {i \in Nat \X Nat : i[1] <= i[2]}
  /\ \A p \in DOMAIN history.support : history.support[p] \in 1..history.cooccurrence[p]
  /\ stream \in SUBSET Row
  /\ stopped \in BOOLEAN

Nothing == [k \in {} |-> 0]   \* the empty dict

Init ==
  /\ attempted = 0
  /\ processed = 0
  /\ generation = [s \in Source |-> 0]
  /\ window = {}
  /\ tracklets = {}
  /\ lastSeen = Nothing
  /\ ids = Nothing
  /\ idMap = Nothing
  /\ nextId = 1
  /\ history = [support |-> Nothing, cooccurrence |-> Nothing, lifetimes |-> Nothing]
  /\ stream = {}
  /\ stopped = FALSE

-----------------------------------------------------------------------------
\* f without the keys of S.
Without(f, S) == [k \in DOMAIN f \ S |-> f[k]]

\* The qualified entries of the current generations, under their public keys.
PublicView(qualified, gens) ==
  LET current == {k \in DOMAIN qualified : k[2] = gens[k[1]]}
  IN [d \in {<<k[1], k[3]>> : k \in current} |-> qualified[<<d[1], gens[d[1]], d[2]>>]]

\* _evict_stale_tracklets at attempt `epoch`: the rows and the tracklets kept.
RecentRows(rows, epoch) == {r \in rows : r.epoch >= epoch - TrackletTtl + 1}

\* Mutant: tracklets are kept for one attempt more than their rows.
StaleLate(last, epoch) == {k \in DOMAIN last : epoch - last[k] > TrackletTtl}

Stale(last, epoch) == {k \in DOMAIN last : epoch - last[k] >= TrackletTtl}

\* _publish_assignments; live tracklets without a row get clusters of their own.
NewClusters(rows, live) == ClustersOfRows(rows) \cup {{k} : k \in live \ Seen(rows)}

\* Mutant: the counter of global IDs is not advanced.
PublishUncounted(rows, live, prior) ==
  LET new == Assignment(NewClusters(rows, live), prior, nextId)
  IN /\ ids' = new.ids
     /\ idMap' = PublicView(new.ids, generation)
     /\ UNCHANGED nextId

Publish(rows, live, prior) ==
  LET new == Assignment(NewClusters(rows, live), prior, nextId)
  IN /\ ids' = new.ids
     /\ nextId' = new.next
     /\ idMap' = PublicView(new.ids, generation)

\* Mutants: an eviction does not refresh the public map, or leaves the IDs of
\* the evicted tracklets assigned.
KeepPublicMap(prior, stale) ==
  /\ ids' = prior
  /\ UNCHANGED <<idMap, nextId>>

KeepEvicted(prior, stale) ==
  /\ idMap' = IF stale = {} THEN idMap ELSE PublicView(prior, generation)
  /\ UNCHANGED <<ids, nextId>>

\* Without a publication only an eviction changes the maps.
KeepAssignments(prior, stale) ==
  /\ ids' = prior
  /\ idMap' = IF stale = {} THEN idMap ELSE PublicView(prior, generation)
  /\ UNCHANGED nextId

-----------------------------------------------------------------------------
\* One more occurrence of each pair of ps.
Counted(f, ps) ==
  [p \in DOMAIN f \cup ps |->
     (IF p \in DOMAIN f THEN f[p] ELSE 0) + (IF p \in ps THEN 1 ELSE 0)]

\* Mutants: the last bucket of a known tracklet is not moved; the ends of its
\* interval are swapped.
ExtendedOnce(life, keys, bucket) ==
  [k \in DOMAIN life \cup keys |-> IF k \in DOMAIN life THEN life[k] ELSE <<bucket, bucket>>]

ExtendedSwapped(life, keys, bucket) ==
  [k \in DOMAIN life \cup keys |->
     IF k \notin keys THEN life[k]
     ELSE IF k \in DOMAIN life
            THEN <<Max({life[k][2], bucket}), Min({life[k][1], bucket})>>
            ELSE <<bucket, bucket>>]

Extended(life, keys, bucket) ==
  [k \in DOMAIN life \cup keys |->
     IF k \notin keys THEN life[k]
     ELSE IF k \in DOMAIN life
            THEN <<Min({life[k][1], bucket}), Max({life[k][2], bucket})>>
            ELSE <<bucket, bucket>>]

\* _record_historical_evidence of one batch.
Recorded(row) ==
  [support |-> Counted(history.support, row.matched),
   cooccurrence |-> Counted(history.cooccurrence, CrossPairs(row.seen)),
   lifetimes |-> Extended(history.lifetimes, row.seen, row.bucket)]

\* The pairs of one batch that can be mutually nearest: in each pair of sources
\* every tracklet is in at most one.
Matchings(seen) ==
  {m \in SUBSET CrossPairs(seen) : \A p, q \in m :
     p # q /\ p[1][1] = q[1][1] /\ p[2][1] = q[2][1] => p[1] # q[1] /\ p[2] # q[2]}

CurrentKeys(detections) == {<<d[1], generation[d[1]], d[2]>> : d \in detections}

\* observe_batch accepts: the batch is evidence, is aged, and may be the last of
\* a reassignment interval.
Accept(seen, matched) ==
  LET epoch == attempted + 1
      bucket == processed + 1
      row == [epoch |-> epoch, bucket |-> bucket, seen |-> seen, matched |-> matched]
      rows == RecentRows(window \cup {row}, epoch)
      last == [k \in DOMAIN lastSeen \cup seen |-> IF k \in seen THEN epoch ELSE lastSeen[k]]
      stale == Stale(last, epoch)
      live == (tracklets \cup seen) \ stale
      prior == Without(ids, stale)
  IN /\ attempted' = epoch
     /\ processed' = bucket
     /\ window' = rows
     /\ tracklets' = live
     /\ lastSeen' = Without(last, stale)
     /\ history' = Recorded(row)
     /\ stream' = stream \cup {row}
     /\ IF bucket % ReassignInterval = 0
          THEN Publish(rows, live, prior)
          ELSE KeepAssignments(prior, stale)
     /\ UNCHANGED <<generation, stopped>>

ObserveBatch ==
  /\ ~stopped
  /\ attempted < MaxAttempts
  /\ \E detections \in SUBSET Detection :
     \E matched \in Matchings(CurrentKeys(detections)) :
       Accept(CurrentKeys(detections), matched)

\* An attempt without evidence only ages the live state.
Age ==
  LET epoch == attempted + 1
      stale == Stale(lastSeen, epoch)
  IN /\ ~stopped
     /\ attempted < MaxAttempts
     /\ attempted' = epoch
     /\ window' = RecentRows(window, epoch)
     /\ tracklets' = tracklets \ stale
     /\ lastSeen' = Without(lastSeen, stale)
     /\ KeepAssignments(Without(ids, stale), stale)
     /\ UNCHANGED <<processed, generation, history, stream, stopped>>

RejectBatch == Age        \* observe_batch refuses the frames
AdvanceLiveness == Age    \* advance_liveness

Reconnects == MapThenSumSet(LAMBDA s : generation[s], Source)

BumpGeneration(s) ==
  /\ ~stopped
  /\ Reconnects < MaxReconnects
  /\ generation' = [generation EXCEPT ![s] = @ + 1]
  /\ idMap' = PublicView(ids, generation')
  /\ UNCHANGED <<attempted, processed, window, tracklets, lastSeen, ids, nextId, history,
                 stream, stopped>>

\* flush_ready(force=True): no bucket is pending in atomic mode, only the rest
\* of an interval is assigned.
FlushForced ==
  /\ ~stopped
  /\ stopped' = TRUE
  /\ IF tracklets # {} /\ processed % ReassignInterval # 0
       THEN Publish(window, tracklets, ids)
       ELSE UNCHANGED <<ids, nextId, idMap>>
  /\ UNCHANGED <<attempted, processed, generation, window, tracklets, lastSeen, history,
                 stream>>

Next ==
  \/ ObserveBatch \/ RejectBatch \/ AdvanceLiveness
  \/ \E s \in Source : BumpGeneration(s)
  \/ FlushForced

Spec == Init /\ [][Next]_vars

\* authoritative_id_map: the clusters of the whole run.
AuthoritativeClusters ==
  Clusters(DOMAIN history.lifetimes, history.support, history.cooccurrence,
           history.lifetimes)

=============================================================================

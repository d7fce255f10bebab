--------------------------- MODULE MtmcFuserProps ---------------------------
(***************************************************************************)
(* What the identities published by MtmcFuser must satisfy.                *)
(***************************************************************************)
EXTENDS MtmcFuser

\* Three structures are trimmed by two formulas (mtmc.py:344 and 354): they
\* always describe the same tracklets, each last seen where its newest row is.
WindowMatchesLive ==
  /\ Seen(window) = tracklets
  /\ DOMAIN lastSeen = tracklets
  /\ \A k \in tracklets :
       /\ \E r \in window : k \in r.seen /\ r.epoch = lastSeen[k]
       /\ \A r \in window : k \in r.seen => r.epoch <= lastSeen[k]

\* The public map is never behind: it is the qualified map seen through the
\* current generations, after bumps and evictions too.
PublicMapInStep == idMap = PublicView(ids, generation)

\* This step assigned global IDs.
Publishes ==
  \/ processed' # processed /\ processed' % ReassignInterval = 0
  \/ stopped' # stopped /\ tracklets # {} /\ processed % ReassignInterval # 0

\* A global ID that lost its last holder is never given to anybody again, and
\* no ID appears that the counter has not issued.
IdsNeverReused ==
  [][\A k \in DOMAIN ids' :
       /\ ids'[k] < nextId'
       /\ ids'[k] >= nextId \/ \E l \in DOMAIN ids : ids[l] = ids'[k]]_vars

\* An assignment gives two tracklets the same ID exactly when they are in the
\* same cluster, whatever IDs their earlier holders compete for.
OneIdPerCluster ==
  [][Publishes => \A k, l \in DOMAIN ids' :
       (ids'[k] = ids'[l]) = (\E c \in NewClusters(window', tracklets') : {k, l} \subseteq c)]_vars

\* Stickiness: a cluster keeps the ID most of its members had (the oldest of
\* several such IDs), unless another cluster has a member with that ID too.
MajorityIdKept ==
  [][Publishes => \A c \in NewClusters(window', tracklets') :
       LET held == {ids[k] : k \in c \cap DOMAIN ids}
           holders(g) == {k \in c \cap DOMAIN ids : ids[k] = g}
           majority == {g \in held : \A h \in held \ {g} :
                          \/ Cardinality(holders(g)) > Cardinality(holders(h))
                          \/ Cardinality(holders(g)) = Cardinality(holders(h)) /\ g < h}
       IN \A g \in majority :
            (\A k \in (tracklets' \cap DOMAIN ids) \ c : ids[k] # g)
              => \A k \in c : ids'[k] = g]_vars

\* The incremental statistics equal the evidence of the whole stream, so the
\* authoritative map is what offline fusion of all accepted batches yields.
HistoryMatchesStream ==
  /\ history.support = Support(stream)
  /\ history.cooccurrence = Cooccurrence(stream)
  /\ history.lifetimes = Lifetimes(stream)

\* The authoritative map never joins two tracklets of one camera that were
\* seen in overlapping spans, whatever bridges them.
AuthoritativeSeparatesOverlaps ==
  \A c \in AuthoritativeClusters : \A k, l \in c :
    k # l => ~Overlap(k, l, Lifetimes(stream))

\* MILESTONES.md:258, "forbid merging temporally overlapping tracklets from the
\* same camera", of the map published live.
LiveMapSeparatesOverlaps ==
  \A k, l \in DOMAIN ids : k # l /\ ids[k] = ids[l] => ~Overlap(k, l, Lifetimes(stream))

\* What MtmcRuntime assumes of a fuser step: an accepted batch adds its own
\* tracklets and drops only others, a reassignment covers all live tracklets,
\* and between reassignments IDs only disappear with their tracklets.
RuntimeAbstraction ==
  [][/\ processed' = processed + 1 =>
          \E new \in SUBSET CurrentKeys(Detection) : \E stale \in SUBSET (tracklets \ new) :
            /\ tracklets' = (tracklets \cup new) \ stale
            /\ DOMAIN ids' = IF processed' % ReassignInterval = 0 THEN tracklets'
                             ELSE DOMAIN ids \ stale
     /\ processed' = processed /\ attempted' # attempted =>
          /\ tracklets' \subseteq tracklets
          /\ DOMAIN ids' = DOMAIN ids \cap tracklets'
     /\ generation' # generation => UNCHANGED <<tracklets, ids>>
     /\ stopped' # stopped =>
          DOMAIN ids' = IF processed % ReassignInterval # 0 THEN tracklets ELSE DOMAIN ids]_vars

=============================================================================

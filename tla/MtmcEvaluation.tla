---------------------------- MODULE MtmcEvaluation ----------------------------
(***************************************************************************)
(* metrics/evaluate_mtmc.py: what the evaluator makes of a recorded run.   *)
(* A row is one detection; the rows of one tracklet share a global ID.     *)
(* What fuse_offline_qualified assigns and what the online run's final map *)
(* says are arbitrary here: the evaluator must compare any two.  World     *)
(* coordinates are left out: which rows are averaged into one view counts. *)
(***************************************************************************)
EXTENDS DetectionMatching

CONSTANTS
  Tracklets,   \* sequence of [source, generation, object, person]: what a camera
               \* tracked, and the person it really saw
  Frames,      \* bound: frame numbers
  OfflineIds,  \* bound: global IDs of --fuse-offline, and
  OnlineIds,   \* of the run; their names do not matter
  Warmup       \* --agreement-warmup-frames

Unassigned == -1

\* The negative tracker ID that stands for a missing global ID.
Fallback(k) == -(Tracklets[k].source * 10^7 + Tracklets[k].object)

\* Global IDs are counted from 1, fallbacks are not positive.
ASSUME EvaluationAssumption ==
  /\ Tracklets \in Seq([source : 0..9, generation : Nat, object : Nat, person : Nat])
  /\ Frames \subseteq Nat /\ IsFiniteSet(Frames)
  /\ Warmup \in Nat
  /\ ({Unassigned} \cup {Fallback(k) : k \in DOMAIN Tracklets}) \cap (OfflineIds \cup OnlineIds) = {}

VARIABLES
  rows,      \* pairs of a tracklet and a frame: the detections in the CSV files
  offline,   \* the assignment of --fuse-offline
  online     \* the assignment in --final-map

evalVars == <<rows, offline, online>>

EvalInit ==
  /\ rows = {}
  /\ offline = [k \in DOMAIN Tracklets |-> Unassigned]
  /\ online = offline

\* apply_final_id_map: a tracklet the map does not have keeps the ID its rows
\* were written with (here the same in all of them).
Backfilled(written, entry) == IF entry = Unassigned THEN written ELSE entry

\* The recording holds one more tracklet, with what both sides make of it.
Recorded ==
  \E k \in DOMAIN Tracklets, frames \in (SUBSET Frames) \ {{}},
     a \in OfflineIds \cup {Unassigned}, written, entry \in OnlineIds \cup {Unassigned} :
    /\ \A r \in rows : r[1] < k
    /\ rows' = rows \cup ({k} \X frames)
    /\ offline' = [offline EXCEPT ![k] = a]
    /\ online' = [online EXCEPT ![k] = Backfilled(written, entry)]

-----------------------------------------------------------------------------
\* _global_identity.  It does not look at the generation.
Identity(map, k) ==
  IF map[k] # Unassigned THEN map[k]
  ELSE Fallback(k)

\* assignment_agreement: rows after the warm-up that some side assigned, and
\* those both sides did.
FirstFrame(k) == CHOOSE f \in Frames :
  <<k, f>> \in rows /\ \A g \in Frames : <<k, g>> \in rows => f <= g
Evaluated(warmup) == {r \in rows :
  r[2] - FirstFrame(r[1]) >= warmup
    /\ ~(offline[r[1]] = Unassigned /\ online[r[1]] = Unassigned)}
AssignedOnBoth(warmup) == {r \in Evaluated(warmup) :
  offline[r[1]] # Unassigned /\ online[r[1]] # Unassigned}

Renamed(both, mapping) == {r \in both : <<offline[r[1]], online[r[1]]>> \in mapping}

\* Mutant: an offline ID may stand for several online IDs.
MatchedRowsManyToOne(both) == Cardinality(both)

\* linear_sum_assignment: the best one-to-one naming of the IDs.
MatchedRows(both) ==
  LET oneToOne == {m \in SUBSET (OfflineIds \X OnlineIds) :
                     \A p, q \in m : p[1] = q[1] <=> p[2] = q[2]}
      sizes == {Cardinality(Renamed(both, m)) : m \in oneToOne}
  IN CHOOSE n \in sizes : \A o \in sizes : o <= n

Disagreement(warmup) ==
  Cardinality(Evaluated(warmup)) - MatchedRows(AssignedOnBoth(warmup))

-----------------------------------------------------------------------------
\* The tracklets with a row in an image, and the people annotated in it: here
\* those whom some tracklet saw.
InImage(f, s) == {k \in DOMAIN Tracklets : <<k, f>> \in rows /\ Tracklets[k].source = s}
People(f, s) == {Tracklets[k].person : k \in InImage(f, s)}

\* The IDs a metric goes by: those of an assignment, or the tracker's own.
Shared(map) == [k \in DOMAIN Tracklets |-> Identity(map, k)]
Local == [k \in DOMAIN Tracklets |-> Tracklets[k].object]

\* The IoU matching of one image, as detections [source, person, id].
MatchedImage(ids, f, s) ==
  LET iou == [p \in People(f, s) \X InImage(f, s) |->
                IF Tracklets[p[2]].person = p[1] THEN 1 ELSE 0]
  IN {[source |-> s, person |-> p[1], id |-> ids[p[2]]] :
        p \in Matches(People(f, s), InImage(f, s), iou)}

Sources == {Tracklets[k].source : k \in DOMAIN Tracklets}

\* cross_camera_identity_metrics: pairs of two cameras in one frame.
CameraPairs(ids) ==
  UNION {{<<x[1], a, b>> : a \in MatchedImage(ids, x[1], x[2]),
                           b \in MatchedImage(ids, x[1], x[3])} :
           x \in {y \in Frames \X Sources \X Sources : y[2] < y[3]}}
CrossCamera(ids) ==
  LET pairs == CameraPairs(ids)
      Count(person, id) == Cardinality({p \in pairs :
        (p[2].person = p[3].person) = person /\ (p[2].id = p[3].id) = id})
  IN [tp |-> Count(TRUE, TRUE), fp |-> Count(FALSE, TRUE), fn |-> Count(TRUE, FALSE),
      n_global_ids |-> Cardinality({ids[r[1]] : r \in rows})]

\* _pooled_frame: a timestep for each image.
Timestep(f, s) == f * 10 + s + 1

\* build_accumulator: who was matched to which ID, timestep by timestep, ...
Pooled(ids) ==
  UNION {{[time |-> Timestep(x[1], x[2]), person |-> d.person, id |-> d.id] :
            d \in MatchedImage(ids, x[1], x[2])} : x \in Frames \X Sources}
PerCamera(s) ==
  UNION {{[time |-> f + 1, person |-> d.person, id |-> d.id] :
            d \in MatchedImage(Local, f, s)} : f \in Frames}

\* ... and num_switches of it.
Switches(track) ==
  Cardinality({x \in track \X track :
    /\ x[1].person = x[2].person /\ x[1].time < x[2].time /\ x[1].id # x[2].id
    /\ ~\E y \in track : y.person = x[1].person /\ x[1].time < y.time /\ y.time < x[2].time})

\* image_plane_report: the local-ID baseline beside the pooled metrics.
ImagePlane(ids) == [per_camera |-> [s \in Sources |-> Switches(PerCamera(s))],
                    pooled |-> Switches(Pooled(ids))]

\* ground_plane_metrics: the rows averaged into one predicted position.
Views(ids) ==
  {{r \in rows : r[2] = q[2] /\ ids[r[1]] = ids[q[1]]} : q \in rows}

\* evaluate_rows, up to the names of the IDs
Metrics(map) == LET ids == Shared(map) IN
  [image_plane |-> ImagePlane(ids), cross_camera |-> CrossCamera(ids),
   ground_plane |-> Views(ids)]

NotCompared == -1

\* main, with --fuse-offline or --final-map or both: the final map overrides the
\* offline assignment, and the two are compared when both are there.
ReportedMetrics(fuse, final) == Metrics(IF final THEN online ELSE offline)
ReportedDisagreement(fuse, final) ==
  IF fuse /\ final THEN Disagreement(Warmup) ELSE NotCompared

=============================================================================

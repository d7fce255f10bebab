---------------------------- MODULE MtmcRecording ----------------------------
(***************************************************************************)
(* The data a frame of an MTMC run leaves behind: the evidence the fuser   *)
(* is given while the run lasts, and the CSV rows from which               *)
(* metrics/evaluate_mtmc.py fuses the same run again.  Receipts, their     *)
(* order and their loss are modelled in MtmcPipeline, and what the fuser   *)
(* does with evidence in MtmcFuser; here a frame is accepted or not, and   *)
(* its receipt is found or not.                                            *)
(***************************************************************************)
EXTENDS Integers, FiniteSets

CONSTANTS
  Camera,       \* source IDs
  Object,       \* tracker IDs
  MaxImages     \* bound: frames in a recording

\* What the decode probe, project_person_detections and prepare_prediction_rows
\* look at: a person's box whose foot is seen, one that is cut off by the border,
\* one without width or height, one whose foot projects to infinity, one whose
\* uncertainty is not a positive number up to max_sigma_m, a box of another class,
\* and a box of the detector below the confidence threshold.
Box == {"person", "cut", "flat", "horizon", "vague", "other", "faint"}
Detections == UNION {[objects -> Box] : objects \in SUBSET Object}

VARIABLES
  generation,   \* of each source
  inFlight,     \* frames between the mux probe and the branch probe
  queue,        \* accepted frames that wait for the worker
  fused,        \* observations the worker has fused
  discarded,    \* frames thrown away by a worker that failed
  failed,       \* the worker has failed
  csv,          \* the rows written, and
  unwritten,    \* observations whose frame lost its receipt (kept here only)
  images        \* frames so far

workerVars == <<queue, fused, discarded, failed>>
recordingVars == <<generation, inFlight, workerVars, csv, unwritten, images>>

RecordingInit ==
  /\ generation = [s \in Camera |-> 0]
  /\ queue = {} /\ fused = {} /\ discarded = {} /\ failed = FALSE
  /\ inFlight = {} /\ csv = {} /\ unwritten = {}
  /\ images = 0

\* _yolo_decode_probe: the boxes the tracker gets to see, here already under the
\* IDs it gives them.
Decoded(raw) == [o \in {x \in DOMAIN raw : raw[x] # "faint"} |-> raw[o]]

\* project_person_detections: class, extent, foot, projection and uncertainty must
\* be usable.  An uncertainty above max_sigma_m is refused by the fuser.
Projected(dets) == {o \in DOMAIN dets : dets[o] = "person"}

\* An observation as association sees it.
Observation(s, g, o, bucket) == [source |-> s, generation |-> g, object |-> o, bucket |-> bucket]
Observations(i) == {Observation(i.source, i.generation, o, i.bucket) : o \in Projected(i.dets)}

\* The observations of several frames.
Evidence(frames) == UNION {Observations(i) : i \in frames}

\* _mtmc_probe: an accepted frame is queued in the bucket of its batch; with a
\* clock that is not ready, or frames that do not fit, it is rejected.  Once the
\* worker has failed the probe raises and the frame is dropped.
MuxProbe(s, raw, accepted) ==
  /\ images < MaxImages /\ ~failed
  /\ images' = images + 1
  /\ LET image == [source |-> s, generation |-> generation[s], bucket |-> images,
                   frame |-> images, accepted |-> accepted, dets |-> Decoded(raw)]
     IN /\ inFlight' = inFlight \cup {image}
        /\ queue' = IF accepted THEN queue \cup {image} ELSE queue
  /\ UNCHANGED <<generation, fused, discarded, failed, csv, unwritten>>

\* The worker takes the oldest batch; the fuser labels it with the generations it
\* was submitted under (MtmcRuntimeProps: FusedUnderReceiptGenerations).
Fuse(i) ==
  /\ i \in queue /\ ~failed
  /\ \A j \in queue : i.bucket <= j.bucket
  /\ queue' = queue \ {i}
  /\ fused' = fused \cup Observations(i)
  /\ UNCHANGED <<generation, inFlight, discarded, failed, csv, unwritten, images>>

\* The worker raises, with a batch in hand that it may have fused or not, and
\* throws away what is queued.
WorkerFails ==
  /\ ~failed
  /\ failed' = TRUE
  /\ discarded' = discarded \cup queue
  /\ queue' = {}
  /\ UNCHANGED <<generation, inFlight, fused, csv, unwritten, images>>

NoBucket == -1   \* None, written as an empty field

\* with_global_ids: what a row says of its association, with the receipt and
\* without it.
Row(i, o, found) ==
  [source |-> i.source, frame |-> i.frame, object |-> o, box |-> i.dets[o],
   generation |-> IF found THEN i.generation ELSE -1,
   bucket |-> IF found THEN i.bucket ELSE NoBucket,
   accepted |-> found /\ i.accepted]

\* _probe: consume() finds the receipt of the frame or does not.
BranchProbe(i, found) ==
  /\ i \in inFlight
  /\ inFlight' = inFlight \ {i}
  /\ csv' = csv \cup {Row(i, o, found) : o \in DOMAIN i.dets}
  /\ unwritten' = IF found THEN unwritten ELSE unwritten \cup Observations(i)
  /\ UNCHANGED <<generation, workerVars, images>>

Reconnects(s) ==
  /\ generation[s] = 0 /\ ~failed
  /\ generation' = [generation EXCEPT ![s] = 1]
  /\ UNCHANGED <<inFlight, workerVars, csv, unwritten, images>>

-----------------------------------------------------------------------------
(* The evaluator. *)

\* load_prediction_csvs: persons only; an empty bucket falls back to the frame.
Loaded(rows) == {[r EXCEPT !.bucket = IF @ = NoBucket THEN r.frame ELSE @] :
                   r \in {q \in rows : q.box # "other"}}

\* prepare_prediction_rows returns; a foot at infinity raises ValueError here.
Prepares(rows) == \A r \in Loaded(rows) : r.box # "horizon"

\* Mutant: rejected rows are evidence too.
UsableEvenRejected(r) == r.box \in {"person", "flat"}

\* The rows fuse_prediction_rows takes as evidence: the extent of a box is not
\* tested; the uncertainty is, by fuse_offline_qualified.
Usable(r) == r.box \in {"person", "flat"} /\ r.accepted

OfflineEvidence(rows) ==
  {Observation(r.source, r.generation, r.object, r.bucket) :
     r \in {q \in Loaded(rows) : Usable(q)}}

RecordingNext ==
  \/ \E s \in Camera, raw \in Detections, accepted \in BOOLEAN : MuxProbe(s, raw, accepted)
  \/ \E i \in queue : Fuse(i)
  \/ WorkerFails
  \/ \E i \in inFlight, found \in BOOLEAN : BranchProbe(i, found)
  \/ \E s \in Camera : Reconnects(s)

=============================================================================

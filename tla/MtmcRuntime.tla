---------------------------- MODULE MtmcRuntime ----------------------------
(***************************************************************************)
(* pipelines/mtmc_runtime.py: MtmcRuntime, the adapter between GStreamer   *)
(* streaming threads and the MtmcFuser that one worker thread owns.        *)
(*                                                                         *)
(*  - Callers (the mux probe's streaming thread and the source-pad         *)
(*    threads) enter `with self._submission_lock`, check                   *)
(*    _require_running and then change the submission counters, the        *)
(*    published snapshot and the queue.  _failure and _closed are written  *)
(*    without that lock, so the check and what follows it are two steps    *)
(*    (Call, then one of the bodies).                                      *)
(*  - The worker takes one item at a time, applies it to the fuser,        *)
(*    publishes a snapshot under the lock and calls task_done; when it     *)
(*    raises, the inner finally runs task_done first, then _failure is     *)
(*    set, then the queue is drained.                                      *)
(*  - The main thread starts the runtime, may wait_until_idle, stops the   *)
(*    streaming threads (pipeline to NULL) and shuts the runtime down.     *)
(*                                                                         *)
(* Abstractions.  A global ID is represented by the tracklet the fuser     *)
(* gave it to, so an id map is the set of the tracklets it names.  The     *)
(* association algorithm and the TTL clock are module MtmcFuser's: here a  *)
(* step of the fuser evicts any set of tracklets not seen in this step.    *)
(* The frames of a batch are known by what decides their fate.             *)
(***************************************************************************)
EXTENDS Naturals, Sequences, FiniteSets

CONSTANTS
  Source,            \* expected_sources
  Object,            \* object ids of one source's local tracker
  ReassignInterval,  \* MtmcConfig.reassign_interval
  WorkerMayFail,     \* may fusion, or the on_desync callback, raise?
  MaxAttempts,       \* bound: attempts submitted
  MaxGeneration,     \* bound: reconnects of one source
  MaxQueue           \* bound: queue length at which legacy submits pause

ASSUME SourceAssumption == IsFiniteSet(Source) /\ Source # {}
ASSUME IntervalAssumption == ReassignInterval \in Nat \ {0}
ASSUME BoundAssumption ==
  /\ MaxAttempts \in Nat
  /\ MaxGeneration \in Nat
  /\ MaxQueue \in Nat
ASSUME FailAssumption == WorkerMayFail \in BOOLEAN

VARIABLES
  \* --- shared, written under _submission_lock
  inCall,       \* a caller holds the lock, past _require_running
  mode,         \* _submission_mode
  attempts,     \* _submitted_attempts
  buckets,      \* _submitted_association_buckets
  gens,         \* _generations
  snapshot,     \* _identity_snapshot: [ids, gens]
  \* --- shared, not protected by the lock
  queue,        \* _queue
  unfinished,   \* _queue.unfinished_tasks
  failure,      \* _failure is not None
  closed,       \* _closed
  \* --- the worker thread and the fuser it owns
  wpc,          \* where _run_worker stands
  work,         \* the item taken from the queue
  fuserMode,    \* MtmcFuser._ingestion_mode
  attempted,    \* MtmcFuser._attempted_buckets
  processed,    \* MtmcFuser._processed_buckets
  fuserGens,    \* MtmcFuser._generations
  pending,      \* tracklets of MtmcFuser._pending (legacy mode only)
  observed,     \* MtmcFuser._all_tracklets
  assigned,     \* the keys of MtmcFuser._qualified_id_map
  \* --- the main thread
  mpc,          \* where the main thread stands
  quiesced,     \* the pipeline is NULL: no streaming thread runs
  json,         \* the bucket count each written shutdown map covers
  surfaced      \* a worker failure was raised to some caller

fuserVars  == <<fuserMode, attempted, processed, fuserGens, pending, observed, assigned>>
submitVars == <<mode, attempts, buckets, gens>>
mainVars   == <<mpc, quiesced, json, closed>>
vars == <<inCall, submitVars, snapshot, queue, unfinished, failure, wpc, work,
          fuserVars, mainVars, surfaced>>

-----------------------------------------------------------------------------
(* Data. *)

Tracklet == Source \X Nat \X Object   \* TrackletKey (source, generation, object)

\* What atomic_batch_rejection_reason tells apart: one frame of every expected
\* source within the skew limit, or a source missing, doubled or too far off.
\* (Its two reasons differ only in the statistics they are counted under.)
Frames == {"complete", "unusable"}

\* atomic_batch_rejection_reason(...) is None; a pure function of the frames,
\* evaluated once by the submitter and once more by the fuser.
Accepts(frames) == frames = "complete"

\* A queued item.  A _MuxBatch or _LivenessAttempt carries its receipt
\* (attempt, bucket, accepted and the snapshot's gens) and a _GenerationBump
\* carries gens[source].  On the other kinds the three counters record the
\* submission state at the put; only the invariants read them.
Work == [kind : {"observations", "batch", "liveness", "bump", "stop"},
         source : Source, frames : Frames, accepted : BOOLEAN,
         attempt : Nat, bucket : Nat, gens : [Source -> Nat]]

AnySource == CHOOSE s \in Source : TRUE

NewWork(kind, source, frames, accepted, attempt, bucket, g) ==
  [kind |-> kind, source |-> source, frames |-> frames, accepted |-> accepted,
   attempt |-> attempt, bucket |-> bucket, gens |-> g]

StopWork == NewWork("stop", AnySource, "complete", FALSE, attempts, buckets, gens)

\* What `work` holds while no item is in hand.
NoWork == NewWork("stop", AnySource, "complete", FALSE, 0, 0, [s \in Source |-> 0])

\* Mutant: the map is published as it is.
AllTracklets(tracklets, g) == tracklets

\* The entries of a qualified map that belong to the given generations.
CurrentOnly(tracklets, g) == {t \in tracklets : t[2] = g[t[1]]}

CallerTypes ==
  /\ inCall \in BOOLEAN
  /\ mode \in {"none", "legacy", "atomic"}
  /\ attempts \in Nat
  /\ buckets \in Nat
  /\ gens \in [Source -> Nat]
  /\ snapshot \in [ids : SUBSET Tracklet, gens : [Source -> Nat]]

WorkerTypes ==
  /\ queue \in Seq(Work)
  /\ unfinished \in Nat
  /\ failure \in BOOLEAN
  /\ wpc \in {"absent", "get", "work", "publish", "task_done", "raising",
              "unwinding", "draining", "exited"}
  /\ work \in Work

FuserTypes ==
  /\ fuserMode \in {"none", "legacy", "atomic"}
  /\ attempted \in Nat
  /\ processed \in Nat
  /\ fuserGens \in [Source -> Nat]
  /\ pending \in SUBSET Tracklet
  /\ observed \in SUBSET Tracklet
  /\ assigned \in SUBSET Tracklet

MainTypes ==
  /\ mpc \in {"new", "running", "idle_join", "idle_check", "stop_put",
              "stop_join", "thread_join", "stopped"}
  /\ quiesced \in BOOLEAN
  /\ json \in SUBSET Nat
  /\ closed \in BOOLEAN
  /\ surfaced \in BOOLEAN

TypeOK == CallerTypes /\ WorkerTypes /\ FuserTypes /\ MainTypes

Init ==
  /\ inCall = FALSE
  /\ mode = "none"
  /\ attempts = 0
  /\ buckets = 0
  /\ gens = [s \in Source |-> 0]
  /\ snapshot = [ids |-> {}, gens |-> [s \in Source |-> 0]]
  /\ queue = <<>>
  /\ unfinished = 0
  /\ failure = FALSE
  /\ closed = FALSE
  /\ wpc = "absent"
  /\ work = NoWork
  /\ fuserMode = "none"
  /\ attempted = 0
  /\ processed = 0
  /\ fuserGens = [s \in Source |-> 0]
  /\ pending = {}
  /\ observed = {}
  /\ assigned = {}
  /\ mpc = "new"
  /\ quiesced = FALSE
  /\ json = {}
  /\ surfaced = FALSE

-----------------------------------------------------------------------------
(* Callers. *)

\* `with self._submission_lock: self._require_running()` passes.  The worker
\* may fail, or the main thread close the runtime, before the body runs.
Call ==
  /\ ~inCall /\ ~quiesced
  /\ mpc # "new" /\ ~closed /\ ~failure
  /\ inCall' = TRUE
  /\ UNCHANGED <<submitVars, snapshot, queue, unfinished, failure, wpc, work,
                 fuserVars, mainVars, surfaced>>

\* _require_running raises the worker's failure to the caller.
CallRaises ==
  /\ ~inCall /\ ~quiesced
  /\ mpc # "new" /\ ~closed /\ failure
  /\ surfaced' = TRUE
  /\ UNCHANGED <<inCall, submitVars, snapshot, queue, unfinished, failure, wpc,
                 work, fuserVars, mainVars>>

\* _queue.put: the queue's own mutex makes it one step.
Put(w) ==
  /\ queue' = Append(queue, w)
  /\ unfinished' = unfinished + 1

\* Mutant: the interfaces may be mixed.
SelectAnyMode(m) == mode' = m

\* _select_submission_mode(m), when it does not raise.
SelectMode(m) ==
  /\ mode \in {"none", m}
  /\ mode' = m

EndCall ==
  /\ inCall
  /\ inCall' = FALSE
  /\ UNCHANGED <<failure, wpc, work, fuserVars, mainVars, surfaced>>

\* _select_submission_mode raises: the caller mixed both interfaces.
MixedMode ==
  /\ mode # "none"
  /\ EndCall
  /\ UNCHANGED <<submitVars, snapshot, queue, unfinished>>

Submit ==
  /\ Len(queue) < MaxQueue
  /\ EndCall
  /\ SelectMode("legacy")
  /\ \E s \in Source :
       Put(NewWork("observations", s, "complete", FALSE, attempts, buckets, gens))
  /\ UNCHANGED <<attempts, buckets, gens, snapshot>>

\* Mutant: only an accepted batch uses up an attempt number.
SubmitBatchCountingAccepted(frames) ==
  /\ attempts < MaxAttempts
  /\ EndCall
  /\ SelectMode("atomic")
  /\ attempts' = IF Accepts(frames) THEN attempts + 1 ELSE attempts
  /\ buckets' = IF Accepts(frames) THEN buckets + 1 ELSE buckets
  /\ Put(NewWork("batch", AnySource, frames, Accepts(frames), attempts', buckets',
                 snapshot.gens))
  /\ UNCHANGED <<gens, snapshot>>

SubmitBatch(frames) ==
  /\ attempts < MaxAttempts
  /\ EndCall
  /\ SelectMode("atomic")
  /\ attempts' = attempts + 1
  /\ buckets' = IF Accepts(frames) THEN buckets + 1 ELSE buckets
  /\ Put(NewWork("batch", AnySource, frames, Accepts(frames), attempts', buckets',
                 snapshot.gens))
  /\ UNCHANGED <<gens, snapshot>>

AdvanceLiveness ==
  /\ attempts < MaxAttempts
  /\ EndCall
  /\ SelectMode("atomic")
  /\ attempts' = attempts + 1
  /\ Put(NewWork("liveness", AnySource, "complete", FALSE, attempts', buckets,
                 snapshot.gens))
  /\ UNCHANGED <<buckets, gens, snapshot>>

\* A receipt without an attempt: nothing is queued.
RejectedReceipt ==
  /\ EndCall
  /\ SelectMode("atomic")
  /\ UNCHANGED <<attempts, buckets, gens, snapshot, queue, unfinished>>

\* Mutant: a source without published ids is not reported to the fuser.
BumpGenerationOfKnown(s) ==
  /\ gens[s] < MaxGeneration
  /\ EndCall
  /\ gens' = [gens EXCEPT ![s] = @ + 1]
  /\ snapshot' = [ids |-> {t \in snapshot.ids : t[1] # s}, gens |-> gens']
  /\ IF \E t \in snapshot.ids : t[1] = s
       THEN Put(NewWork("bump", s, "complete", FALSE, attempts, buckets, gens'))
       ELSE UNCHANGED <<queue, unfinished>>
  /\ UNCHANGED <<mode, attempts, buckets>>

BumpGeneration(s) ==
  /\ gens[s] < MaxGeneration
  /\ EndCall
  /\ gens' = [gens EXCEPT ![s] = @ + 1]
  /\ snapshot' = [ids |-> {t \in snapshot.ids : t[1] # s}, gens |-> gens']
  /\ Put(NewWork("bump", s, "complete", FALSE, attempts, buckets, gens'))
  /\ UNCHANGED <<mode, attempts, buckets>>

FinishCall ==
  \/ MixedMode
  \/ Submit
  \/ \E frames \in Frames : SubmitBatch(frames)
  \/ AdvanceLiveness
  \/ RejectedReceipt
  \/ \E s \in Source : BumpGeneration(s)

-----------------------------------------------------------------------------
(* The worker. *)

WorkerUnchanged == UNCHANGED <<inCall, submitVars, failure, mainVars, surfaced>>

Get ==
  /\ wpc = "get"
  /\ queue # <<>>
  /\ work' = Head(queue)
  /\ queue' = Tail(queue)
  /\ wpc' = "work"
  /\ UNCHANGED <<snapshot, unfinished, fuserVars>>
  /\ WorkerUnchanged

\* The fuser, or the worker on its behalf, refuses the item in hand: the
\* epoch, bucket and generation it was submitted with are not the next ones,
\* the accept decision changed, or the ingestion mode did.
Refused(w) ==
  \/ w.kind \in {"batch", "liveness"} /\ w.attempt # attempted + 1
  \/ w.kind = "batch" /\ Accepts(w.frames) /\ w.bucket # processed + 1
  \/ w.kind = "batch" /\ Accepts(w.frames) # w.accepted
  \/ w.kind = "bump" /\ w.gens[w.source] # fuserGens[w.source] + 1
  \/ w.kind \in {"batch", "liveness"} /\ fuserMode = "legacy"
  \/ w.kind = "observations" /\ fuserMode = "atomic"

\* One item applied to the fuser, up to the call of _publish_snapshot.
Fuse(kind) ==
  /\ wpc = "work"
  /\ work.kind = kind
  /\ ~Refused(work)
  /\ wpc' = "publish"
  /\ UNCHANGED <<snapshot, queue, unfinished, work>>
  /\ WorkerUnchanged

\* Eviction of the stale tracklets, then a reassignment when one is due: the
\* new map covers every live tracklet.
Retain(live, stale, due) ==
  /\ observed' = live \ stale
  /\ assigned' = IF due THEN live \ stale ELSE assigned \ stale

FuseBump ==
  /\ Fuse("bump")
  /\ fuserGens' = [fuserGens EXCEPT ![work.source] = @ + 1]
  /\ UNCHANGED <<fuserMode, attempted, processed, pending, observed, assigned>>

FuseLiveness ==
  /\ Fuse("liveness")
  /\ fuserMode' = "atomic"
  /\ attempted' = attempted + 1
  /\ \E stale \in SUBSET observed : Retain(observed, stale, FALSE)
  /\ UNCHANGED <<processed, fuserGens, pending>>

\* Mutant: observe_batch returns before it counts a rejected attempt.
FuseRejectedBatchUncounted ==
  /\ Fuse("batch")
  /\ ~Accepts(work.frames)
  /\ fuserMode' = "atomic"
  /\ UNCHANGED <<attempted, processed, fuserGens, pending, observed, assigned>>

\* observe_batch refuses the frames: the attempt only ages the live state.
FuseRejectedBatch ==
  /\ Fuse("batch")
  /\ ~Accepts(work.frames)
  /\ fuserMode' = "atomic"
  /\ attempted' = attempted + 1
  /\ \E stale \in SUBSET observed : Retain(observed, stale, FALSE)
  /\ UNCHANGED <<processed, fuserGens, pending>>

\* Mutant: the fuser looks the generation up in the callers' table.
TrackletsOfCallers(sources) == {<<s, gens[s], o>> : s \in sources, o \in Object}

\* The tracklets that detections of these sources name now.
TrackletsNow(sources) == {<<s, fuserGens[s], o>> : s \in sources, o \in Object}

FuseAcceptedBatch ==
  /\ Fuse("batch")
  /\ Accepts(work.frames)
  /\ fuserMode' = "atomic"
  /\ attempted' = attempted + 1
  /\ processed' = processed + 1
  /\ \E new \in SUBSET TrackletsNow(Source) : \E stale \in SUBSET (observed \ new) :
       Retain(observed \cup new, stale, processed' % ReassignInterval = 0)
  /\ UNCHANGED <<fuserGens, pending>>

\* observe, then flush_ready: some of the pending buckets are ready (a tracklet
\* may be in several), each of them evicts, and reassigns when that falls due, so
\* any live tracklets may be assigned after it.  The fuser's own counters also
\* advance, but in this mode nothing is compared with them.
FuseObservations ==
  /\ Fuse("observations")
  /\ fuserMode' = "legacy"
  /\ \E new \in SUBSET TrackletsNow({work.source}) :
     \E flushed, kept \in SUBSET (pending \cup new) :
     \E stale \in SUBSET (observed \cup flushed) :
       /\ flushed \cup kept = pending \cup new
       /\ pending' = kept
       /\ observed' = (observed \cup flushed) \ stale
       /\ assigned' \in SUBSET observed'
  /\ UNCHANGED <<attempted, processed, fuserGens>>

\* _STOP: flush_ready(force=True) flushes every pending bucket.  In legacy mode
\* a reassignment follows the last bucket, here or when it was flushed; in
\* atomic mode no bucket is pending and the rest of an interval is made up for.
FuseStop ==
  /\ Fuse("stop")
  /\ pending' = {}
  /\ \/ /\ fuserMode = "legacy"
        /\ \E stale \in SUBSET (observed \cup pending) :
             Retain(observed \cup pending, stale, TRUE)
     \/ /\ fuserMode # "legacy"
        /\ Retain(observed, {}, observed # {} /\ processed % ReassignInterval # 0)
  /\ UNCHANGED <<fuserMode, attempted, processed, fuserGens>>

\* Mutant: the map is filtered by, and published with, the fuser's generations.
PublishUnderFuserGenerations ==
  /\ wpc = "publish"
  /\ ~inCall
  /\ snapshot' = [ids |-> CurrentOnly(assigned, fuserGens), gens |-> fuserGens]
  /\ wpc' = "task_done"
  /\ UNCHANGED <<queue, unfinished, work, fuserVars>>
  /\ WorkerUnchanged

\* _publish_snapshot.  The map was read from the fuser outside the lock; the
\* generations that filter it are those of the callers, read under it.
Publish ==
  /\ wpc = "publish"
  /\ ~inCall
  /\ snapshot' = [ids |-> CurrentOnly(assigned, gens), gens |-> gens]
  /\ wpc' = "task_done"
  /\ UNCHANGED <<queue, unfinished, work, fuserVars>>
  /\ WorkerUnchanged

\* Mutants of the worker's loop: it also leaves the loop after a liveness
\* attempt; it returns on the stop marker, or continues after a bump, without
\* the task_done.
TaskDoneLeavingEarly ==
  /\ wpc = "task_done"
  /\ unfinished' = unfinished - 1
  /\ wpc' = IF work.kind \in {"stop", "liveness"} THEN "exited" ELSE "get"
  /\ work' = NoWork
  /\ UNCHANGED <<snapshot, queue, fuserVars>>
  /\ WorkerUnchanged

TaskDoneSkipping(kind) ==
  /\ wpc = "task_done"
  /\ unfinished' = IF work.kind = kind THEN unfinished ELSE unfinished - 1
  /\ wpc' = IF work.kind = "stop" THEN "exited" ELSE "get"
  /\ work' = NoWork
  /\ UNCHANGED <<snapshot, queue, fuserVars>>
  /\ WorkerUnchanged

TaskDoneExceptStop == TaskDoneSkipping("stop")
TaskDoneExceptBump == TaskDoneSkipping("bump")

TaskDone ==
  /\ wpc = "task_done"
  /\ unfinished' = unfinished - 1
  /\ wpc' = IF work.kind = "stop" THEN "exited" ELSE "get"
  /\ work' = NoWork
  /\ UNCHANGED <<snapshot, queue, fuserVars>>
  /\ WorkerUnchanged

\* The item in hand raises: the fuser refused it, or fusion or on_desync
\* raised something else.  Nothing reads the fuser after that.
Raise ==
  /\ \/ wpc = "work" /\ Refused(work)
     \/ wpc \in {"work", "publish"} /\ WorkerMayFail
  /\ wpc' = "raising"
  /\ UNCHANGED <<snapshot, queue, unfinished, work, fuserVars>>
  /\ WorkerUnchanged

\* The inner finally, before the outer except.
RaiseTaskDone ==
  /\ wpc = "raising"
  /\ unfinished' = unfinished - 1
  /\ wpc' = "unwinding"
  /\ work' = NoWork
  /\ UNCHANGED <<snapshot, queue, fuserVars>>
  /\ WorkerUnchanged

\* Mutant: task_done is called again where the exception is caught.
RecordFailureTaskDone ==
  /\ wpc = "unwinding"
  /\ failure' = TRUE
  /\ wpc' = "draining"
  /\ unfinished' = unfinished - 1
  /\ UNCHANGED <<inCall, submitVars, snapshot, queue, work, fuserVars, mainVars, surfaced>>

RecordFailure ==
  /\ wpc = "unwinding"
  /\ failure' = TRUE
  /\ wpc' = "draining"
  /\ UNCHANGED <<inCall, submitVars, snapshot, queue, unfinished, work, fuserVars,
                 mainVars, surfaced>>

\* Mutant: the queue is drained without task_done.
DiscardSilently ==
  /\ wpc = "draining"
  /\ queue # <<>>
  /\ queue' = Tail(queue)
  /\ UNCHANGED <<snapshot, unfinished, wpc, work, fuserVars>>
  /\ WorkerUnchanged

\* One round of _discard_queued_work.
Discard ==
  /\ wpc = "draining"
  /\ queue # <<>>
  /\ queue' = Tail(queue)
  /\ unfinished' = unfinished - 1
  /\ UNCHANGED <<snapshot, wpc, work, fuserVars>>
  /\ WorkerUnchanged

DiscardEmpty ==
  /\ wpc = "draining"
  /\ queue = <<>>
  /\ wpc' = "exited"
  /\ UNCHANGED <<snapshot, queue, unfinished, work, fuserVars>>
  /\ WorkerUnchanged

FuseWork == FuseBump \/ FuseLiveness \/ FuseRejectedBatch \/ FuseAcceptedBatch
              \/ FuseObservations \/ FuseStop

Worker == Get \/ FuseWork \/ Publish \/ TaskDone \/ Raise \/ RaiseTaskDone
            \/ RecordFailure \/ Discard \/ DiscardEmpty

-----------------------------------------------------------------------------
(* The main thread. *)

MainUnchanged == UNCHANGED <<inCall, submitVars, snapshot, failure, work, fuserVars>>

Start ==
  /\ mpc = "new"
  /\ mpc' = "running"
  /\ wpc' = "get"
  /\ UNCHANGED <<queue, unfinished, quiesced, json, closed, surfaced>>
  /\ MainUnchanged

\* pipeline.set_state(NULL) returns when no streaming thread is left.
Quiesce ==
  /\ mpc = "running"
  /\ ~quiesced /\ ~inCall
  /\ quiesced' = TRUE
  /\ UNCHANGED <<queue, unfinished, wpc, mpc, json, closed, surfaced>>
  /\ MainUnchanged

\* wait_until_idle: _queue.join() ...
IdleJoin ==
  /\ mpc = "running"
  /\ mpc' = "idle_join"
  /\ UNCHANGED <<queue, unfinished, wpc, quiesced, json, closed, surfaced>>
  /\ MainUnchanged

IdleJoined ==
  /\ mpc = "idle_join"
  /\ unfinished = 0
  /\ mpc' = "idle_check"
  /\ UNCHANGED <<queue, unfinished, wpc, quiesced, json, closed, surfaced>>
  /\ MainUnchanged

\* ... then _raise_worker_failure() raises or returns.
IdleRaises ==
  /\ mpc = "idle_check"
  /\ failure
  /\ surfaced' = TRUE
  /\ mpc' = "running"
  /\ UNCHANGED <<queue, unfinished, wpc, quiesced, json, closed>>
  /\ MainUnchanged

IdleReturns ==
  /\ mpc = "idle_check"
  /\ ~failure
  /\ mpc' = "running"
  /\ UNCHANGED <<queue, unfinished, wpc, quiesced, json, closed, surfaced>>
  /\ MainUnchanged

\* shutdown() of a runtime that was never started.
ShutdownUnstarted ==
  /\ mpc = "new"
  /\ mpc' = "stopped"
  /\ closed' = TRUE
  /\ json' = {processed}
  /\ UNCHANGED <<queue, unfinished, wpc, quiesced, surfaced>>
  /\ MainUnchanged

\* shutdown() looks at the worker once.
ShutdownCheck ==
  /\ mpc = "running"
  /\ mpc' = IF ~failure /\ wpc # "exited" THEN "stop_put" ELSE "thread_join"
  /\ UNCHANGED <<queue, unfinished, wpc, quiesced, json, closed, surfaced>>
  /\ MainUnchanged

ShutdownPut ==
  /\ mpc = "stop_put"
  /\ mpc' = "stop_join"
  /\ Put(StopWork)
  /\ UNCHANGED <<wpc, quiesced, json, closed, surfaced>>
  /\ MainUnchanged

ShutdownJoined ==
  /\ mpc = "stop_join"
  /\ unfinished = 0
  /\ mpc' = "thread_join"
  /\ UNCHANGED <<queue, unfinished, wpc, quiesced, json, closed, surfaced>>
  /\ MainUnchanged

\* Mutant: shutdown() does not wait for the thread.
ShutdownCloseWithoutJoin ==
  /\ mpc = "thread_join"
  /\ mpc' = "stopped"
  /\ closed' = TRUE
  /\ surfaced' = (surfaced \/ failure)
  /\ json' = IF failure THEN json ELSE {processed}
  /\ UNCHANGED <<queue, unfinished, wpc, quiesced>>
  /\ MainUnchanged

\* _thread.join() returned: close, then raise the failure or write the map.
ShutdownClose ==
  /\ mpc = "thread_join"
  /\ wpc = "exited"
  /\ mpc' = "stopped"
  /\ closed' = TRUE
  /\ surfaced' = (surfaced \/ failure)
  /\ json' = IF failure THEN json ELSE {processed}
  /\ UNCHANGED <<queue, unfinished, wpc, quiesced>>
  /\ MainUnchanged

\* Steps of a wait or a shutdown that has begun.
MainProceeds == IdleJoined \/ IdleRaises \/ IdleReturns \/ ShutdownPut
                  \/ ShutdownJoined \/ ShutdownClose

Main == Start \/ Quiesce \/ IdleJoin \/ ShutdownUnstarted \/ ShutdownCheck
          \/ MainProceeds

-----------------------------------------------------------------------------
Next == Call \/ CallRaises \/ FinishCall \/ Worker \/ Main

Spec == Init /\ [][Next]_vars

\* The worker thread keeps running, a caller inside the lock leaves it, a
\* wait or shutdown that began goes on, and the lock, held for microseconds
\* out of every frame interval, does not starve the worker.  Nothing obliges
\* anybody to call.
FairSpec ==
  /\ Spec
  /\ WF_vars(Get) /\ WF_vars(FuseWork) /\ SF_vars(Publish) /\ WF_vars(TaskDone)
  /\ WF_vars(RaiseTaskDone) /\ WF_vars(RecordFailure)
  /\ WF_vars(Discard \/ DiscardEmpty)
  /\ WF_vars(FinishCall)
  /\ WF_vars(MainProceeds)

=============================================================================

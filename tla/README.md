# Formal models of deepstream-rtsp-pipeline

TLA+ specifications of the pipeline: its multi-target multi-camera (MTMC) core, the way of a frame
and its receipt through it, its start, run and shutdown, the container that prepares its models,
and the offline tools that judge its output. They are checked with TLC on small instances, and every
safety property that holds on those instances is also proved with TLAPS, for every value of the constants.
Every definition is translated from the Python source; the correspondence, line by line, is the `map` of
`PROJECT.json`.

Contents: [1 The system](#1-the-system) - [2 Modules](#2-modules-and-their-correspondence-to-the-code) -
[3 Runs](#3-runs-bounds-and-what-they-show) - [4 Proofs](#4-proofs) -
[5 Disagreements](#5-where-code-and-documentation-disagree) - [6 Limits](#6-what-is-not-modelled) -
[7 Plan](#7-plan)

## 1 The system

Several RTSP cameras (or files) are decoded, batched by a GStreamer stream muxer, run through
a detector and a per-camera tracker, and demultiplexed again. A probe behind the tracker hands
each mux batch to the MTMC layer, which gives tracks of different cameras one global identity;
probes on the branches write CSV rows that carry it.

```
 pad callbacks --bump_generation--+
 (streaming threads)              v
 mux probe --submit_batch--> MtmcRuntime --queue--> worker thread --> MtmcFuser
   |  (one streaming thread)   |      ^                                 |
   |                           |      +------- snapshot (id map) -------+
   +--receipt--> FrameReceiptLedger --take--> branch probes (one thread each) --> CSV
 main thread: start, GLib loop, timers, SIGINT, pipeline to NULL, runtime.shutdown
```

### Components: state, operations, hard behaviours, what makes them correct

| component | state | operations | what is hard | correct when |
|---|---|---|---|---|
| **MtmcRuntime** `pipelines/mtmc_runtime.py` | submission counters, generations and mode (under a lock); snapshot; queue and its unfinished count; `_failure`, `_closed`; the worker's position | `submit`, `submit_batch`, `advance_liveness`, `rejected_receipt`, `bump_generation`, `wait_until_idle`, `start`, `shutdown`, worker loop | callers, worker and main thread interleave; `_failure` and `_closed` are written outside the lock callers check them under; failure path drains the queue | receipts are fused once, in order, under their own generations; the snapshot never shows an old generation; joins neither return early nor hang; failures reach a caller |
| **MtmcFuser** `pipelines/mtmc.py` | window of observations, live tracklets, `last_seen`, qualified and public ID maps, counters, whole-run statistics | `observe_batch`, `advance_liveness`, `bump_generation`, `flush_ready`, (legacy `observe`) | several structures trimmed by different formulas; long sequences of accept, reject, reconnect, expiry; ID inheritance | structures agree; IDs never reused, majority kept, one ID per cluster; statistics equal the whole stream |
| **Evidence and clustering** `pipelines/mtmc.py` | none | `_evidence`, `_cluster_qualified`, `_publish_assignments` (pure part) | ties, order-dependent union-find with refusals | one-to-one support; clusters connected, conflict-free, maximal |
| **RtspClockGate** `multi_stream.py:98-143` | sources whose clock has been seen | observe a batch, decide | clocks acquired over several batches, later lost | attempts of a source's rows only grow, and never fall back to none |
| **FrameReceiptLedger** `multi_stream.py:152-205` | bounded FIFO per source, poisoned sources | `record`, `consume` | producer and consumer on different threads; lost frames, overflow | a frame gets its own receipt or none; one loss costs one receipt |
| **Source bins, reconnect detector** `multi_stream.py:67-82,429-557` | linked and active pads, who was disconnected | pad-added, pad-removed | pads of two connections in any order; frames of the old one still in flight | rows are never labelled older than their connection |
| **Pipeline composition** `multi_stream.py:916-1127` | in-flight frames | mux probe, branch probe | reconnects, losses and a failing worker against frames in flight | rows marked accepted are of frames submitted with a complete batch |
| **run()** `multi_stream.py:759-1233`, `pipelines/rtsp.py` | loop, timers, files | start, tick, bus message, signal, shutdown | signals between installation and loop; probes running during the cleanup; a worker that fails while it is joined | every request to end is followed, as far as the runtime lets it; output files and report agree |
| **HealthMonitor, PerfMonitor** `metrics/` | times and counts of frames | `record_frame`, `snapshot`, `record` | written by streaming threads, read by timers that wait in between | what is reported as stalled settles on the sources that are silent; the report counts what was written |
| **Model initialisation** `docker/init_models.py` | files on a bind mount | export, convert, download, launch | death or failure between two steps, restarts, short downloads | launched only with what was asked for and is there |
| **Evaluation** `metrics/evaluate_mtmc.py`, `validate_accuracy.py`, `sweep_conf_threshold.py` | none | load, fuse again, compare, match, score | greedy matching, splits and merges of IDs, rejected and lost rows | evidence is what the run's worker fused; agreement means equal metrics; recall is monotone |
| **Homography fitting** `metrics/fit_homography.py` | calibration files | split, fit, gate, write | files of several runs, killed in between | accepted calibrations were measured on unseen frames |
| ReID tensors, parsing, anonymisation, structured log, export tools, CUDA plugin | none, or device buffers | numerics and formatting | - | outside these models |

Interaction. The mux probe and the pad callbacks call the runtime under `_submission_lock`; the
worker is the only thread that touches the fuser; the branch probes read the published
snapshot without a lock because publication rebinds a complete object. The ledger carries the
receipt of a batch from the mux probe to the branch probes of the same frames. The main thread
sets the pipeline to NULL, so that no streaming thread is left, before it shuts the runtime down.

The full list of hazards, each at the line where it bites and with the properties that would
catch it, is in `PROJECT.json`.

## 2 Modules and their correspondence to the code

| module | models |
|---|---|
| `MtmcRuntime` | `mtmc_runtime.py`: every operation of `MtmcRuntime`, the worker loop, the main thread's use of it |
| `MtmcRuntimeProps` | its properties, and the refinement mapping to `MtmcService` |
| `MtmcService` | abstract specification: what the streaming threads are promised |
| `MtmcRuntimeProofs` | proofs about `MtmcRuntime`, up to its refinement of `MtmcService` |
| `MtmcAssociation` | the pure operators of `mtmc.py`: evidence, clustering, inheritance |
| `MtmcAssociationProps` | those operators evaluated on all small inputs, against what they should compute |
| `FiniteInduction` | induction over finite sets, and the recursion on it, as lemmas for the proofs |
| `ClusteringProofs` | proofs about the operators of `MtmcAssociation`: clusters and assignments |
| `MtmcAssociationProofs` | proofs of the properties in `MtmcAssociationProps` |
| `MtmcFuser` | `MtmcFuser` in atomic mode (the mode the pipeline uses) |
| `MtmcFuserProps` | its properties, and what `MtmcRuntime` assumes of it |
| `MtmcFuserProofs` | proofs about `MtmcFuser` |
| `MtmcSetup` | what `prepare_mtmc` and `load_homography_bindings` accept |
| `SourceBin` | pad callbacks and `StreamReconnectDetector` |
| `RtspClockGate`, `FrameReceiptLedger` | the two classes of `multi_stream.py` of these names |
| `MtmcPipeline` | their composition with the mux probe, the branch probes, the runtime as its callers see it, and frames in flight; `MtmcPipelineProps`: its properties, `MtmcPipelineProofs`: their proofs |
| `HealthMonitor` | `metrics/health_monitor.py` |
| `StreamRun` | `run()` of both pipelines: main thread, loop, signals, probes, cleanup (extends `HealthMonitor`); `StreamRunProps`: its properties |
| `ModelInit` | `docker/init_models.py` |
| `Container` | the container: `ModelInit`, then `StreamRun`; `ContainerProps`: its properties, `ContainerProofs`: the proofs of the safety properties of both |
| `DetectionMatching` | greedy matching and the confidence sweep |
| `MtmcEvaluation` | `evaluate_mtmc.py`: backfill, agreement, metrics |
| `MtmcRecording` | a frame's data from decoder to the worker's queue and to the rows, and the rows back to evidence |
| `HomographyFit` | `fit_homography.py`, and the loading of its files |
| `Evaluations` | the four offline tools side by side (one per behaviour), and their properties; `EvaluationsProofs`: their proofs |
| `MCMtmcRuntime`, `MCMtmcFuser`, `MCMtmcFusion`, `MCMtmcPipeline`, `MCStreamRun`, `MCContainer`, `MCEvaluations` | instances for TLC, with their `.cfg` files |

### MtmcRuntime

*Granularity.* A submission is two steps: `Call` is entering the lock and passing
`_require_running`, then comes the body (`Submit`, `SubmitBatch`, `AdvanceLiveness`,
`RejectedReceipt`, `BumpGeneration`, or `MixedMode` when `_select_submission_mode` raises). The
split is where `_failure` and `_closed`, which the lock does not protect, can change. What a
body does under the lock and the `put` are one step: nobody else reads those fields without
the lock, and the queue has a mutex of its own. The worker's loop is `Get`, one of the `Fuse*`
actions (each the whole branch of the loop, with the fuser call it makes), `Publish` and
`TaskDone`; an exception is `Raise`, `RaiseTaskDone` (the inner `finally`), `RecordFailure`, then
`Discard` per queued item. `shutdown()` is cut at each line another thread can get in between:
`ShutdownCheck`, `ShutdownPut`, `ShutdownJoined`, `ShutdownClose`.

*Abstractions.* An ID map is the set of tracklets it names. In this module a fuser step adds its
own tracklets, may evict any others, and covers all live ones when a reassignment is due;
`RuntimeAbstraction`, checked on `MtmcFuser`, says the real fuser does exactly such steps, with
the same counters and the same intervals. A batch is `complete` or `unusable`, all that
`atomic_batch_rejection_reason` decides. `quiesced` stands for `pipeline.set_state(NULL)`, after
which no streaming thread calls.

*Ghosts.* The counters a `bump` or `observations` item carries are not in the code; only
invariants read them. `surfaced` records that a failure was raised to a caller; `json` the
bucket counts of the shutdown maps written.

### MtmcService

A service with receipts and no threads: `Issue`, `Bump`, `Fuse` (the next receipt only, under its
own generations), `Learn`, `Publish`, `Fail`, `Stop` (only with nothing outstanding). The
mapping (in `MtmcRuntimeProps`) takes the receipts still queued or in hand as `outstanding`, and
a worker that has raised as `failed`.

### MtmcAssociation

Disjoint-set forests are the partition they represent; costs are integers that order the
candidate pairs, with gated pairs outside the domain; affinities are compared as fractions,
while the code divides (equal for the small counts checked; a float tie-break between two
different fractions closer than a rounding error is not modelled). Local trackers are taken to
report an object once per frame. `Clusters` and `Granted` recurse over
sets with recursive functions, in the order the code sorts edges and clusters.

### MtmcFuser

`ObserveBatch`, `RejectBatch`, `AdvanceLiveness`, `BumpGeneration` and `FlushForced` are the calls the
worker makes, each the whole method, with eviction, assignment and publication in it. The
window is a set of rows, one per accepted batch, with the tracklets seen and the pairs that were
mutually nearest; any one-to-one matching per pair of cameras may occur (`Matchings`), because geometry
outside the model decides it. `stream` is a ghost: every row ever accepted. The order checks of
epochs and buckets are not repeated, since `NeverRefused` proves that the worker never trips them.

### MtmcPipeline

The path of a frame is two queues: `upstream` (source bin to mux probe) and `branch` (demux to branch
probe); each entry of the first is the number of the connection it came over. `MuxProbe` takes at most one
frame of each source and has the four outcomes of `_mtmc_probe`: `MuxProbeHolds` (gate not open),
`MuxProbeAges` (open, but a source or its clock is missing), `MuxProbeSubmits`, and `MuxProbeRaises` (the
runtime has failed; the buffer is dropped). It is one step: between `submit_batch` and `record()` no other
thread sees a difference, because its frames reach the branches after both. Frames whose metadata
raises are chosen freely (`bad`), and so is the skew test (`near`). A frame that is recorded and not yet pushed
to its branch counts as on the branch. `BranchLoses` is a frame that never reaches its branch probe.
Ghosts: `connection`, `credit` (losses not yet paid for by a refused frame),
`lastAttempt`, and in each branch frame its `own` receipt, whether it was `submitted` with a complete
batch, and whether its branch was empty when it came. Accepted means submitted and no more: a worker that fails later
discards what is still queued (`MtmcRuntime`'s `Discard`).

### StreamRun, HealthMonitor

`mpc` is the line `run()` stands at, from before `Prepare` (everything up to the signal handlers) through
`RequestPlaying`, the loop and the steps of the `finally` block. Branch probes are three steps (`ProbeCounts`,
`ProbeRecords`, `ProbeWrites`), since timers on the main thread read between them; a health tick is two, because it
reads the clock before it waits for `nvidia-smi`. Python signal handlers run between any two steps of the main
thread. `set_state(NULL)` waits for probes in progress. `single` is the pipeline of `rtsp.py`, which has none
of the timers.

Of the fusion runtime only what `shutdown()` does to the main thread is here. The worker may fail at any time
(`WorkerFails`). After the loop, `RuntimeJoins` is a `shutdown()` that found no failure and joins: it returns if the
worker stays healthy (`RuntimeStops`; `MtmcRuntime`'s `ShutdownReturns` is why), raises the failure (`RuntimeRaises`)
or waits for ever (`RuntimeHangs`, state `hung`: the finding of `runtime_hang`). After a failed start it is called
while streaming threads still run, so it may hang behind a batch even with a healthy worker (`AbortHangs`, state `start_hung`),
or end the process (`AbortEnds`).

### ModelInit, Container

One action for each way a step of the entry point can end: `Skip` (the file exists), `Make`, `MakeFails`,
`ShortDownload`, `DiesWriting`, `ReidUnavailable` (the flag is dropped), and `Restart`. A file is absent, partial or complete:
models are moved into place, `trtexec` writes engines there. `Container`
launches `StreamRun` with the options that are left. The instance follows one source of that run:
`--mtmc` needs two or more, and the others behave alike, because in `StreamRun` nothing relates two sources.

### Evaluations

`DetectionMatching` grows a set of boxes one by one (`Detect`) and evaluates the sweep on it. `MtmcEvaluation`
records tracklets with an arbitrary offline assignment and an arbitrary final map, and compares what is reported for
them; world coordinates are left out, so a ground-plane position is the set of rows that would be averaged.
motmetrics is external: its matching is taken to pair boxes as `match_detections` does, and of its figures the
identity switches stand for all that identities decide. `MtmcRecording` is the only module with the kinds
of boxes that the code treats differently: among them boxes without extent (`flat`), which `project_person_detections`
skips and `prepare_prediction_rows` does not, and boxes whose uncertainty is not a positive number up to the limit
(`vague`), which both refuse at different places. It also has the queue to the worker and the worker's failure, so that what was fused,
what waits and what was discarded are told apart. `HomographyFit` lets every fit be off on any held-out boxes:
with the few boxes of an instance, one such box breaks the 90th percentile. Its report files are left out.

## 3 Runs, bounds and what they show

| run | question | result |
|---|---|---|
| `runtime_safety` | atomic interface, two sources that reconnect once each, three attempts, a worker that may raise anywhere, shutdown and waits at any time: safety, and refinement of `MtmcService` | holds, 1.2 million states |
| `runtime_live` | both interfaces, healthy worker, one source: every attempt is fused, waits and shutdown return (liveness only) | holds, 17 thousand states |
| `runtime_hang` | does a worker failure always reach the caller of `shutdown()`? | **violated** (section 5) |
| `runtime_idle` | does `wait_until_idle()` always report a failure? | **violated** (section 5) |
| `fusion` | all sequences of four attempts with a reconnect and a flush, TTL 2, reassignment every second bucket; and beside them the association's operators: all 3x2 cost matrices with three costs and gating, all supports (up to 3 of 3) and lifetimes of four tracklets in two or three cameras | holds, 737 thousand states |
| `fuser_overlap` | does the live map respect overlapping spans? | **violated** (section 5) |
| `pipeline` | two sources of either clock, one of which loses and regains pads; two or three frames each, ledger limit 2 | holds, 1.6 million states |
| `container` | three command lines, two starts that may fail or die, then a run with every way to end: what is launched, and what is reported | holds, 788 thousand states |
| `run_live` | a run by itself, with signals, messages and faults at any time: a request to end is followed, and health reports settle (liveness only) | holds, 281 thousand states |
| `lost_stop` | does a signal always end the run? | **violated** (section 5) |
| `short_download` | is a downloaded model ever partial? | **violated** (section 5) |
| `evaluations` | sweep: two people, three boxes, three levels; agreement: four tracklets, two frames, two IDs on each side (interchangeable); recording: two cameras, two images, a worker that may fail; fit: two cameras, three boxes in two frames | holds, 386 thousand states |

*Why the bounds are enough.* Runtime: the order checks compare neighbours in the line of items,
so three attempts around two bumps give every pair of neighbours; a second source distinguishes "the
source" from "a source"; reassignment every second bucket lets a map survive both an
assignment and none. `MaxQueue` bounds only the legacy `submit`; it is 0 in `runtime_safety`, so
the legacy interface is exercised in `runtime_live`. Its safety and its refinement of `MtmcService` are
not checked by TLC but proved together with the atomic interface's (section 4): no theorem assumes anything of `MaxQueue`
but that it is a number.
Fuser: TTL 2 within four attempts lets tracklets be seen, expire, and return under the same key
or, after a reconnect, under another; three tracklets, two of one camera, is the smallest
instance with a conflict and a bridge. Reassignment every second bucket gives evictions between assignments,
an assignment that follows an expiry, and a flush with or without an unfinished interval. Association: four
tracklets is the smallest set with a chain through a third camera.
Pipeline: a limit of 2 with three frames overflows while a frame is on the branch, and leaves one more
frame to show how the ledger falls back into step; the second source (with two frames, and pads that stay) is there for
incomplete batches and for what a receipt says of another source. One reconnect and two pad names, which are
interchangeable (`Symmetry`), give a new pad while the old one is linked. Container: with two starts, whatever the first leaves meets every path
of the second; one frame is enough to be on its way while the clean-up runs. A run by itself: two frames
and two units of time let a source stall, come back and stall again, and a frame arrive between the two halves of a
health tick; one source, because no step of `StreamRun` relates two. Evaluations: two
people and three boxes let one box take the place of another; four tracklets of two people in two cameras, one
tracker ID given out twice, make splits, merges and a repeated identity; three boxes in two frames
is the smallest set where holding out boxes differs from holding out frames.

*What the properties say.* Safety of the runtime: `SequencingNeverRefused`,
`FusedUnderReceiptGenerations`, `SnapshotNeverStale`, `NoIdBeforeBumpApplied`, `UnfinishedMatchesWork`,
`ShutdownMapComplete`, `LineInv`, and `ImplementsService`. Liveness: `AttemptsReachFuser`,
`ShutdownReturns`, `IdleReturnsOrRaises`. Fuser: `WindowMatchesLive`, `PublicMapInStep`,
`HistoryMatchesStream`, `AuthoritativeSeparatesOverlaps`, `IdsNeverReused`, `OneIdPerCluster`, `MajorityIdKept`
(an uncontested majority: when two clusters claim one ID the ranking decides), `RuntimeAbstraction`.
Association: `SupportWithinGreedy`, `ClustersSound`, `ClustersMaximal`, `StrongestPairJoined`.
Pipeline: `OwnReceiptOrNone`, `LossCostsOneDrainedFrame`, `RowGenerationNotOlder`, `AcceptedRowWasSubmitted`,
`AttemptsOnlyGrow`, and `TypeOK` with the ledger's limit. Container: `EnginesInPlace`,
`ReportMatchesCsv`. A run by itself: `EndRequestEndsRun`, `StalledReportSettles` (liveness). Offline tools: `RecallFallsWithThreshold`,
`AgreementPreservesMetrics`, `OfflineUsesOnlineEvidence`, `StartsOnWellMeasured`. Each is stated in words
above its definition, and each has a mutant of the code in `PROJECT.json` that violates it.

*Fairness.* `FairSpec` of `MtmcRuntime`: the worker thread is scheduled (`WF` on its steps), a caller
inside the lock leaves it (`WF` on `FinishCall`: no body blocks, the queue is unbounded), a wait or
shutdown that began continues (`WF` on `MainProceeds`). `Publish` needs the lock, which callers may
take again and again; it has `SF` because the lock is held for microseconds out of a frame
interval of tens of milliseconds, and a Python lock wakes its waiters. Nothing obliges anyone to
call, to stop the pipeline or to shut down. The safety runs use no fairness; the liveness
counterexample of `runtime_hang` is under `FairSpec`. The fuser is passive and has no liveness.

`RunFairness` of `StreamRun`: the main thread goes on (`WF` on `Main`), and a probe that began ends (`WF` on
`ProbesEnd`). `WF` on `Main` takes it that `nvidia-smi` answers and that `set_state` returns once no probe is running, which
the repository neither ensures nor limits in time. It does not take it that the runtime's `shutdown()` returns: with a
failed worker, or after a failed start, going on may be going to `hung` or `start_hung`, and `EndRequestEndsRun` names these
ends. Only for a healthy worker and stopped streaming threads is returning assumed, which `MtmcRuntime`'s
`ShutdownReturns` shows. Inside the
loop the bus, the duration timer and `quit()` have `SF`, and the health timer, which is always due again, `WF`:
GLib dispatches all ready sources of one priority in every iteration, so that timers which come again and again cannot starve
the others. Nothing obliges a source to end, a signal to arrive or a fault to happen. Pipeline, container and evaluations are
checked for safety only.

*Deadlock.* All cfgs disable the check: the system may stop (the runtime after shutdown,
the bounded fuser after its last attempt, or an evaluation of the association, the pipeline when its
frames are used up, a container that was started as often as the bound allows, a tool that is done). That
waits do not hang is what the liveness properties are for.

## 4 Proofs

`tlapm` checks every proof, for any number of sources, objects, frames, attempts and reconnects, with or without
failures. All safety properties of the passing runs are stated by a theorem. The theorems rest on nothing but the
named assumptions on the constants:

| assumption | says | because |
|---|---|---|
| `SourceAssumption` | sources are finite, and not none (`MtmcSetup`: two or more) | `prepare_mtmc` refuses fewer |
| `IntervalAssumption`, `ConfigAssumption`, `ThresholdAssumption` | intervals and the TTL are positive, thresholds are numbers | `prepare_mtmc` checks the interval and the affinity; the others have no option, only a default |
| `DetectionAssumption`, `InputAssumption` | the detections of a source, and the inputs of one clustering, are finite; their fields are numbers | lists in the code |
| `PendingAssumption` | the ledger's limit is positive | `FrameReceiptLedger.__init__` |
| `PadAssumption`, `ReceiptAssumption` | the values for "no pad" and "no receipt" are none of the others | `None` in the code |
| `StreamAssumption`, `ModelInitAssumption` | there is a source; the command lines are made of known flags | the parsers |
| `SweepAssumption`, `FitAssumption` | true boxes are finite; a fit needs at least one point | a list; the code needs four |
| `EvaluationAssumption` | source IDs have one digit; rows and frames are finite; a global ID is never the number that stands for a missing one | `_pooled_frame` refuses more; lists; global IDs are counted from 1, the others are not positive |
| `FailAssumption`, `BoundAssumption` | a flag is Boolean, bounds are numbers | bounds of the model |

**FiniteInduction.** The recursive definitions of the models (`Clusters`, `Granted`, `Matches`, the greedy matching of the association) go through
a finite set, one element less each time. What they compute is proved by the smallest counterexample, which needs
no induction over an operator: `LeastNumber` and `SmallestSet` give one, `LastExists` says that a finite
set with an order has a last element (the one the recursion takes off), and `RecursionExists` that
a function with such equations exists, so that the `CHOOSE` behind a recursive function finds it.

**ClusteringProofs**, for any tracklets with any statistics:

- *Clusters.* The edges are ordered strictly (`StrongerOrder`; the affinities are fractions compared by cross
  multiplication). What the loop has after any number of edges is a partition (`Partition`) that separates conflicting
  tracklets (`Separate`), holds each of its clusters together by edges (`Held`), and has joined every edge tried so far
  unless a conflict forbade it (`Exhausted`). `Merged...` show that one `Unite` keeps each of the four,
  `ClustersAre` what is left at the end.
- *Assignments.* `AssignmentIs`: clusters take their turns in the order of their rank, each gets the ID it
  prefers among those not taken or a new number, so no two get the same and the IDs of an uncontested majority stay.

**MtmcAssociationProofs**: mutually nearest pairs are pairs the greedy matching takes too (`SupportGreedy`: a
pair nearest for both sides meets no used row or column when its turn comes), and the clustering is sound, maximal, and
joins its strongest pair (`ClusterSoundness`, `ClusterMaximality`, `StrongestJoined`).

**MtmcFuserProofs**:

- `WindowInStep` (from `WindowInv`): the window, the live set and `last_seen` describe the same tracklets. Inductive once
  rows are known not to lie in the future; `RowAdded` and `Trimmed` carry the two halves of a step.
- `PublicMapCurrent` (`PublicInv`): the public map equals the qualified map seen through the current generations.
  Needs that the qualified map is a map after each assignment.
- `HistoryComplete` (`HInv`): the incremental statistics equal those of the whole stream, so that evicting rows
  loses nothing for the authoritative map. The strengthening: the stream is finite, its
  buckets are at most the counter (so that a new row is new), and each tracklet's buckets have
  least and greatest elements.
- `AuthoritativeSeparates` (`EvidenceInv`): the authoritative map never joins two tracklets of a camera that overlapped,
  because all lifetimes it compares are those of the whole run.
- `NoIdReused`, `OneIdEach`, `MajorityKept`, `RuntimePicture` are action properties: `FuserInv` adds to the window that
  issued numbers are below the counter and not shared (`IssuedInv`), and each step is shown to end in an idle map, or
  in the assignment `AssignmentIs` describes. `TypeCorrect` follows from the same.

**MtmcRuntimeProofs**:

- `TypeCorrect` and `JoinWaitsForAllWork`. That `unfinished_tasks` stays a natural number needs the
  accounting, and the accounting needs the types, so `Accounting` proves them together
  (with the fact that before `start()` the worker is absent).
- `Inductive`: `IInv == TypeOK /\ LineInv /\ SnapshotNeverStale`. `SequencingNeverRefused` speaks of the item
  in hand only and is not inductive. `LineInv` is its strengthening: the fuser's counters, the
  item in hand, each queued item and the submission counters form one line in which every item
  carries the values right after its predecessor's. A `put` extends the line at its
  end (`LineAppend`), a `get` shortens it at its head (`LineTail`), a fuser step moves its start
  (`FuseReachesMark`). From it follow `LineUnbroken`, `NeverRefused`, `ReceiptGenerations` and `SnapshotCurrent`.
- `NoIdEarly`. The snapshot gets an ID of a new generation only through the worker. `NumbersGrow`: generations
  and attempts rise along the queue and are at most the submission counters; `MadeByFuser`: what the fuser knows
  is not newer than its own generations, which lag behind the callers'.
- `ShutdownComplete` (`ShutdownInv`): once the pipeline is quiet nobody puts work behind the stop marker, so the worker that
  takes it has fused every bucket counted before.
- `Implementation`: `Spec => ImplementsService`, the initial state by itself and the steps one by one
  (`CallServes`, `MainServes`, `WorkerServes`). The receipts outstanding are those in the queue with the one in
  hand before them; that the receipt fused is the next one, under its own generations, is `LineInv`; that a
  stopped service owes nothing is `ShutdownInv`.

**MtmcPipelineProofs**:

- `TypeCorrect`, with the ledger's limit, and that a poisoned source has an entry left.
- `ReceiptsAreOwn`. What was lost from the ledger's queue may still be on the branch and the other way round, so
  their lengths say nothing. `InStep` says what remains true of the two lists: one number carries the same receipt in
  both, the ledger's numbers rise, while neither list is empty they end with the same frame, and a frame that found
  its branch empty is at the head of it (`AloneAtHead`). Both lists only lose entries at the head and gain them at the
  end (`InStepSuffix`, `InStepAppend`), so every step of the pipeline keeps it.
- `AcceptedRowsSubmitted` (`AcceptedAreSubmitted`): a frame whose receipt is accepted was submitted with it.
- `LossesPaidOnce` (`CreditCovers`): a frame that will be refused although it found its branch drained, or a receipt that will cause
  that, is on credit of a loss not paid for before.
- `AttemptsGrow`: attempts rise along a branch (`AttemptsInOrder`), and none is given out before the source's clock was
  seen (`AttemptsNeedClocks`), which is never forgotten.
- `GenerationsNotOlder` (`GenerationsInv`): the runtime counts a reconnect exactly when a pad is linked that is not the
  source's first, so a receipt's generation is at most one behind the connections made before it. The pads of two
  connections come and go in any order, so the invariant also says what the pad callbacks remember (`ConnectionsSeen`).

**ContainerProofs**: `ReportCorrect` (`RunInv`: no probe is running once `set_state(NULL)` has returned, and the
counts are the rows written plus those of the probe under way); `EnginesReady` (`ModelInv`: what has to be
there at each step of the entry point).

**EvaluationsProofs**:

- `WellMeasured` (`FitInv`): every whole calibration file passed the gate, on boxes of frames it was not fitted to.
- `SameEvidence`: rows loaded again are observations given to the worker, each of which is queued, fused or discarded
  (`Given`), and every observation fused is in a row, in flight, or of a frame whose receipt was lost (`Sound`).
- `RecallFalls`. The pairs the greedy loop takes are stable: every candidate left out shares a box with a taken pair tried
  before it (`MatchesStable`). A true box matched among fewer detections stays matched
  among more: otherwise the pair tried first among those lost would have been pushed out by a pair that
  lost a box itself (`MatchedStays`).
- `AgreementSound`. Full agreement makes the IDs of the two sides a renaming of each other (`AgreementNames`); every
  metric counts over sets that the renaming maps one to one (`SwitchesSame`, `PooledSame`, `CrossCameraSame`).

*Model-checked only.* Liveness, which the prover does not reach: `AttemptsReachFuser`, `ShutdownReturns`,
`IdleReturnsOrRaises`, `EndRequestEndsRun` and `StalledReportSettles`.
The runs that expect a violation are counterexamples and have no theorem.

## 5 Where code and documentation disagree

1. `runtime_hang`. `shutdown()` tests `self._failure is None and self._thread.is_alive()`
   (`mtmc_runtime.py:237`) and then puts `_STOP` and joins the queue. A worker that raises and finishes
   draining in between never takes the marker: `join()` waits for ever, the failure is never raised.
   The handler's comment is "surface worker failures to caller" (`mtmc_runtime.py:296`).
2. `runtime_idle`. The inner `finally` calls `task_done()` (line 295) before the outer `except` sets
   `_failure` (line 297), so `wait_until_idle()` can be woken in between and return normally although
   the item it waited for raised.
3. `fuser_overlap`. `MILESTONES.md:258` forbids "merging temporally overlapping tracklets from the same
   camera". The live map is clustered with lifetimes from the TTL-bounded window, so two
   tracklets of one camera whose spans overlapped share an ID once the overlap has left the window.
   The authoritative map does not (`AuthoritativeSeparatesOverlaps`).

4. `lost_stop`. The signal handlers are installed before `set_state(PLAYING)`, which loads engines for
   seconds. A signal in that time logs `pipeline_stop` and calls `loop.quit()` (`multi_stream.py:1202`) on a loop
   that is not running, and `loop.run()` starts afterwards. `docs/failure-mode-playbook.md:22` promises a clean
   shutdown. EOS and ERROR messages posted early are not lost: they wait on the bus, and end
   the run in every way but those of finding 1 (`EndRequestEndsRun`).
5. `short_download`. `_download_file` says "atomically so an interrupted fetch is never reused"
   (`docker/init_models.py:39`). `copyfileobj` returns without an error when the connection is closed early, the
   truncated file is moved into place, and every later start skips the download.

Two more are read in the code and have no run. The docstring of `HealthMonitor` (`health_monitor.py:18`) says
that `record_frame()` and `snapshot()` run on one thread; the branch probes call the first on streaming threads
(`multi_stream.py:1107`). The model has it so, and `StalledReportSettles` holds in spite of it. And the runtime refuses boxes without
extent (`mtmc_runtime.py:417`), which the evaluator projects (`evaluate_mtmc.py:231`): `OfflineUsesOnlineEvidence` sets
their rows aside (`Solid`).

## 6 What is not modelled

- The legacy mode of the fuser (`observe`, timestamp buckets, skew check at flush): the pipeline never
  uses it; `MtmcRuntime` has it abstractly.
- In `MtmcFuser` the embedding cache (it follows `last_seen` and feeds only the costs) and the statistics
  counters.
- GStreamer and DeepStream beyond what the code relies on: when pads appear, that queues keep the order of a
  branch's frames, that `set_state(NULL)` waits for streaming threads, what is posted on the bus.
- A second `shutdown()` of a closed runtime (`mtmc_runtime.py:230-234`): `run()` calls it once on each path.
- Exceptions raised inside the branch probe (`multi_stream.py:1071-1120`), other than for a closed file.
- The order of a pipeline's elements and where the probes sit: fixed where it is built, no state decides it.
- Of the health report, the age of the last detection and the rolling frame rate.
- The correspondences motmetrics keeps from frame to frame by ID (`evaluate_tracker.py:116-154`).
- Numerics: projection, uncertainty, appearance distances, averages, rates, percentiles. Their outcomes are
  free choices where control depends on them.
- Parsing and formatting of files, command lines, CSV fields and log records; OSD labels, blurring, re-streaming.
- `profile_decode.py`, `model_gate.py`, `compare_engines`, the fusion parameter sweep: loops or threshold tests over
  numbers computed elsewhere. Notebooks and shell scripts; the CUDA plugin and what external tools build.

## 7 Plan

1. *Done:* `MtmcRuntime`, `MtmcService`, `MtmcAssociation`, `MtmcFuser`; `MtmcPipeline` and
   its parts; `StreamRun`, `Container` and their parts; `Evaluations` and its parts.
2. *Done:* proofs of every safety property of the passing runs, and of the refinement of `MtmcService`.
3. An abstract specification of the ledger and the branch it serves (a frame gets its receipt or none, a loss costs one),
   with `MtmcPipeline` shown to implement it: the invariants of `MtmcPipelineProofs` are what its mapping needs.
4. A module for the legacy buckets of the fuser, should the pipeline ever use them.

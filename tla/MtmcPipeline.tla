---------------------------- MODULE MtmcPipeline ----------------------------
(***************************************************************************)
(* pipelines/multi_stream.py: the MTMC path of a frame, from the source    *)
(* bin through the mux probe and the per-source branch to its CSV rows.    *)
(*                                                                         *)
(*   source bin -> mux, nvinfer, nvtracker, (reid) -> MuxProbe             *)
(*              -> demux -> branch queue -> BranchProbe -> CSV             *)
(*                                                                         *)
(* The mux probe runs on the shared streaming thread, each branch probe on *)
(* its branch's thread, pad callbacks on the source's thread, and the      *)
(* fusion worker may fail at any time.  MtmcRuntime models what the        *)
(* runtime does with the work; here it is what its callers see of it: the  *)
(* counters and generations a receipt is made of, and _require_running.    *)
(* MuxProbe is one step: between its two calls, submit_batch and record(), *)
(* no other thread can tell the difference, because its frames reach the   *)
(* branches after both.  A batch has at most one frame of a source; what   *)
(* the runtime makes of other batches is in MtmcRuntime.                   *)
(***************************************************************************)
EXTENDS SourceBin, RtspClockGate, FrameReceiptLedger, Integers

CONSTANTS
  MaxFrames,     \* bound: frames decoded of each source
  MaxUpstream,   \* bound: frames of one source before the mux probe at a time
  MaxReconnects, \* bound: reconnects of a source
  Unsteady       \* bound: the sources whose pads change after the first link

VARIABLES
  clock,        \* file or rtsp: is there a clock gate?
  connection,   \* how many times a pad was linked (counted here only)
  upstream,     \* frames before the mux probe, by the connection they came over
  nextNum,      \* frame_num nvstreammux gives a source's next frame
  attempts,     \* MtmcRuntime._submitted_attempts
  buckets,      \* MtmcRuntime._submitted_association_buckets
  gens,         \* MtmcRuntime._generations
  failed,       \* MtmcRuntime._failure is not None
  branch,       \* recorded frames that have not reached their branch probe
  credit,       \* losses of a source not yet followed by a refused frame
  lastAttempt   \* attempt_epoch of the last receipt a source's rows were made from

runtimeVars == <<attempts, buckets, gens, failed>>
vars == <<binVars, ready, ledgerVars, runtimeVars, clock, connection, upstream,
          nextNum, branch, credit, lastAttempt>>

Init ==
  /\ BinInit /\ GateInit /\ LedgerInit
  /\ \E uris \in [Source -> Clock] : Prepared(uris) /\ clock = ClockOf(uris)
  /\ connection = [s \in Source |-> 0]
  /\ upstream = [s \in Source |-> <<>>]
  /\ nextNum = [s \in Source |-> 0]
  /\ attempts = 0
  /\ buckets = 0
  /\ gens = [s \in Source |-> 0]
  /\ failed = FALSE
  /\ branch = [s \in Source |-> <<>>]
  /\ credit = [s \in Source |-> 0]
  /\ lastAttempt = [s \in Source |-> 0]

-----------------------------------------------------------------------------
(* The sources. *)

FlowUnchanged == UNCHANGED <<ready, ledgerVars, attempts, buckets, failed, clock,
                             upstream, nextNum, branch, credit, lastAttempt>>

Connects(s) ==
  /\ connection[s] <= MaxReconnects
  /\ connection' = [connection EXCEPT ![s] = @ + 1]

\* A file demuxer's pad.
FileConnects(s, p) ==
  /\ clock = "file"
  /\ Connects(s)
  /\ FilePadLinked(s, p)
  /\ UNCHANGED gens
  /\ FlowUnchanged

\* An rtspsrc pad is linked; on a reconnect the runtime's generation is bumped,
\* unless bump_generation raises because the worker has failed.
RtspConnects(s, p) ==
  /\ clock = "rtsp"
  /\ Connects(s)
  /\ PadLinked(s, p)
  /\ gens' = IF IsReconnect(s) /\ ~failed THEN [gens EXCEPT ![s] = @ + 1] ELSE gens
  /\ FlowUnchanged

OtherPad(s, p) ==
  /\ s \in Unsteady
  /\ PadIgnored(s, p)
  /\ UNCHANGED <<gens, connection>>
  /\ FlowUnchanged

RtspPadRemoved(s, p) ==
  /\ clock = "rtsp" /\ s \in Unsteady
  /\ PadRemoved(s, p)
  /\ UNCHANGED <<gens, connection>>
  /\ FlowUnchanged

\* A linked source delivers one more frame towards the mux.
Decode(s) ==
  /\ linked[s] # NoPad
  /\ nextNum[s] + Len(upstream[s]) < MaxFrames[s] /\ Len(upstream[s]) < MaxUpstream
  /\ upstream' = [upstream EXCEPT ![s] = Append(@, connection[s])]
  /\ UNCHANGED <<binVars, ready, ledgerVars, runtimeVars, clock, connection, nextNum,
                 branch, credit, lastAttempt>>

-----------------------------------------------------------------------------
(* The mux probe. *)

\* A batch of one frame of each of the sources in it reaches the probe.
TakesBatch(batch) ==
  /\ batch # {} /\ \A s \in batch : upstream[s] # <<>>
  /\ upstream' = [s \in Source |-> IF s \in batch THEN Tail(upstream[s]) ELSE upstream[s]]
  /\ nextNum' = [s \in Source |-> IF s \in batch THEN nextNum[s] + 1 ELSE nextNum[s]]
  /\ UNCHANGED <<binVars, gens, failed, clock, connection, lastAttempt>>

\* MtmcBatchReceipt; attempt or bucket 0 is None.
Receipt(attempt, bucket) ==
  [attempt |-> attempt, bucket |-> bucket, accepted |-> bucket # 0, gens |-> gens]

\* The receipt is recorded for the batch's frames, which then go to their
\* branches: a frame is on its branch from here, though the thread that recorded
\* it has yet to push it through the demux.  No probe of a later frame runs
\* before it does.  "submitted" are the frames whose observations submit_batch
\* was given.  own, submitted and alone (did it find its branch empty?) are not
\* in the code.
HandsOver(batch, receipt, submitted) ==
  /\ Record([s \in batch |-> nextNum[s]], receipt)
  /\ branch' = [s \in Source |->
       IF s \notin batch THEN branch[s]
       ELSE Append(branch[s], [num |-> nextNum[s], connection |-> Head(upstream[s]),
                               own |-> receipt, submitted |-> s \in submitted,
                               alone |-> branch[s] = <<>>])]
  /\ credit' = [s \in Source |-> IF s \in batch /\ Full(s) THEN credit[s] + 1
                                                           ELSE credit[s]]

\* The gate of an RTSP pipeline; a file pipeline has none.
Gated(batch, clocks) ==
  IF clock = "rtsp" THEN ObserveBatch(clocks) ELSE clocks = batch /\ UNCHANGED ready

\* rejected_receipt(): not every source has had a clock before this batch.
MuxProbeHolds(batch, clocks) ==
  /\ clock = "rtsp" /\ ~GateOpen /\ ~failed
  /\ TakesBatch(batch)
  /\ Gated(batch, clocks)
  /\ HandsOver(batch, Receipt(0, 0), {})
  /\ UNCHANGED <<attempts, buckets>>

\* advance_liveness(): the gate is open, but a source or its clock is missing.
MuxProbeAges(batch, clocks) ==
  /\ clock = "rtsp" /\ GateOpen /\ ~failed
  /\ ~FusesBatch(batch, clocks)
  /\ TakesBatch(batch)
  /\ Gated(batch, clocks)
  /\ attempts' = attempts + 1
  /\ HandsOver(batch, Receipt(attempts', 0), {})
  /\ UNCHANGED buckets

\* Mutant: the sources of the batch are counted, not the frames submitted.
CompleteBatch(batch, submitted) == batch = Source

\* atomic_batch_rejection_reason, on the frames that are submitted.
Complete(batch, submitted) == submitted = Source

\* submit_batch(): frames whose metadata raised are left out of it; `near` is
\* the test of their timestamps against the skew limit.
MuxProbeSubmits(batch, clocks, bad, near) ==
  /\ ~failed
  /\ clock = "rtsp" => FusesBatch(batch, clocks)
  /\ TakesBatch(batch)
  /\ Gated(batch, clocks)
  /\ attempts' = attempts + 1
  /\ buckets' = IF Complete(batch, batch \ bad) /\ near THEN buckets + 1 ELSE buckets
  /\ HandsOver(batch, Receipt(attempts', IF buckets' # buckets THEN buckets' ELSE 0),
               batch \ bad)

\* The runtime has failed: _require_running raises through the probe, after the
\* gate has seen the batch, and the bindings drop the buffer.
MuxProbeRaises(batch, clocks) ==
  /\ failed
  /\ TakesBatch(batch)
  /\ Gated(batch, clocks)
  /\ UNCHANGED <<ledgerVars, attempts, buckets, branch, credit>>

MuxProbe(batch) ==
  \E clocks \in SUBSET batch :
    \/ MuxProbeHolds(batch, clocks)
    \/ MuxProbeAges(batch, clocks)
    \/ \E bad \in SUBSET batch, near \in BOOLEAN : MuxProbeSubmits(batch, clocks, bad, near)
    \/ MuxProbeRaises(batch, clocks)

-----------------------------------------------------------------------------
(* The branches. *)

\* A frame is lost between the mux probe and the branch probe.
BranchLoses(s) ==
  /\ branch[s] # <<>>
  /\ branch' = [branch EXCEPT ![s] = Tail(@)]
  /\ credit' = [credit EXCEPT ![s] = @ + 1]
  /\ UNCHANGED <<binVars, ready, ledgerVars, runtimeVars, clock, connection, upstream,
                 nextNum, lastAttempt>>

\* _probe: the frame's receipt, or generation -1 and no identities, for its rows.
BranchProbe(s) ==
  /\ branch[s] # <<>>
  /\ LET frame == Head(branch[s])  receipt == Taken(s, frame.num) IN
       /\ Consume(s, frame.num)
       /\ lastAttempt' = IF receipt = NoReceipt THEN lastAttempt
                         ELSE [lastAttempt EXCEPT ![s] = receipt.attempt]
       /\ credit' = IF receipt = NoReceipt /\ frame.alone
                      THEN [credit EXCEPT ![s] = @ - 1] ELSE credit
  /\ branch' = [branch EXCEPT ![s] = Tail(@)]
  /\ UNCHANGED <<binVars, ready, runtimeVars, clock, connection, upstream, nextNum>>

-----------------------------------------------------------------------------
\* The fusion worker raises.
WorkerFails ==
  /\ ~failed
  /\ failed' = TRUE
  /\ UNCHANGED <<binVars, ready, ledgerVars, attempts, buckets, gens, clock, connection,
                 upstream, nextNum, branch, credit, lastAttempt>>

Next ==
  \/ \E s \in Source :
       \/ \E p \in PadName : \/ FileConnects(s, p) \/ RtspConnects(s, p)
                             \/ OtherPad(s, p) \/ RtspPadRemoved(s, p)
       \/ Decode(s) \/ BranchLoses(s) \/ BranchProbe(s)
  \/ \E batch \in SUBSET Source : MuxProbe(batch)
  \/ WorkerFails

Spec == Init /\ [][Next]_vars

=============================================================================

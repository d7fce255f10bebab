------------------------------ MODULE StreamRun ------------------------------
(***************************************************************************)
(* run() of pipelines/multi_stream.py and of pipelines/rtsp.py: how a run  *)
(* starts, what its main loop dispatches, and how it ends.                 *)
(*                                                                         *)
(* The main thread sets everything up, asks GStreamer for PLAYING, runs    *)
(* the GLib main loop and cleans up.  Streaming threads, one per branch,   *)
(* run the branch probe from the moment PLAYING is requested until         *)
(* set_state(NULL) returns; that call waits for a probe in progress.       *)
(* Signal handlers run on the main thread, whatever it is doing.  What the *)
(* probe does with receipts is in MtmcPipeline, what the fusion worker     *)
(* does in MtmcRuntime: of its shutdown() only the outcome matters here.   *)
(***************************************************************************)
EXTENDS HealthMonitor

CONSTANTS
  MaxFrames,   \* bound: frames of one source in a run
  MaxTime      \* bound: time

ASSUME StreamAssumption == Source # {} /\ LivenessWindow \in Nat

\* What the command line decides about a run.  "single" is rtsp.py: one source,
\* no monitoring, no fusion, no --duration.
Options == [single : BOOLEAN, mtmc : BOOLEAN, appearance : BOOLEAN, perf : BOOLEAN,
            duration : BOOLEAN]

VARIABLES
  mpc,        \* where the main thread stands
  options,    \* MultiStreamConfig
  quit,       \* loop.quit() was called on the running loop
  posted,     \* the message on the bus that ends the run: none, eos or error
  elapsed,    \* the --duration timer has fired
  stopped,    \* a signal handler has run
  probe,      \* how far each source's branch probe is with the frame in hand
  counts,     \* frame_counts
  written,    \* frames of each source whose rows are in its CSV file
  open,       \* the CSV files are open
  now,        \* time.monotonic()
  tickTime,   \* t_now of the health tick in progress
  stalled,    \* sources the last health tick reported as stalled
  failed,     \* the fusion worker has raised
  report      \* frame_counts of the last perf sample; all Never: no sample

endVars    == <<quit, posted, elapsed, stopped>>
probeVars  == <<probe, counts, written, lastFrame>>
healthVars == <<now, tickTime, stalled>>
runVars    == <<mpc, options, endVars, probeVars, healthVars, open, failed, report>>

NoReport == [s \in Source |-> Never]

RunInit ==
  /\ mpc = "off"
  /\ options \in Options
  /\ quit = FALSE /\ posted = "none" /\ elapsed = FALSE /\ stopped = FALSE
  /\ probe = [s \in Source |-> "idle"]
  /\ counts = [s \in Source |-> 0]
  /\ written = [s \in Source |-> 0]
  /\ open = FALSE /\ failed = FALSE
  /\ now = 0 /\ tickTime = 0 /\ stalled = {}
  /\ report = NoReport
  /\ HealthInit

\* The sources of this run.
Streams == IF options.single THEN {CHOOSE s \in Source : TRUE} ELSE Source

\* The streaming threads run.
Streaming ==
  /\ mpc \in {"starting", "started", "looping", "health", "null", "aborting", "start_hung"}
  /\ posted # "eos"

-----------------------------------------------------------------------------
(* The main thread: start. *)

\* Everything up to the installation of the signal handlers.
Prepare(config) ==
  /\ mpc = "off"
  /\ mpc' = "ready"
  /\ options' = config
  /\ open' = TRUE
  /\ UNCHANGED <<endVars, probeVars, healthVars, failed, report>>

\* The main thread moves on and changes nothing else.
Moves(from, to) ==
  /\ mpc = from
  /\ mpc' = to
  /\ UNCHANGED <<options, endVars, probeVars, healthVars, open, failed, report>>

\* set_state(PLAYING): loads the engines and starts the streaming threads.
RequestPlaying == Moves("ready", "starting")

\* It returns FAILURE.  With fusion the runtime is shut down before RuntimeError
\* ends the process, ...
PlayingFails == Moves("starting", IF options.mtmc THEN "aborting" ELSE "crashed")

\* ... which it does when shutdown() returns, or raises a failure of its own.
AbortEnds == Moves("aborting", "crashed")

\* shutdown() waits for ever: nothing stopped the streaming threads, so a batch may
\* be queued behind its stop marker, or the worker raises while it joins.
AbortHangs == Moves("aborting", "start_hung")

PlayingSucceeds == Moves("starting", "started")

\* loop.run() forgets any quit() that came before it.
EnterLoop == Moves("started", "looping")

-----------------------------------------------------------------------------
(* What the loop dispatches. *)

\* PerfMonitor.record copies frame_counts; summary() reads the last copy.
RecordSample == report' = counts

\* _perf_tick
PerfTick ==
  /\ mpc = "looping" /\ options.perf
  /\ RecordSample
  /\ UNCHANGED <<mpc, options, endVars, probeVars, healthVars, open, failed>>

\* Mutant: t_now is read once, when the timer is set up.
HealthTickStale ==
  /\ mpc = "looping" /\ ~options.single
  /\ mpc' = "health"
  /\ UNCHANGED <<options, endVars, probeVars, healthVars, open, failed, report>>

\* _health_tick takes t_now, then asks nvidia-smi for the memory in use ...
HealthTick ==
  /\ mpc = "looping" /\ ~options.single
  /\ mpc' = "health"
  /\ tickTime' = now
  /\ UNCHANGED <<options, endVars, probeVars, now, stalled, open, failed, report>>

\* ... and then looks at what the probes recorded.
HealthSnapshot ==
  /\ mpc = "health"
  /\ mpc' = "looping"
  /\ stalled' = {s \in Source : ~IsLive(s, tickTime)}
  /\ UNCHANGED <<options, endVars, probeVars, now, tickTime, open, failed, report>>

\* _on_duration_timeout, once
DurationElapses ==
  /\ mpc = "looping" /\ options.duration /\ ~elapsed
  /\ elapsed' = TRUE
  /\ quit' = TRUE
  /\ UNCHANGED <<mpc, options, posted, stopped, probeVars, healthVars, open, failed, report>>

\* Mutant: an ERROR is only logged.
OnMessageEosOnly ==
  /\ mpc = "looping" /\ posted = "eos"
  /\ quit' = TRUE
  /\ UNCHANGED <<mpc, options, posted, elapsed, stopped, probeVars, healthVars, open, failed, report>>

\* _on_message: the message waited on the bus if the loop was not running yet.
OnMessage ==
  /\ mpc = "looping" /\ posted # "none"
  /\ quit' = TRUE
  /\ UNCHANGED <<mpc, options, posted, elapsed, stopped, probeVars, healthVars, open, failed, report>>

\* _on_sigint, from when it is installed: quit() reaches a running loop only.
OnSignal ==
  /\ mpc \notin {"off", "exited", "crashed"} /\ ~stopped
  /\ stopped' = TRUE
  /\ quit' = (quit \/ mpc \in {"looping", "health"})
  /\ UNCHANGED <<mpc, options, posted, elapsed, probeVars, healthVars, open, failed, report>>

LeaveLoop == quit /\ Moves("looping", "null")

-----------------------------------------------------------------------------
(* The finally block. *)

\* Mutant: the clean-up does not wait for the streaming threads.
StopStreamingLate == Moves("null", "csv")

\* set_state(NULL) returns when no probe is running.
StopStreaming ==
  /\ \A s \in Source : probe[s] = "idle"
  /\ Moves("null", "csv")

\* What follows the CSV files, and what follows the runtime.
AfterRuntime == IF options.perf THEN "report" ELSE "exited"
AfterCsv == IF options.mtmc THEN "runtime" ELSE AfterRuntime

CloseCsv ==
  /\ mpc = "csv"
  /\ mpc' = AfterCsv
  /\ open' = FALSE
  /\ UNCHANGED <<options, endVars, probeVars, healthVars, failed, report>>

\* shutdown() finds a worker that has not failed, puts its marker and joins.
RuntimeJoins == ~failed /\ Moves("runtime", "stopping")

RuntimeStops == ~failed /\ Moves("stopping", AfterRuntime)

\* shutdown() raises the worker's failure, of earlier or while it joined: nothing
\* after it runs.
RuntimeRaises == failed /\ (Moves("runtime", "crashed") \/ Moves("stopping", "crashed"))

\* The worker failed between the test and the marker: the join never ends.  What
\* decides between this and RuntimeRaises is in MtmcRuntime.
RuntimeHangs == failed /\ Moves("stopping", "hung")

\* The last sample, and the JSON file.
WriteReport ==
  /\ mpc = "report"
  /\ mpc' = "exited"
  /\ RecordSample
  /\ UNCHANGED <<options, endVars, probeVars, healthVars, open, failed>>

-----------------------------------------------------------------------------
(* The streaming threads. *)

MainUnchanged == UNCHANGED <<mpc, options, endVars, healthVars, open, failed, report>>

\* The branch probe of multi_stream.py counts a frame, ...
ProbeCounts(s) ==
  /\ Streaming /\ ~options.single
  /\ probe[s] = "idle" /\ counts[s] < MaxFrames
  /\ probe' = [probe EXCEPT ![s] = "counted"]
  /\ counts' = [counts EXCEPT ![s] = @ + 1]
  /\ UNCHANGED <<written, lastFrame>>
  /\ MainUnchanged

\* ... reports it to the health monitor, with or without a detection, ...
ProbeRecords(s) ==
  /\ probe[s] = "counted"
  /\ probe' = [probe EXCEPT ![s] = "recorded"]
  /\ RecordFrame(s, now)
  /\ UNCHANGED <<counts, written>>
  /\ MainUnchanged

\* ... and writes and flushes its rows; a closed file raises ValueError.
ProbeWrites(s) ==
  /\ probe[s] = "recorded"
  /\ probe' = [probe EXCEPT ![s] = "idle"]
  /\ written' = IF open THEN [written EXCEPT ![s] = @ + 1] ELSE written
  /\ UNCHANGED <<counts, lastFrame>>
  /\ MainUnchanged

\* The probe of rtsp.py only writes.
SingleProbeWrites(s) ==
  /\ Streaming /\ options.single
  /\ s \in Streams /\ written[s] < MaxFrames
  /\ written' = [written EXCEPT ![s] = @ + 1]
  /\ UNCHANGED <<probe, counts, lastFrame>>
  /\ MainUnchanged

\* Every sink has seen EOS, or an element failed.
Post(message) ==
  /\ Streaming /\ posted = "none"
  /\ message = "eos" => \A s \in Source : probe[s] = "idle"
  /\ posted' = message
  /\ UNCHANGED <<mpc, options, quit, elapsed, stopped, probeVars, healthVars, open, failed, report>>

\* The fusion worker raises, at any time from start() to the end of shutdown().
WorkerFails ==
  /\ options.mtmc /\ ~failed
  /\ mpc \notin {"off", "ready", "report", "exited", "crashed", "hung", "start_hung"}
  /\ failed' = TRUE
  /\ UNCHANGED <<mpc, options, endVars, probeVars, healthVars, open, report>>

Tick ==
  /\ mpc \notin {"off", "exited", "crashed"} /\ now < MaxTime
  /\ now' = now + 1
  /\ UNCHANGED <<mpc, options, endVars, probeVars, tickTime, stalled, open, failed, report>>

-----------------------------------------------------------------------------
Main == RequestPlaying \/ PlayingFails \/ AbortEnds \/ AbortHangs \/ PlayingSucceeds
          \/ EnterLoop \/ HealthSnapshot \/ LeaveLoop \/ StopStreaming \/ CloseCsv
          \/ RuntimeJoins \/ RuntimeStops \/ RuntimeRaises \/ RuntimeHangs \/ WriteReport

Timers == PerfTick \/ HealthTick \/ DurationElapses

Probes == \E s \in Source :
  \/ ProbeCounts(s)
  \/ ProbeRecords(s)
  \/ ProbeWrites(s)
  \/ SingleProbeWrites(s)

\* A probe that has begun.
ProbesEnd == \E s \in Source : ProbeRecords(s) \/ ProbeWrites(s)

RunNext ==
  \/ Main \/ Timers \/ OnMessage \/ OnSignal \/ Probes
  \/ Post("eos") \/ Post("error")
  \/ WorkerFails \/ Tick

\* The main thread goes on (nvidia-smi answers), a probe that began ends, and the
\* loop serves its timers, the bus and quit() however often other sources are due:
\* sources of one priority are dispatched in every iteration.  Nothing obliges a
\* source to end or a signal to arrive.
RunFairness ==
  /\ WF_runVars(Main)
  /\ WF_runVars(ProbesEnd)
  /\ WF_runVars(HealthTick)
  /\ SF_runVars(LeaveLoop) /\ SF_runVars(OnMessage) /\ SF_runVars(DurationElapses)

=============================================================================

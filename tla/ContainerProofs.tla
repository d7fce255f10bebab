--------------------------- MODULE ContainerProofs ---------------------------
(***************************************************************************)
(* Proofs about a container start and the run it launches (Container,      *)
(* ModelInit, StreamRun), for any sources, command lines, number of starts *)
(* and liveness window.                                                    *)
(***************************************************************************)
EXTENDS ContainerProps, TLAPS

-----------------------------------------------------------------------------
(* The main thread against the streaming threads.                           *)

Idle(s) == probe[s] = "idle"
AllIdle == \A s \in Source : Idle(s)

\* A frame is counted before its rows are written, by the same probe.
Covered(s) == counts[s] = written[s] + (IF Idle(s) THEN 0 ELSE 1)

RunTypes ==
  /\ mpc # "off" => options \in Configs
  /\ probe \in [Source -> {"idle", "counted", "recorded"}]
  /\ counts \in [Source -> Nat] /\ written \in [Source -> Nat]
  /\ lastFrame \in [Source -> Int] /\ now \in Nat

\* The CSV files outlive every probe, and the last sample is taken after it.
RunInv ==
  /\ RunTypes
  /\ mpc \in {"off", "ready", "csv", "runtime", "stopping", "report", "exited"} => AllIdle
  /\ mpc \in {"ready", "starting", "started", "looping", "health", "null", "aborting",
               "start_hung"} => open
  /\ open \/ AllIdle
  /\ (mpc # "off" /\ options.single) \/ \A s \in Source : Covered(s)
  /\ mpc = "exited" /\ options.perf => report = counts

\* One disjunct of ContainerNext, seen from the run.
RunStep == RunNext \/ (\E config \in Configs : Prepare(config)) \/ UNCHANGED runVars

LEMMA RunSteps == [ContainerNext]_containerVars => RunStep
BY DEF ContainerNext, containerVars, Launch, Parsed, RunStep

-----------------------------------------------------------------------------
LEMMA RunInvInit == ContainerInit => RunInv
<1>. SUFFICES ASSUME ContainerInit PROVE RunInv
  OBVIOUS
<1>. USE DEF ContainerInit, RunInit
<1>1. RunTypes
  BY DEF RunTypes, HealthInit, Never
<1>. QED  BY <1>1 DEF RunInv, AllIdle, Idle, Covered

\* The main thread, which touches no probe.
LEMMA MainKeepsInv ==
  ASSUME RunInv,
         \/ Main \/ Timers \/ OnMessage \/ OnSignal \/ Post("eos") \/ Post("error")
         \/ WorkerFails \/ Tick
  PROVE  RunInv'
<1>. USE DEF RunInv, RunTypes, AllIdle, Idle, Covered
<1>. USE DEF endVars, probeVars, healthVars
<1>1. CASE RequestPlaying \/ PlayingFails \/ AbortEnds \/ AbortHangs \/ PlayingSucceeds
             \/ EnterLoop \/ LeaveLoop
  BY <1>1 DEF RequestPlaying, PlayingFails, AbortEnds, AbortHangs, PlayingSucceeds, EnterLoop,
    LeaveLoop, Moves
<1>2. CASE HealthSnapshot
  BY <1>2 DEF HealthSnapshot
<1>3. CASE StopStreaming
  BY <1>3 DEF StopStreaming, Moves
<1>4. CASE CloseCsv
  BY <1>4 DEF CloseCsv, AfterCsv, AfterRuntime
<1>5. CASE RuntimeJoins \/ RuntimeStops \/ RuntimeRaises \/ RuntimeHangs
  BY <1>5 DEF RuntimeJoins, RuntimeStops, RuntimeRaises, RuntimeHangs, AfterRuntime, Moves
<1>6. CASE WriteReport
  BY <1>6 DEF WriteReport, RecordSample
<1>7. CASE Timers
  BY <1>7 DEF Timers, PerfTick, RecordSample, HealthTick, DurationElapses
<1>8. CASE OnMessage \/ OnSignal \/ Post("eos") \/ Post("error") \/ WorkerFails \/ Tick
  BY <1>8 DEF OnMessage, OnSignal, Post, WorkerFails, Tick
<1>. QED  BY <1>1, <1>2, <1>3, <1>4, <1>5, <1>6, <1>7, <1>8 DEF Main

\* The streaming threads, which run only while the files are open, or to the end
\* of the frame in hand.
LEMMA ProbesKeepInv ==
  ASSUME RunInv, Probes
  PROVE  RunInv'
<1>. USE DEF RunInv, RunTypes, AllIdle, Idle, Covered, MainUnchanged
<1>. USE DEF endVars, healthVars
<1>1. ASSUME NEW s \in Source, ProbeCounts(s) PROVE RunInv'
  BY <1>1 DEF ProbeCounts, Streaming
<1>2. ASSUME NEW s \in Source, ProbeRecords(s) PROVE RunInv'
  BY <1>2 DEF ProbeRecords, RecordFrame
<1>3. ASSUME NEW s \in Source, ProbeWrites(s) PROVE RunInv'
  BY <1>3 DEF ProbeWrites
<1>4. ASSUME NEW s \in Source, SingleProbeWrites(s) PROVE RunInv'
  BY <1>4 DEF SingleProbeWrites, Streaming
<1>. QED  BY <1>1, <1>2, <1>3, <1>4 DEF Probes

LEMMA RunInvStep == RunInv /\ RunStep => RunInv'
<1>. SUFFICES ASSUME RunInv, RunStep PROVE RunInv'
  OBVIOUS
<1>1. CASE UNCHANGED runVars
  BY <1>1 DEF runVars, endVars, probeVars, healthVars, RunInv, RunTypes, AllIdle, Idle, Covered
<1>2. ASSUME NEW config \in Configs, Prepare(config) PROVE RunInv'
  BY <1>2 DEF Prepare, probeVars, healthVars, RunInv, RunTypes, AllIdle, Idle, Covered
<1>. QED  BY <1>1, <1>2, MainKeepsInv, ProbesKeepInv DEF RunStep, RunNext

LEMMA RunInvariant == ContainerSpec => []RunInv
BY RunInvInit, RunSteps, RunInvStep, PTL DEF ContainerSpec

\* A run with --perf-json that ends normally reports exactly the frames whose rows
\* are in the CSV files.
THEOREM ReportCorrect == ContainerSpec => []ReportMatchesCsv
<1>1. RunInv => ReportMatchesCsv
  <2>. SUFFICES ASSUME RunInv, mpc = "exited", options.perf PROVE counts = written
    BY DEF RunInv, ReportMatchesCsv
  <2>1. ~options.single
    BY DEF RunInv, RunTypes, Configs, Options
  <2>2. \A s \in Source : counts[s] = written[s]
    BY <2>1 DEF RunInv, RunTypes, AllIdle, Idle, Covered
  <2>. QED  BY <2>2 DEF RunInv, RunTypes
<1>. QED  BY <1>1, RunInvariant, PTL

-----------------------------------------------------------------------------
(* The models on the mount.                                                 *)

Content == {"absent", "partial", "complete"}

\* A file is there, or the step that makes it does not apply.
Present(a) == disk[a] # "absent" \/ (a = "decode" /\ ~plugin)

\* By the time ensure_models is at a step, every file before it is in its place:
\* what an earlier start left behind counts as well as what this one made.
ModelInv ==
  /\ disk \in [Artefact -> Content]
  /\ argv \in Arguments /\ keeps \in BOOLEAN /\ (keeps => argv.appearance)
  /\ step \in Artefact \cup {"launch", "launched", "down"}
  /\ step \notin {"down", "yolo_onnx"} => Present("yolo_onnx")
  /\ step \notin {"down", "yolo_onnx", "fp32"} => Present("fp32")
  /\ step \notin {"down", "yolo_onnx", "fp32", "fp16"} => Present("fp16")
  /\ step \notin {"down", "yolo_onnx", "fp32", "fp16", "decode"} => Present("decode")
  /\ step \in {"launch", "launched"} /\ keeps /\ PreparesReid => Present("reid_engine")
  /\ step = "launched" => options \in Parsed

LEMMA ModelInvInit == ContainerInit => ModelInv
BY ModelInitAssumption DEF ContainerInit, ModelInitInit, ModelInv, Arguments, Artefact, Engine,
  Content

\* A step of ensure_models or prepare_launch_args leaves its file in place, or
\* gives up what the file was for, before the next one begins.
LEMMA ModelInitKeepsInv ==
  ASSUME ModelInv, ModelInitNext \/ Restart, UNCHANGED runVars
  PROVE  ModelInv'
<1>. USE DEF ModelInv, Artefact, Engine, Content, Present
<1>0. options' = options
  BY DEF runVars
<1>1. ASSUME NEW a \in Artefact, Skip(a) PROVE ModelInv'
  BY <1>0, <1>1 DEF Skip, After, PreparesReid
<1>2. ASSUME NEW a \in Artefact, Make(a) PROVE ModelInv'
  BY <1>0, <1>2 DEF Make, After, PreparesReid
<1>3. ASSUME NEW a \in Artefact, MakeFails(a) \/ DiesWriting(a) PROVE ModelInv'
  BY <1>0, <1>3 DEF MakeFails, DiesWriting, PreparesReid
<1>4. CASE ShortDownload
  BY <1>0, <1>4 DEF ShortDownload, After, PreparesReid
<1>5. CASE ReidUnavailable
  BY <1>0, <1>5 DEF ReidUnavailable, PreparesReid
<1>6. CASE Restart
  BY <1>0, <1>6 DEF Restart, PreparesReid, Arguments
<1>. QED  BY <1>1, <1>2, <1>3, <1>4, <1>5, <1>6 DEF ModelInitNext

LEMMA RunNextKeepsOptions == RunNext => options' = options
BY DEF RunNext, Main, RequestPlaying, PlayingFails, AbortEnds, AbortHangs, PlayingSucceeds,
  EnterLoop, HealthSnapshot, LeaveLoop, StopStreaming, CloseCsv, RuntimeJoins, RuntimeStops,
  RuntimeRaises, RuntimeHangs, WriteReport, Moves, Timers, PerfTick, HealthTick,
  DurationElapses, OnMessage, OnSignal, Post, WorkerFails, Tick, Probes, ProbeCounts,
  ProbeRecords, ProbeWrites, SingleProbeWrites, MainUnchanged

LEMMA ModelInvStep == ModelInv /\ [ContainerNext]_containerVars => ModelInv'
<1>. SUFFICES ASSUME ModelInv, [ContainerNext]_containerVars PROVE ModelInv'
  OBVIOUS
<1>1. CASE UNCHANGED <<initVars, options>>
  BY <1>1 DEF initVars, ModelInv, Present, PreparesReid, Parsed
<1>2. CASE Launch
  BY <1>2 DEF Launch, Prepare, ModelInv, Present, PreparesReid, Parsed
<1>3. CASE (ModelInitNext \/ Restart) /\ UNCHANGED runVars
  BY <1>3, ModelInitKeepsInv
<1>. QED  BY <1>1, <1>2, <1>3, RunNextKeepsOptions DEF ContainerNext, containerVars, runVars

LEMMA ModelInvariant == ContainerSpec => []ModelInv
BY ModelInvInit, ModelInvStep, PTL DEF ContainerSpec

\* Whatever earlier starts left on the mount, a pipeline is launched only with the
\* engines it loads in their place, and without appearance if its model is not.
THEOREM EnginesReady == ContainerSpec => []EnginesInPlace
<1>1. ModelInv => EnginesInPlace
  BY DEF ModelInv, EnginesInPlace, Launched, Present, PreparesReid, Parsed
<1>. QED  BY <1>1, ModelInvariant, PTL

=============================================================================

--------------------------- MODULE StreamRunProps ---------------------------
(***************************************************************************)
(* A run of the pipeline by itself, and what it promises.                  *)
(***************************************************************************)
EXTENDS StreamRun

\* What parse_args and rtsp.py can produce.
Configs == {o \in Options :
  /\ o.appearance => o.mtmc
  /\ o.single => ~o.mtmc /\ ~o.perf /\ ~o.duration}

Starts == \E c \in Configs : Prepare(c)

RunSpec ==
  /\ RunInit
  /\ [][Starts \/ RunNext]_runVars
  /\ RunFairness /\ WF_runVars(Starts)

Ended == mpc \in {"exited", "crashed"}

\* The playbook's pipeline_stop: once the signal handler has logged it, the run
\* shuts down (docs/failure-mode-playbook.md:22).  The code breaks it: a handler
\* that runs before loop.run() calls quit() on a loop that does not run yet.
StopShutsDown == stopped ~> Ended

\* EOS, an ERROR message and the --duration timer end the run and its clean-up,
\* also when the message was posted before the loop was running.  Two ends are not
\* the program's exit: the start failed and shutdown() waits behind a batch, or
\* the fusion worker failed while shutdown() joined it.  The CSV files are closed
\* by then in the second.
EndRequestEndsRun ==
  posted # "none" \/ elapsed ~>
    Ended \/ mpc = "start_hung" \/ (mpc = "hung" /\ failed /\ ~open)

\* When a run with --perf-json ends normally, its last sample has every frame
\* the CSV files have rows of, and no other: no probe was under way when the
\* files were closed and none ran after the sample.
ReportMatchesCsv == mpc = "exited" /\ options.perf => report = written

LoopRuns == mpc \in {"looping", "health"} /\ ~options.single

\* The playbook's first failure mode: a source that stays silent beyond the
\* liveness window while the loop runs is reported as stalled, by every health
\* tick from some tick on, and a source that keeps delivering in time by none,
\* although the tick reads its clock before it waits for nvidia-smi, and the
\* probes record meanwhile (docs/failure-mode-playbook.md:17, 41).
StalledReportSettles ==
  \A s \in Source :
    /\ <>[](LoopRuns /\ ~IsLive(s, now)) => <>[](s \in stalled)
    /\ <>[](LoopRuns /\ IsLive(s, now)) => <>[](s \notin stalled)

=============================================================================

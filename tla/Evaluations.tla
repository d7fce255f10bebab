----------------------------- MODULE Evaluations -----------------------------
(***************************************************************************)
(* The offline tools, one per behaviour, and what their reports may be     *)
(* relied on for.                                                          *)
(***************************************************************************)
EXTENDS MtmcEvaluation, MtmcRecording, HomographyFit

VARIABLE tool   \* the script under study

vars == <<tool, sweepVars, evalVars, recordingVars, fitVars>>

Init ==
  /\ SweepInit /\ EvalInit /\ RecordingInit /\ HomographyInit
  /\ tool \in {"sweep", "evaluate", "record", "fit"}

Next ==
  \/ tool = "sweep" /\ Detect /\ UNCHANGED <<tool, evalVars, recordingVars, fitVars>>
  \/ tool = "evaluate" /\ Recorded /\ UNCHANGED <<tool, sweepVars, recordingVars, fitVars>>
  \/ tool = "record" /\ RecordingNext /\ UNCHANGED <<tool, sweepVars, evalVars, fitVars>>
  \/ tool = "fit" /\ HomographyNext /\ UNCHANGED <<tool, sweepVars, evalVars, recordingVars>>

Spec == Init /\ [][Next]_vars

-----------------------------------------------------------------------------
\* A higher confidence threshold never finds more people, although the boxes it
\* removes had been competing for the same people, and never reports a person
\* found and missed at once: recall is monotone in the sweep.
RecallFallsWithThreshold ==
  \A t \in 0..MaxLevel : Swept(t + 1).tp <= Swept(t).tp /\ Swept(t + 1).fn >= Swept(t).fn

\* When a report without warm-up says that the online map and the offline
\* fusion disagree in no row, every metric it gives is the one --fuse-offline
\* alone reports, splits, merges and unassigned tracklets included.
AgreementPreservesMetrics ==
  Warmup = 0 /\ ReportedDisagreement(TRUE, TRUE) = 0 =>
    ReportedMetrics(TRUE, TRUE) = ReportedMetrics(TRUE, FALSE)

\* Rows of boxes that have an extent.  The runtime skips the others, the evaluator
\* does not.
Solid(records) == {r \in records : r.box # "flat"}

\* Boxes without extent aside, offline fusion works on observations the run
\* itself fused, in the same buckets and generations, or would have fused
\* had its worker not failed or not been behind, and misses only those of
\* frames still in flight and of frames whose receipt was lost.
OfflineUsesOnlineEvidence ==
  Prepares(csv) =>
    /\ OfflineEvidence(Solid(csv)) \subseteq fused \cup Evidence(queue \cup discarded)
    /\ fused \subseteq OfflineEvidence(Solid(csv)) \cup unwritten \cup Evidence(inFlight)

\* Whatever calibrations a command line of multi_stream.py gets accepted, after
\* failed, killed and repeated fits of any cameras: each source has its own
\* camera's, measured within the limits on frames that it was not fitted on.
StartsOnWellMeasured ==
  \A bindings \in Bindings : Accepted(bindings) =>
    \A s \in Source : \E i \in Source :
      /\ bindings[i].source = s
      /\ LET c == files[bindings[i].file] IN
           /\ c.source = s /\ ~c.off
           /\ c.measured # {} /\ c.measured \cap c.seen = {}

=============================================================================

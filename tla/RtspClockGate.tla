---------------------------- MODULE RtspClockGate ----------------------------
(***************************************************************************)
(* pipelines/multi_stream.py: RtspClockGate.  A batch is described by the  *)
(* sources it has a frame of and by those whose frame carries a positive   *)
(* NTP timestamp; a source without a frame counts as one without a clock.  *)
(* _waiting_reported and _lost_sources only decide what is logged and are  *)
(* left out.                                                               *)
(***************************************************************************)
EXTENDS MtmcSetup

VARIABLE ready   \* _ready_sources

GateInit == ready = {}

\* ready_before_batch
GateOpen == ready = Source

\* Mutant: a source whose clock is lost has to become ready again.
ObserveBatchForgetting(clocks) == ready' = clocks

\* observe_batch: what it leaves in the gate.
ObserveBatch(clocks) == ready' = ready \cup clocks

\* RtspClockBatch.fuse_batch
FusesBatch(present, clocks) == GateOpen /\ present = Source /\ clocks = Source

=============================================================================

---------------------------- MODULE HealthMonitor ----------------------------
(***************************************************************************)
(* metrics/health_monitor.py: when each source last delivered a frame, and *)
(* which sources a snapshot calls stalled.  The detection age and the      *)
(* rolling frame rate are only reported and are left out.                  *)
(***************************************************************************)
EXTENDS Integers

CONSTANTS
  Source,
  LivenessWindow   \* liveness_window_s

Never == -1

VARIABLE lastFrame   \* _last_frame_t; Never is None

HealthInit == lastFrame = [s \in Source |-> Never]

\* record_frame, with a detection or without
RecordFrame(s, t) == lastFrame' = [lastFrame EXCEPT ![s] = t]

\* is_live of _source_snapshot
IsLive(s, t) == lastFrame[s] # Never /\ t - lastFrame[s] <= LivenessWindow

=============================================================================

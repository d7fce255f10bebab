---------------------------- MODULE MCMtmcFuser ----------------------------
(* Small instances of MtmcFuser: which detections the trackers may report.  *)
EXTENDS MtmcFuserProps

\* Two tracks in camera 1, one in camera 2 that may match either of them.
Bridge == {<<1, 1>>, <<1, 2>>, <<2, 1>>}

=============================================================================

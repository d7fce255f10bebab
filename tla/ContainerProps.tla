---------------------------- MODULE ContainerProps ----------------------------
(***************************************************************************)
(* What a container start promises, whatever happened to earlier starts.   *)
(***************************************************************************)
EXTENDS Container

Launched == step = "launched"

\* Whatever a failed download, a failed build or a death of the container left
\* on the mount, a pipeline is launched only where every step of the entry point
\* has left a file, the decode engine's wherever its plugin can be loaded, and
\* appearance is given up rather than launched without its model.  A file that is
\* there may still be partial: the entry point does not look.
EnginesInPlace ==
  Launched =>
    /\ \A a \in {"yolo_onnx", "fp32", "fp16"} : disk[a] # "absent"
    /\ plugin => disk["decode"] # "absent"
    /\ options.appearance /\ ~argv.own_reid => disk["reid_engine"] # "absent"

\* "Download one model artifact atomically so an interrupted fetch is never
\* reused" (docker/init_models.py:39).  The code breaks it when the server
\* closes the connection early.
ReidOnnxNeverPartial == disk["reid_onnx"] # "partial"

=============================================================================

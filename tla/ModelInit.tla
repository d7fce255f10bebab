------------------------------ MODULE ModelInit ------------------------------
(***************************************************************************)
(* docker/init_models.py: the container's entry point.  It makes the model *)
(* files that do not exist yet, one after the other, and then execs the    *)
(* pipeline.  The container may die at any moment and be started again;    *)
(* the files are on a bind mount and survive.  A file that exists is taken *)
(* as complete.                                                            *)
(***************************************************************************)
EXTENDS Naturals

Engine == {"fp32", "fp16", "decode", "reid_engine"}
Artefact == Engine \cup {"yolo_onnx", "reid_onnx"}

\* --mtmc, --mtmc-appearance, a --reid-config of one's own.
Arguments == [mtmc : BOOLEAN, appearance : BOOLEAN, own_reid : BOOLEAN]

CONSTANTS
  CommandLines,   \* bound: what the operator may ask for
  MaxStarts       \* bound: container starts

ASSUME ModelInitAssumption == CommandLines \subseteq Arguments /\ MaxStarts \in Nat \ {0}

VARIABLES
  disk,    \* what is on the bind mount: absent, partial or complete
  plugin,  \* is the decode plugin's library in the image?
  argv,    \* what the command line asks for
  keeps,   \* is --mtmc-appearance still in launch_args?
  step,    \* what __main__ is doing; down: the container does not run
  starts   \* container starts so far

initVars == <<disk, plugin, argv, keeps, step, starts>>

ModelInitInit ==
  /\ disk = [a \in Artefact |-> "absent"]
  /\ plugin \in BOOLEAN
  /\ argv \in CommandLines
  /\ keeps = argv.appearance
  /\ step = "yolo_onnx"
  /\ starts = 1

\* should_prepare_reid, and the test of prepare_launch_args after it
PreparesReid == argv.mtmc /\ argv.appearance /\ ~argv.own_reid

\* The order of ensure_models and prepare_launch_args.
After(a) ==
  CASE a = "yolo_onnx" -> "fp32"
    [] a = "fp32" -> "fp16"
    [] a = "fp16" -> "decode"
    [] a = "decode" -> IF PreparesReid THEN "reid_onnx" ELSE "launch"
    [] a = "reid_onnx" -> "reid_engine"
    [] a = "reid_engine" -> "launch"

\* The model an engine is built from.
InputOf(a) == IF a = "reid_engine" THEN "reid_onnx" ELSE "yolo_onnx"

\* Written beside its place and then moved there (on one file system).
Moved(a) == a \in {"yolo_onnx", "reid_onnx"}

\* The file exists: skip this step.
Skip(a) ==
  /\ step = a
  /\ disk[a] # "absent" \/ (a = "decode" /\ ~plugin)
  /\ step' = After(a)
  /\ UNCHANGED <<disk, plugin, argv, keeps, starts>>

\* The export, the download or the engine build succeeds.
Make(a) ==
  /\ step = a
  /\ disk[a] = "absent" /\ (a = "decode" => plugin)
  /\ a \in Engine => disk[InputOf(a)] = "complete"
  /\ disk' = [disk EXCEPT ![a] = "complete"]
  /\ step' = After(a)
  /\ UNCHANGED <<plugin, argv, keeps, starts>>

\* The subprocess, or the export, fails: the exception ends the container.  A
\* build whose input is a partial file always does.
MakeFails(a) ==
  /\ step = a
  /\ disk[a] = "absent" /\ (a = "decode" => plugin)
  /\ step' = "down"
  /\ UNCHANGED <<disk, plugin, argv, keeps, starts>>

\* _download_file when the server closes the connection early: read() of the
\* response just returns less, copyfileobj ends and the rest is moved in place.
ShortDownload ==
  /\ step = "reid_onnx"
  /\ disk["reid_onnx"] = "absent"
  /\ disk' = [disk EXCEPT !["reid_onnx"] = "partial"]
  /\ step' = After("reid_onnx")
  /\ UNCHANGED <<plugin, argv, keeps, starts>>

\* Mutant: the flag stays on the command line.
ReidUnavailableKeepsFlag ==
  /\ step = "reid_onnx"
  /\ disk["reid_onnx"] = "absent"
  /\ step' = "launch"
  /\ UNCHANGED <<disk, plugin, argv, keeps, starts>>

\* The download raises OSError: the pipeline is launched without appearance.
ReidUnavailable ==
  /\ step = "reid_onnx"
  /\ disk["reid_onnx"] = "absent"
  /\ keeps' = FALSE
  /\ step' = "launch"
  /\ UNCHANGED <<disk, plugin, argv, starts>>

\* The container dies while it writes a file: trtexec writes an engine in its place,
\* only a moved file is all or nothing.
DiesWriting(a) ==
  /\ step = a
  /\ disk[a] = "absent" /\ (a = "decode" => plugin)
  /\ disk' = [disk EXCEPT ![a] = IF Moved(a) THEN "absent" ELSE "partial"]
  /\ step' = "down"
  /\ UNCHANGED <<plugin, argv, keeps, starts>>

\* The operator starts the container again, with the same command line.
Restart ==
  /\ step = "down"
  /\ starts < MaxStarts
  /\ starts' = starts + 1
  /\ keeps' = argv.appearance
  /\ step' = "yolo_onnx"
  /\ UNCHANGED <<disk, plugin, argv>>

ModelInitNext ==
  \/ \E a \in Artefact : Skip(a) \/ Make(a) \/ MakeFails(a) \/ DiesWriting(a)
  \/ ShortDownload
  \/ ReidUnavailable

=============================================================================

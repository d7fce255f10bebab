--------------------------- MODULE HomographyFit ---------------------------
(***************************************************************************)
(* metrics/fit_homography.py: cameras are fitted to annotated frames, held *)
(* to limits on frames set aside for that, and written as one JSON file    *)
(* each, which multi_stream.py later binds to its sources.  The fit itself *)
(* is arbitrary: on any set of held-out boxes it may be off by more than   *)
(* the limits.  The process may die at any time and be run again.          *)
(***************************************************************************)
EXTENDS MtmcSetup

CONSTANT Annotated   \* boxes of a camera, as <<frame, person>>

\* The reliable training points a fit needs (four in the code).
CONSTANT MinTrain

ASSUME FitAssumption == MinTrain \in Nat \ {0}

VARIABLES
  fitPc,   \* where the script stands
  toFit,   \* cameras (here: their source IDs) still to be fitted
  fitted,  \* calibrations of this run, by source
  toWrite, \* cameras whose files are still to be written
  files    \* homography_<camera>.json

fitVars == <<fitPc, toFit, fitted, toWrite, files>>

Unfit     == [size |-> "none"]      \* no calibration
Truncated == [size |-> "partial"]   \* a file that is not JSON

HomographyInit ==
  /\ fitPc = "off" /\ toFit = {} /\ toWrite = {}
  /\ fitted = [s \in Source |-> Unfit]
  /\ files = fitted

FramesOf(boxes) == {b[1] : b \in boxes}
HeldOut(boxes, frames) == {b \in boxes : b[1] \in frames}

\* Mutant: boxes are set aside one by one.
SplitByBox(boxes) == {x \in SUBSET boxes : x # {} /\ x # boxes}

\* split_rows_by_frame: the boxes held out, of some but not all frames.
Split(boxes) ==
  {HeldOut(boxes, f) : f \in (SUBSET FramesOf(boxes)) \ {{}, FramesOf(boxes)}}

\* main: the cameras named on the command line.
StartsFit(cameras) ==
  /\ fitPc = "off"
  /\ fitPc' = "fitting"
  /\ toFit' = cameras
  /\ UNCHANGED <<fitted, toWrite, files>>

\* fit_camera_homography, where it returns.  "off" are the held-out boxes whose
\* projection misses by more than the limits, "size" is the image size it is for.
Fits(s, usable, holdout, off, size, sound) ==
  /\ fitPc = "fitting" /\ s \in toFit
  /\ Cardinality(usable \ holdout) >= MinTrain
  /\ toFit' = toFit \ {s}
  /\ fitted' = [fitted EXCEPT ![s] =
       [source |-> s, seen |-> FramesOf(usable \ holdout), measured |-> FramesOf(holdout),
        off |-> off # {}, size |-> size, sound |-> sound]]
  /\ UNCHANGED <<fitPc, toWrite, files>>

\* passes_quality_gate: median and 90th percentile of the held-out errors.
PassesGate(calibration) == ~calibration.off

Exits ==
  /\ fitPc' = "off" /\ toFit' = {} /\ toWrite' = {}
  /\ fitted' = [s \in Source |-> Unfit]

\* Every camera is fitted: main raises SystemExit unless all pass.
Gate ==
  /\ fitPc = "fitting" /\ toFit = {}
  /\ LET run == {s \in Source : fitted[s] # Unfit} IN
       IF \A s \in run : PassesGate(fitted[s])
         THEN fitPc' = "writing" /\ toWrite' = run /\ UNCHANGED <<toFit, fitted>>
         ELSE Exits
  /\ UNCHANGED files

Writes(s) ==
  /\ fitPc = "writing" /\ s \in toWrite
  /\ files' = [files EXCEPT ![s] = fitted[s]]
  /\ IF toWrite = {s} THEN Exits
     ELSE toWrite' = toWrite \ {s} /\ UNCHANGED <<fitPc, toFit, fitted>>

\* A camera cannot be fitted (ValueError), or the process is killed ...
FitDies == fitPc # "off" /\ Exits /\ UNCHANGED files

\* ... when write_text has emptied the file and not filled it yet.
DiesWritingFile(s) ==
  /\ fitPc = "writing" /\ s \in toWrite
  /\ files' = [files EXCEPT ![s] = Truncated]
  /\ Exits

HomographyNext ==
  \/ \E cameras \in (SUBSET Source) \ {{}} : StartsFit(cameras)
  \/ \E s \in Source, usable \in SUBSET Annotated :
       \E holdout \in Split(usable), size \in {"mux", "other"}, sound \in BOOLEAN :
         \E off \in SUBSET holdout : Fits(s, usable, holdout, off, size, sound)
  \/ Gate
  \/ \E s \in Source : Writes(s) \/ DiesWritingFile(s)
  \/ FitDies

-----------------------------------------------------------------------------
(* multi_stream.py reads the files. *)

\* Command lines that bind files to sources, the first unknown one included.
Bindings == [Source -> [source : Source \cup {Cardinality(Source)}, file : Source]]

\* load_homography returns, and so does load_homography_bindings.
Accepted(bindings) ==
  /\ \A i \in Source : files[bindings[i].file] \notin {Unfit, Truncated}
  /\ Bound([i \in Source |->
       LET file == files[bindings[i].file]
       IN [bound |-> bindings[i].source, declared |-> file.source,
           sized |-> file.size = "mux", sound |-> file.sound]])

=============================================================================

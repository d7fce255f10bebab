-------------------------- MODULE EvaluationsProofs --------------------------
(***************************************************************************)
(* Proofs about the offline tools, for every set of cameras, IDs, boxes and *)
(* overlaps: which calibrations a pipeline can be started with, which      *)
(* evidence offline fusion of a recording works on, how recall depends on  *)
(* the confidence threshold, and what agreement of two assignments means   *)
(* for the metrics.                                                        *)
(***************************************************************************)
EXTENDS Evaluations, FiniteInduction

-----------------------------------------------------------------------------
(* Calibrations.  Only files that hold one matter to the property, so the   *)
(* invariant follows a calibration from its fit to its file.               *)

\* c is the calibration of camera s, measured on frames it was not fitted on.
Measured(s, c) ==
  /\ c.source = s
  /\ c.measured # {} /\ c.measured \cap c.seen = {}

FitInv ==
  /\ DOMAIN fitted = Source /\ DOMAIN files = Source
  /\ \A s \in Source : fitted[s] # Unfit => Measured(s, fitted[s])
  /\ toWrite \subseteq Source
  /\ fitPc = "writing" => \A s \in toWrite : fitted[s] # Unfit /\ PassesGate(fitted[s])
  /\ \A s \in Source : files[s] \notin {Unfit, Truncated} =>
       Measured(s, files[s]) /\ PassesGate(files[s])

\* split_rows_by_frame sets some frames aside, and none of them is left for the
\* fit.
LEMMA FramesSetAside ==
  ASSUME NEW usable, NEW holdout \in Split(usable)
  PROVE  /\ FramesOf(holdout) # {}
         /\ FramesOf(holdout) \cap FramesOf(usable \ holdout) = {}
<1>. PICK f \in (SUBSET FramesOf(usable)) \ {{}, FramesOf(usable)} : holdout = HeldOut(usable, f)
  BY DEF Split
<1>1. FramesOf(holdout) = f
  BY DEF FramesOf, HeldOut
<1>2. \A b \in usable \ holdout : b[1] \notin f
  BY DEF HeldOut
<1>3. f \cap FramesOf(usable \ holdout) = {}
  BY <1>2 DEF FramesOf
<1>. QED  BY <1>1, <1>3

LEMMA FitStep ==
  ASSUME FitInv, HomographyNext
  PROVE  FitInv'
<1>. USE DEF FitInv
<1>1. ASSUME NEW cameras, StartsFit(cameras) PROVE FitInv'
  BY <1>1 DEF StartsFit
<1>2. ASSUME NEW s \in Source, NEW usable, NEW holdout \in Split(usable), NEW off, NEW size,
             NEW sound, Fits(s, usable, holdout, off, size, sound)
      PROVE  FitInv'
  <2>. DEFINE c == [source |-> s, seen |-> FramesOf(usable \ holdout),
                    measured |-> FramesOf(holdout), off |-> off # {}, size |-> size,
                    sound |-> sound]
  <2>1. fitPc = "fitting" /\ fitted' = [fitted EXCEPT ![s] = c]
        /\ UNCHANGED <<fitPc, toWrite, files>>
    BY <1>2 DEF Fits
  <2>2. Measured(s, c)
    BY FramesSetAside DEF Measured
  <2>. HIDE DEF c
  <2>3. \A t \in Source : fitted'[t] = IF t = s THEN c ELSE fitted[t]
    BY <2>1
  <2>. QED  BY <2>1, <2>2, <2>3
<1>3. CASE Exits /\ UNCHANGED files
  BY <1>3 DEF Exits
<1>4. CASE Gate
  <2>1. CASE Exits
    BY <1>3, <1>4, <2>1 DEF Gate
  <2>2. CASE ~Exits
    <3>. DEFINE run == {s \in Source : fitted[s] # Unfit}
    <3>1. /\ \A s \in run : PassesGate(fitted[s])
          /\ toWrite' = run /\ UNCHANGED <<fitted, files>>
      BY <1>4, <2>2 DEF Gate
    <3>. QED  BY <3>1
  <2>. QED  BY <2>1, <2>2
<1>5. ASSUME NEW s \in Source, Writes(s) PROVE FitInv'
  <2>1. /\ fitPc = "writing" /\ s \in toWrite
        /\ files' = [files EXCEPT ![s] = fitted[s]]
    BY <1>5 DEF Writes
  <2>2. \A t \in Source : files'[t] = IF t = s THEN fitted[t] ELSE files[t]
    BY <2>1
  <2>3. \/ Exits
        \/ toWrite' = toWrite \ {s} /\ UNCHANGED <<fitPc, fitted>>
    BY <1>5 DEF Writes
  <2>4. CASE Exits
    BY <2>1, <2>2, <2>4 DEF Exits
  <2>5. CASE toWrite' = toWrite \ {s} /\ UNCHANGED <<fitPc, fitted>>
    BY <2>1, <2>2, <2>5
  <2>. QED  BY <2>3, <2>4, <2>5
<1>6. ASSUME NEW s \in Source, DiesWritingFile(s) PROVE FitInv'
  <2>1. files' = [files EXCEPT ![s] = Truncated] /\ Exits
    BY <1>6 DEF DiesWritingFile
  <2>2. \A t \in Source : files'[t] = IF t = s THEN Truncated ELSE files[t]
    BY <2>1
  <2>. QED  BY <2>1, <2>2 DEF Exits
<1>. QED  BY <1>1, <1>2, <1>3, <1>4, <1>5, <1>6 DEF HomographyNext, FitDies

LEMMA AcceptedFilesMeasured ==
  ASSUME FitInv
  PROVE  StartsOnWellMeasured
<1>1. SUFFICES ASSUME NEW bindings \in Bindings, Accepted(bindings), NEW s \in Source
               PROVE  \E i \in Source :
                        /\ bindings[i].source = s
                        /\ LET c == files[bindings[i].file] IN
                             /\ c.source = s /\ ~c.off
                             /\ c.measured # {} /\ c.measured \cap c.seen = {}
  BY DEF StartsOnWellMeasured
<1>. DEFINE b == [i \in Source |->
                    LET file == files[bindings[i].file]
                    IN [bound |-> bindings[i].source, declared |-> file.source,
                        sized |-> file.size = "mux", sound |-> file.sound]]
<1>2. /\ Bound(b) /\ DOMAIN b = Source
      /\ \A i \in Source : files[bindings[i].file] \notin {Unfit, Truncated}
  <2>1. Bound(b)
    BY <1>1, Zenon DEF Accepted
  <2>2. \A i \in Source : files[bindings[i].file] \notin {Unfit, Truncated}
    BY <1>1, Zenon DEF Accepted
  <2>. QED  BY <2>1, <2>2
<1>3. \A i \in Source : /\ b[i].bound = bindings[i].source
                        /\ b[i].declared = files[bindings[i].file].source
  OBVIOUS
<1>. HIDE DEF b
<1>4. PICK i \in Source : b[i].bound = s
  BY <1>2 DEF Bound
<1>5. bindings[i].source = s /\ files[bindings[i].file].source = s
  BY <1>2, <1>3, <1>4 DEF Bound
<1>6. bindings[i].file \in Source
  BY DEF Bindings
<1>. QED  BY <1>2, <1>5, <1>6 DEF FitInv, Measured, PassesGate

\* multi_stream.py never starts on a calibration that was not held to the limits
\* on frames set aside for it, or on another camera's.
THEOREM WellMeasured == Spec => []StartsOnWellMeasured
<1>1. Init => FitInv
  BY DEF Init, HomographyInit, FitInv
<1>2. FitInv /\ [Next]_vars => FitInv'
  <2>1. SUFFICES ASSUME FitInv, [Next]_vars PROVE FitInv'
    OBVIOUS
  <2>2. CASE HomographyNext
    BY <2>1, <2>2, FitStep
  <2>3. CASE UNCHANGED fitVars
    BY <2>1, <2>3 DEF fitVars, FitInv
  <2>. QED  BY <2>1, <2>2, <2>3 DEF Next, vars
<1>3. FitInv => StartsOnWellMeasured
  BY AcceptedFilesMeasured
<1>. QED  BY <1>1, <1>2, <1>3, PTL DEF Spec

-----------------------------------------------------------------------------
(* Recordings.                                                              *)

\* What a row says was observed.
RowObservation(r) == Observation(r.source, r.generation, r.object, r.bucket)

RowFields == {"source", "frame", "object", "box", "generation", "bucket", "accepted"}

\* Every observation the worker was given, fused or not.
Given == fused \cup Evidence(queue \cup discarded)

\* A row of an accepted box with an extent.
Sound(r) == r.box = "person" /\ r.accepted

\* Every observation the worker was given is on its way, in the files or lost with
\* its receipt, and every row that claims an accepted observation tells the truth.
EvidenceFollowed ==
  /\ images \in Nat
  /\ \A i \in inFlight : /\ i.bucket \in Nat
                         /\ i.accepted => Observations(i) \subseteq Given
  /\ \A r \in csv : DOMAIN r = RowFields
  /\ \A r \in csv : Sound(r) => r.bucket # NoBucket /\ RowObservation(r) \in Given
  /\ \A e \in Given :
       \/ e \in unwritten
       \/ \E i \in inFlight : i.accepted /\ e \in Observations(i)
       \/ \E r \in csv : Sound(r) /\ e = RowObservation(r)

\* The row of an object under its receipt.
LEMMA RowOf ==
  ASSUME NEW i, NEW o, NEW found \in BOOLEAN, i.bucket \in Nat
  PROVE  LET r == Row(i, o, found) IN
           /\ DOMAIN r = RowFields
           /\ Sound(r) <=> i.dets[o] = "person" /\ found /\ i.accepted
           /\ Sound(r) => /\ r.bucket # NoBucket
                           /\ RowObservation(r) = Observation(i.source, i.generation, o, i.bucket)
<1>. DEFINE r == Row(i, o, found)
<1>1. /\ r.source = i.source /\ r.object = o /\ r.box = i.dets[o]
      /\ r.generation = IF found THEN i.generation ELSE -1
      /\ r.bucket = IF found THEN i.bucket ELSE NoBucket
  BY DEF Row
<1>2. r.accepted <=> found /\ i.accepted
  BY DEF Row
<1>3. i.bucket # NoBucket
  BY DEF NoBucket
<1>6. DOMAIN r = RowFields
  BY DEF Row, RowFields
<1>. HIDE DEF r
<1>4. Sound(r) <=> i.dets[o] = "person" /\ found /\ i.accepted
  BY <1>1, <1>2, Zenon DEF Sound
<1>5. ASSUME found
      PROVE  /\ r.bucket # NoBucket
             /\ RowObservation(r) = Observation(i.source, i.generation, o, i.bucket)
  BY <1>1, <1>3, <1>5 DEF RowObservation
<1>. QED  BY <1>4, <1>5, <1>6 DEF r

LEMMA ObservationsOf ==
  ASSUME NEW i, NEW e
  PROVE  e \in Observations(i) <=>
           \E o \in DOMAIN i.dets : /\ i.dets[o] = "person"
                                    /\ e = Observation(i.source, i.generation, o, i.bucket)
BY DEF Observations, Projected

LEMMA RecordingStep ==
  ASSUME EvidenceFollowed, RecordingNext
  PROVE  EvidenceFollowed'
<1>. USE DEF EvidenceFollowed
<1>1. ASSUME NEW s, NEW raw, NEW accepted \in BOOLEAN, MuxProbe(s, raw, accepted)
      PROVE  EvidenceFollowed'
  <2>. DEFINE image == [source |-> s, generation |-> generation[s], bucket |-> images,
                        frame |-> images, accepted |-> accepted, dets |-> Decoded(raw)]
  <2>1. /\ images' = images + 1 /\ inFlight' = inFlight \cup {image}
        /\ queue' = IF accepted THEN queue \cup {image} ELSE queue
        /\ UNCHANGED <<fused, discarded, csv, unwritten>>
    BY <1>1 DEF MuxProbe
  <2>2. image.bucket \in Nat /\ (image.accepted <=> accepted)
    OBVIOUS
  <2>. HIDE DEF image
  <2>3. Given' = IF accepted THEN Given \cup Observations(image) ELSE Given
    BY <2>1 DEF Given, Evidence
  <2>. QED  BY <2>1, <2>2, <2>3
<1>2. ASSUME NEW i \in inFlight, NEW found \in BOOLEAN, BranchProbe(i, found)
      PROVE  EvidenceFollowed'
  <2>1. /\ inFlight' = inFlight \ {i} /\ UNCHANGED <<workerVars, images>>
        /\ csv' = csv \cup {Row(i, o, found) : o \in DOMAIN i.dets}
        /\ unwritten' = IF found THEN unwritten ELSE unwritten \cup Observations(i)
    BY <1>2 DEF BranchProbe
  <2>5. Given' = Given
    BY <2>1 DEF workerVars, Given
  <2>2. ASSUME NEW o \in DOMAIN i.dets, Sound(Row(i, o, found))
        PROVE  /\ Row(i, o, found).bucket # NoBucket
               /\ RowObservation(Row(i, o, found)) \in Given
    <3>1. i.dets[o] = "person" /\ i.accepted
      BY <2>2, RowOf
    <3>2. Observation(i.source, i.generation, o, i.bucket) \in Given
      BY <3>1, ObservationsOf
    <3>. QED  BY <2>2, <3>2, RowOf
  <2>3. ASSUME NEW e \in Given, i.accepted, e \in Observations(i)
        PROVE  \/ e \in unwritten'
               \/ \E r \in csv' : Sound(r) /\ e = RowObservation(r)
    <3>1. CASE found
      <4>1. PICK o \in DOMAIN i.dets : /\ i.dets[o] = "person"
                                       /\ e = Observation(i.source, i.generation, o, i.bucket)
        BY <2>3, ObservationsOf
      <4>2. Sound(Row(i, o, found)) /\ e = RowObservation(Row(i, o, found))
        BY <2>3, <3>1, <4>1, RowOf
      <4>. QED  BY <2>1, <4>2
    <3>2. CASE ~found
      BY <2>1, <2>3, <3>2
    <3>. QED  BY <3>1, <3>2
  <2>4. \A o \in DOMAIN i.dets : DOMAIN Row(i, o, found) = RowFields
    BY RowOf
  <2>. QED  BY <2>1, <2>2, <2>3, <2>4, <2>5
<1>3. ASSUME NEW s, Reconnects(s) PROVE EvidenceFollowed'
  BY <1>3 DEF Reconnects, workerVars, Given
<1>4. ASSUME NEW i \in queue, Fuse(i) PROVE EvidenceFollowed'
  <2>1. Given' = Given /\ UNCHANGED <<images, inFlight, csv, unwritten>>
    BY <1>4 DEF Fuse, Given, Evidence
  <2>. QED  BY <2>1
<1>5. CASE WorkerFails
  <2>1. Given' = Given /\ UNCHANGED <<images, inFlight, csv, unwritten>>
    BY <1>5 DEF WorkerFails, Given, Evidence
  <2>. QED  BY <2>1
<1>. QED  BY <1>1, <1>2, <1>3, <1>4, <1>5 DEF RecordingNext

\* Loading a row changes nothing that is read of a usable one.
LEMMA LoadedRow ==
  ASSUME NEW r, DOMAIN r = RowFields,
         NEW l, l = [r EXCEPT !.bucket = IF @ = NoBucket THEN r.frame ELSE @]
  PROVE  /\ Sound(l) <=> Sound(r)
         /\ r.bucket # NoBucket => RowObservation(l) = RowObservation(r)
<1>1. l.box = r.box /\ l.accepted = r.accepted
  BY DEF RowFields
<1>2. l.source = r.source /\ l.generation = r.generation /\ l.object = r.object
  BY DEF RowFields
<1>3. r.bucket # NoBucket => l.bucket = r.bucket
  BY DEF RowFields
<1>. QED  BY <1>1, <1>2, <1>3 DEF Sound, RowObservation

\* Fusing the CSV files of a run again works, boxes without extent aside, on
\* observations the run gave its worker, in the same buckets and generations, and
\* misses only those of frames in flight and of frames that lost their receipt.
THEOREM SameEvidence == Spec => []OfflineUsesOnlineEvidence
<1>1. Init => EvidenceFollowed
  BY DEF Init, RecordingInit, EvidenceFollowed, Given, Evidence
<1>2. EvidenceFollowed /\ [Next]_vars => EvidenceFollowed'
  <2>1. SUFFICES ASSUME EvidenceFollowed, [Next]_vars PROVE EvidenceFollowed'
    OBVIOUS
  <2>2. CASE RecordingNext
    BY <2>1, <2>2, RecordingStep
  <2>3. CASE UNCHANGED recordingVars
    BY <2>1, <2>3 DEF recordingVars, workerVars, EvidenceFollowed, Given
  <2>. QED  BY <2>1, <2>2, <2>3 DEF Next, vars
<1>3. ASSUME EvidenceFollowed PROVE OfflineUsesOnlineEvidence
  <2>1. ASSUME NEW q \in Loaded(Solid(csv)), Usable(q)
        PROVE  Observation(q.source, q.generation, q.object, q.bucket) \in Given
    <3>1. PICK r \in csv : /\ r.box # "flat"
                           /\ q = [r EXCEPT !.bucket = IF @ = NoBucket THEN r.frame ELSE @]
      BY DEF Loaded, Solid
    <3>2. q.box = r.box
      BY <1>3, <3>1 DEF EvidenceFollowed, RowFields
    <3>3. Sound(q)
      BY <2>1, <3>1, <3>2 DEF Usable, Sound
    <3>4. Sound(r) /\ RowObservation(r) \in Given /\ RowObservation(q) = RowObservation(r)
      BY <1>3, <3>1, <3>3, LoadedRow DEF EvidenceFollowed
    <3>. QED  BY <3>4 DEF RowObservation
  <2>2. ASSUME NEW r \in csv, Sound(r), r.bucket # NoBucket
        PROVE  RowObservation(r) \in OfflineEvidence(Solid(csv))
    <3>. DEFINE l == [r EXCEPT !.bucket = IF @ = NoBucket THEN r.frame ELSE @]
    <3>1. l \in Loaded(Solid(csv))
      BY <2>2 DEF Loaded, Solid, Sound
    <3>2. Sound(l) /\ RowObservation(l) = RowObservation(r)
      BY <1>3, <2>2, LoadedRow DEF EvidenceFollowed
    <3>3. Usable(l)
      BY <3>2 DEF Usable, Sound
    <3>. HIDE DEF l
    <3>. QED  BY <3>1, <3>2, <3>3 DEF OfflineEvidence, RowObservation
  <2>3. OfflineEvidence(Solid(csv)) \subseteq Given
    BY <2>1 DEF OfflineEvidence
  <2>4. ASSUME NEW e \in fused
        PROVE  e \in OfflineEvidence(Solid(csv)) \cup unwritten \cup Evidence(inFlight)
    <3>1. e \in Given
      BY DEF Given
    <3>. QED  BY <1>3, <2>2, <3>1 DEF EvidenceFollowed, Evidence
  <2>. QED  BY <2>3, <2>4 DEF OfflineUsesOnlineEvidence, Given
<1>. QED  BY <1>1, <1>2, <1>3, PTL DEF Spec

-----------------------------------------------------------------------------
(* Greedy matching.  A pair that is not taken loses to a better one that is *)
(* and shares a box with it; nothing else about the loop is needed.         *)

Boxes(as, bs, iou) ==
  /\ as \subseteq Nat /\ bs \subseteq Nat /\ IsFiniteSet(as) /\ IsFiniteSet(bs)
  /\ \A p \in as \X bs : iou[p] \in Nat

ShareBox(p, q) == p[1] = q[1] \/ p[2] = q[2]

NotWorse(p, q, iou) == p = q \/ TriedBefore(p, q, iou)

Stable(candidates, taken, iou) ==
  /\ taken \subseteq candidates
  /\ \A p, q \in taken : ShareBox(p, q) => p = q
  /\ \A p \in candidates : \E q \in taken : ShareBox(q, p) /\ NotWorse(q, p, iou)

\* Pairs of boxes that the order of the loop can compare.
Weighed(T, iou) == T \subseteq Nat \X Nat /\ \A p \in T : iou[p] \in Nat

LEMMA TriedOrder ==
  ASSUME NEW T, NEW iou, Weighed(T, iou)
  PROVE  /\ \A p, q \in T : p # q => TriedBefore(p, q, iou) \/ TriedBefore(q, p, iou)
         /\ \A p, q, r \in T : TriedBefore(p, q, iou) /\ TriedBefore(q, r, iou)
                                 => TriedBefore(p, r, iou)
         /\ \A p \in T : ~TriedBefore(p, p, iou)
<1>1. \A p \in T : p[1] \in Nat /\ p[2] \in Nat /\ iou[p] \in Nat
  BY DEF Weighed
<1>2. \A p, q \in T : p[1] = q[1] /\ p[2] = q[2] => p = q
  BY DEF Weighed
<1>3. ASSUME NEW p \in T, NEW q \in T, p # q
      PROVE  TriedBefore(p, q, iou) \/ TriedBefore(q, p, iou)
  <2>1. p[1] # q[1] \/ p[2] # q[2]
    BY <1>2, <1>3
  <2>. QED  BY <1>1, <2>1 DEF TriedBefore
<1>4. ASSUME NEW p \in T, NEW q \in T, NEW r \in T,
             TriedBefore(p, q, iou), TriedBefore(q, r, iou)
      PROVE  TriedBefore(p, r, iou)
  BY <1>1, <1>4 DEF TriedBefore
<1>5. ASSUME NEW p \in T PROVE ~TriedBefore(p, p, iou)
  BY <1>1 DEF TriedBefore
<1>. QED  BY <1>3, <1>4, <1>5

LastTried(S, iou) == CHOOSE p \in S : \A q \in S \ {p} : TriedBefore(q, p, iou)

LEMMA LastTriedIs ==
  ASSUME NEW S, IsFiniteSet(S), S # {}, NEW iou, Weighed(S, iou)
  PROVE  /\ LastTried(S, iou) \in S
         /\ \A q \in S \ {LastTried(S, iou)} : TriedBefore(q, LastTried(S, iou), iou)
<1>. DEFINE R == {ss \in S \X S : TriedBefore(ss[1], ss[2], iou)}
<1>1. \A p, q \in S : <<p, q>> \in R <=> TriedBefore(p, q, iou)
  OBVIOUS
<1>. HIDE DEF R
<1>2. \E w \in S : \A q \in S \ {w} : <<q, w>> \in R
  <2>1. \A p, q \in S : p # q => <<p, q>> \in R \/ <<q, p>> \in R
    BY <1>1, TriedOrder
  <2>2. \A p, q, r \in S : <<p, q>> \in R /\ <<q, r>> \in R => <<p, r>> \in R
    BY <1>1, TriedOrder
  <2>. QED  BY <2>1, <2>2, LastExists
<1>3. \E w \in S : \A q \in S \ {w} : TriedBefore(q, w, iou)
  BY <1>1, <1>2
<1>. QED  BY <1>3, Zenon DEF LastTried

\* taken[S] is what the loop has taken once the pairs of S were tried.
Loop(taken, T, iou) ==
  \A S \in SUBSET T :
    taken[S] = IF S = {} THEN {}
               ELSE Take(taken[S \ {LastTried(S, iou)}], LastTried(S, iou))

LEMMA MatchesLoop ==
  ASSUME NEW as, NEW bs, NEW iou, Boxes(as, bs, iou)
  PROVE  \E taken : /\ Loop(taken, Candidates(as, bs, iou), iou)
                    /\ Matches(as, bs, iou) = taken[Candidates(as, bs, iou)]
<1>. DEFINE T == Candidates(as, bs, iou)
            V == SUBSET T
            final(S) == LastTried(S, iou)
            less == [S \in SUBSET T |-> IF S = {} THEN {} ELSE S \ {final(S)}]
            step == [ss \in (SUBSET T) \X V |->
                       IF ss[1] = {} THEN {} ELSE Take(ss[2], final(ss[1]))]
<1>1. IsFiniteSet(T) /\ Weighed(T, iou)
  <2>1. IsFiniteSet(as \X bs)
    BY FS_Product DEF Boxes
  <2>2. T \subseteq as \X bs
    BY DEF Candidates
  <2>3. IsFiniteSet(T)
    BY <2>1, <2>2, FS_Subset
  <2>. QED  BY <2>2, <2>3 DEF Boxes, Weighed
<1>. HIDE DEF T
<1>2. \A S \in SUBSET T : S # {} => final(S) \in S
  <2>1. ASSUME NEW S \in SUBSET T, S # {} PROVE final(S) \in S
    <3>1. IsFiniteSet(S) /\ Weighed(S, iou)
      BY <1>1, FS_Subset DEF Weighed
    <3>. QED  BY <2>1, <3>1, LastTriedIs
  <2>. QED  BY <2>1
<1>. HIDE DEF final
<1>3. less \in [SUBSET T -> SUBSET T] /\ Shrinking(less, T)
  BY <1>2 DEF Shrinking
<1>4. step \in [(SUBSET T) \X V -> V]
  <2>1. ASSUME NEW ss \in (SUBSET T) \X V
        PROVE  (IF ss[1] = {} THEN {} ELSE Take(ss[2], final(ss[1]))) \in V
    BY <1>2 DEF Take, ShareBox
  <2>. QED  BY <2>1
<1>5. PICK f \in [SUBSET T -> V] : Recursive(f, T, {}, less, step)
  <2>1. {} \in V
    OBVIOUS
  <2>. HIDE DEF less, step, V
  <2>. QED  BY <1>1, <1>3, <1>4, <2>1, RecursionExists
<1>6. \A S \in SUBSET T : f[S] = IF S = {} THEN {} ELSE Take(f[S \ {final(S)}], final(S))
  <2>1. ASSUME NEW S \in SUBSET T, S # {} PROVE f[S] = Take(f[S \ {final(S)}], final(S))
    <3>1. less[S] = S \ {final(S)} /\ less[S] \in SUBSET T
      BY <1>3, <2>1
    <3>2. f[less[S]] \in V
      BY <3>1
    <3>3. step[<<S, f[less[S]]>>] = Take(f[less[S]], final(S))
      BY <2>1, <3>2
    <3>. QED  BY <1>5, <2>1, <3>1, <3>3 DEF Recursive
  <2>2. f[{}] = {}
    BY <1>5 DEF Recursive
  <2>. HIDE DEF less, step
  <2>. QED  BY <2>1, <2>2
<1>. DEFINE turns(g) ==
             [S \in SUBSET T |->
                IF S = {} THEN {}
                ELSE LET last == CHOOSE p \in S : \A q \in S \ {p} : TriedBefore(q, p, iou)
                     IN Take(g[S \ {last}], last)]
            taken == CHOOSE g : g = turns(g)
<1>7. f = turns(f)
  <2>1. f = [S \in SUBSET T |-> IF S = {} THEN {} ELSE Take(f[S \ {final(S)}], final(S))]
    BY <1>6
  <2>. QED  BY <2>1, Zenon DEF final, LastTried
<1>8. taken = turns(taken)
  <2>. HIDE DEF turns
  <2>. QED  BY <1>7, Zenon
<1>9. Loop(taken, T, iou)
  <2>. HIDE DEF taken
  <2>. QED  BY <1>8 DEF Loop, LastTried
<1>10. Matches(as, bs, iou) = taken[T]
  BY Zenon DEF Matches, T
<1>. HIDE DEF taken
<1>. QED  BY <1>9, <1>10 DEF T

LEMMA MatchesStable ==
  ASSUME NEW as, NEW bs, NEW iou, Boxes(as, bs, iou)
  PROVE  Stable(Candidates(as, bs, iou), Matches(as, bs, iou), iou)
<1>. DEFINE T == Candidates(as, bs, iou)
<1>1. IsFiniteSet(T) /\ Weighed(T, iou)
  <2>1. IsFiniteSet(as \X bs)
    BY FS_Product DEF Boxes
  <2>2. T \subseteq as \X bs
    BY DEF Candidates
  <2>3. IsFiniteSet(T)
    BY <2>1, <2>2, FS_Subset
  <2>. QED  BY <2>2, <2>3 DEF Boxes, Weighed
<1>2. PICK taken : Loop(taken, T, iou) /\ Matches(as, bs, iou) = taken[T]
  BY MatchesLoop
<1>. HIDE DEF T
<1>. DEFINE Bad == {S \in SUBSET T : ~Stable(S, taken[S], iou)}
<1>3. SUFFICES ASSUME Bad # {} PROVE FALSE
  BY <1>2 DEF T
<1>4. PICK S \in Bad : \A D \in Bad : D \subseteq S => D = S
  <2>1. Bad \in SUBSET (SUBSET T)
    OBVIOUS
  <2>. HIDE DEF Bad
  <2>. QED  BY <1>1, <1>3, <2>1, SmallestSet
<1>5. S # {}
  <2>1. taken[{}] = {}
    BY <1>2 DEF Loop
  <2>2. Stable({}, {}, iou)
    BY DEF Stable
  <2>. QED  BY <2>1, <2>2
<1>. DEFINE w == LastTried(S, iou)  before == taken[S \ {w}]
<1>6. w \in S /\ \A q \in S \ {w} : TriedBefore(q, w, iou)
  <2>1. IsFiniteSet(S) /\ Weighed(S, iou)
    BY <1>1, FS_Subset DEF Weighed
  <2>. QED  BY <1>5, <2>1, LastTriedIs
<1>7. taken[S] = Take(before, w)
  BY <1>2, <1>5 DEF Loop
<1>. HIDE DEF w
<1>8. Stable(S \ {w}, before, iou)
  <2>1. S \ {w} \subseteq S /\ S \ {w} # S /\ S \ {w} \in SUBSET T
    BY <1>6
  <2>. QED  BY <1>4, <2>1
<1>. HIDE DEF before
<1>9. CASE \E q \in before : ShareBox(q, w)
  <2>1. taken[S] = before
    BY <1>7, <1>9 DEF Take, ShareBox
  <2>2. \E q \in before : ShareBox(q, w) /\ NotWorse(q, w, iou)
    BY <1>6, <1>8, <1>9 DEF Stable, NotWorse
  <2>3. Stable(S, before, iou)
    BY <1>8, <2>2 DEF Stable
  <2>. QED  BY <2>1, <2>3
<1>10. CASE ~\E q \in before : ShareBox(q, w)
  <2>1. taken[S] = before \cup {w}
    BY <1>7, <1>10 DEF Take, ShareBox
  <2>2. \A p, q \in before \cup {w} : ShareBox(p, q) => p = q
    BY <1>8, <1>10 DEF Stable, ShareBox
  <2>3. ShareBox(w, w) /\ NotWorse(w, w, iou)
    BY DEF ShareBox, NotWorse
  <2>4. Stable(S, before \cup {w}, iou)
    BY <1>6, <1>8, <2>2, <2>3 DEF Stable
  <2>. QED  BY <2>1, <2>4
<1>. QED  BY <1>9, <1>10

\* With more boxes on one side, every box of the other that was matched still is,
\* and to no worse a partner.
LEMMA MatchedStays ==
  ASSUME NEW as, NEW bs, NEW fewer \in SUBSET bs, NEW iou, Boxes(as, bs, iou),
         NEW p \in Matches(as, fewer, iou)
  PROVE  \E r \in Matches(as, bs, iou) : r[1] = p[1] /\ NotWorse(r, p, iou)
<1>. DEFINE T == Candidates(as, bs, iou)     M == Matches(as, bs, iou)
            F == Candidates(as, fewer, iou)  N == Matches(as, fewer, iou)
            Kept(x) == \E r \in M : r[1] = x[1] /\ NotWorse(r, x, iou)
            Bad == {x \in N : ~Kept(x)}
<1>1. Boxes(as, fewer, iou)
  BY FS_Subset DEF Boxes
<1>2. Stable(T, M, iou) /\ Stable(F, N, iou)
  BY <1>1, MatchesStable
<1>3. /\ F \subseteq T /\ IsFiniteSet(F) /\ Weighed(T, iou)
      /\ \A x \in T, y \in F : x[2] = y[2] => x \in F
  <2>1. IsFiniteSet(as \X fewer)
    BY <1>1, FS_Product DEF Boxes
  <2>2. F \subseteq as \X fewer /\ T \subseteq as \X bs
    BY DEF Candidates
  <2>3. IsFiniteSet(F)
    BY <2>1, <2>2, FS_Subset
  <2>4. \A x \in T, y \in F : x[2] = y[2] => x \in F
    BY DEF Candidates
  <2>5. F \subseteq T
    BY DEF Candidates
  <2>. QED  BY <2>2, <2>3, <2>4, <2>5 DEF Boxes, Weighed
<1>. HIDE DEF T, M, F, N
<1>4. SUFFICES ASSUME Bad # {} PROVE FALSE
  BY DEF M, N
<1>5. Bad \subseteq F /\ IsFiniteSet(Bad)
  BY <1>2, <1>3, FS_Subset DEF Stable
<1>. DEFINE R == {ss \in Bad \X Bad : TriedBefore(ss[2], ss[1], iou)}
<1>6. \A x, y \in Bad : <<x, y>> \in R <=> TriedBefore(y, x, iou)
  OBVIOUS
<1>. HIDE DEF R, Bad
<1>7. PICK x \in Bad : \A y \in Bad \ {x} : TriedBefore(x, y, iou)
  <2>1. \A y, z \in Bad : y # z => <<y, z>> \in R \/ <<z, y>> \in R
    BY <1>3, <1>5, <1>6, TriedOrder
  <2>2. \A y, z, u \in Bad : <<y, z>> \in R /\ <<z, u>> \in R => <<y, u>> \in R
    BY <1>3, <1>5, <1>6, TriedOrder
  <2>3. \E z \in Bad : \A y \in Bad \ {z} : <<y, z>> \in R
    BY <1>4, <1>5, <2>1, <2>2, LastExists
  <2>. QED  BY <1>6, <2>3
<1>8. x \in N /\ x \in F /\ x \in T /\ ~Kept(x)
  BY <1>3, <1>5 DEF Bad
<1>9. PICK q \in M : ShareBox(q, x) /\ NotWorse(q, x, iou)
  BY <1>2, <1>8 DEF Stable
<1>10. q[2] = x[2] /\ q # x /\ TriedBefore(q, x, iou) /\ q \in F /\ q \in T
  <2>1. q[1] # x[1]
    BY <1>8, <1>9
  <2>2. q \in T
    BY <1>2 DEF Stable
  <2>. QED  BY <1>3, <1>8, <1>9, <2>1, <2>2 DEF ShareBox, NotWorse
<1>11. PICK r \in N : ShareBox(r, q) /\ NotWorse(r, q, iou)
  BY <1>2, <1>10 DEF Stable
<1>12. r \in T /\ TriedBefore(r, x, iou) /\ r # x
  <2>1. r \in T
    BY <1>2, <1>3 DEF Stable
  <2>2. TriedBefore(r, x, iou)
    BY <1>3, <1>8, <1>10, <1>11, <2>1, TriedOrder DEF NotWorse
  <2>. QED  BY <1>3, <1>8, <2>1, <2>2, TriedOrder
<1>13. r[1] = q[1]
  BY <1>2, <1>8, <1>10, <1>11, <1>12 DEF Stable, ShareBox
<1>14. r \notin Bad
  <2>1. ~(TriedBefore(x, r, iou) /\ TriedBefore(r, x, iou))
    BY <1>3, <1>8, <1>12, TriedOrder
  <2>. QED  BY <1>7, <1>12, <2>1
<1>15. PICK y \in M : y[1] = r[1] /\ NotWorse(y, r, iou)
  BY <1>11, <1>14 DEF Bad
<1>16. y = q
  BY <1>2, <1>13, <1>15 DEF Stable, ShareBox
<1>17. r = q
  <2>1. ~(TriedBefore(q, r, iou) /\ TriedBefore(r, q, iou))
    BY <1>3, <1>10, <1>12, TriedOrder
  <2>. QED  BY <1>11, <1>15, <1>16, <2>1 DEF NotWorse
<1>. QED  BY <1>2, <1>8, <1>10, <1>11, <1>12, <1>17 DEF Stable, ShareBox

\* So there are as many matches at least.
LEMMA MatchesGrow ==
  ASSUME NEW as, NEW bs, NEW fewer \in SUBSET bs, NEW iou, Boxes(as, bs, iou)
  PROVE  /\ Cardinality(Matches(as, bs, iou)) \in Nat
         /\ Cardinality(Matches(as, fewer, iou)) \in Nat
         /\ Cardinality(Matches(as, fewer, iou)) <= Cardinality(Matches(as, bs, iou))
<1>. DEFINE M == Matches(as, bs, iou)  N == Matches(as, fewer, iou)
            partner == [p \in N |-> CHOOSE r \in M : r[1] = p[1]]
<1>1. Boxes(as, fewer, iou)
  BY FS_Subset DEF Boxes
<1>2. IsFiniteSet(M)
  <2>1. IsFiniteSet(as \X bs)
    BY FS_Product DEF Boxes
  <2>2. M \subseteq as \X bs
    BY MatchesStable DEF Stable, Candidates
  <2>. QED  BY <2>1, <2>2, FS_Subset
<1>3. \A p \in N : \E r \in M : r[1] = p[1]
  BY MatchedStays
<1>4. \A p, q \in N : p[1] = q[1] => p = q
  BY <1>1, MatchesStable DEF Stable, ShareBox
<1>. HIDE DEF M, N
<1>5. \A p \in N : partner[p] \in M /\ partner[p][1] = p[1]
  BY <1>3
<1>6. partner \in [N -> M]
  BY <1>5
<1>. HIDE DEF partner
<1>7. \A p, q \in N : partner[p] = partner[q] => p = q
  BY <1>4, <1>5
<1>8. partner \in Injection(N, M)
  BY <1>6, <1>7 DEF Injection, IsInjective
<1>9. IsFiniteSet(N) /\ Cardinality(N) <= Cardinality(M)
  BY <1>2, <1>8, FS_Injection
<1>. QED  BY <1>2, <1>9, FS_CardinalityType DEF M, N

SweepInv ==
  /\ confidence \in Seq(0..MaxLevel)
  /\ \A p \in Gt \X DOMAIN confidence : overlap[p] \in 0..MaxLevel

LEMMA SweepStep ==
  ASSUME SweepInv, Detect
  PROVE  SweepInv'
<1>. PICK c \in 0..MaxLevel, column \in [Gt -> 0..MaxLevel] :
       /\ confidence' = Append(confidence, c)
       /\ overlap' = [p \in Gt \X DOMAIN confidence' |->
                        IF p[2] \in DOMAIN confidence THEN overlap[p] ELSE column[p[1]]]
  BY DEF Detect
<1>1. confidence' \in Seq(0..MaxLevel)
  BY DEF SweepInv
<1>. HIDE DEF SweepInv
<1>2. ASSUME NEW p \in Gt \X DOMAIN confidence' PROVE overlap'[p] \in 0..MaxLevel
  <2>1. p[1] \in Gt /\ column[p[1]] \in 0..MaxLevel
    OBVIOUS
  <2>2. p[2] \in DOMAIN confidence => overlap[p] \in 0..MaxLevel
    <3>1. p = <<p[1], p[2]>>
      OBVIOUS
    <3>. QED  BY <2>1, <3>1 DEF SweepInv
  <2>3. overlap'[p] = IF p[2] \in DOMAIN confidence THEN overlap[p] ELSE column[p[1]]
    OBVIOUS
  <2>. QED  BY <2>1, <2>2, <2>3
<1>. QED  BY <1>1, <1>2 DEF SweepInv

LEMMA RecallMonotone ==
  ASSUME SweepInv
  PROVE  RecallFallsWithThreshold
<1>. SUFFICES ASSUME NEW t \in 0..MaxLevel
              PROVE  Swept(t + 1).tp <= Swept(t).tp /\ Swept(t + 1).fn >= Swept(t).fn
  BY DEF RecallFallsWithThreshold
<1>. DEFINE all == {j \in DOMAIN confidence : confidence[j] >= t}
            some == {j \in DOMAIN confidence : confidence[j] >= t + 1}
<1>0. Gt \subseteq Nat /\ IsFiniteSet(Gt) /\ MaxLevel \in Nat
  BY SweepAssumption
<1>1. some \subseteq all
  <2>1. \A j \in DOMAIN confidence : confidence[j] \in Nat
    BY <1>0 DEF SweepInv
  <2>. QED  BY <1>0, <2>1
<1>2. Boxes(Gt, all, overlap)
  <2>1. all \subseteq 1..Len(confidence) /\ Len(confidence) \in Nat
    BY DEF SweepInv
  <2>2. all \subseteq Nat /\ IsFiniteSet(all)
    <3>1. IsFiniteSet(1..Len(confidence))
      BY <2>1, FS_Interval
    <3>. QED  BY <2>1, <3>1, FS_Subset
  <2>3. \A p \in Gt \X all : overlap[p] \in Nat
    <3>1. Gt \X all \subseteq Gt \X DOMAIN confidence
      OBVIOUS
    <3>. HIDE DEF all
    <3>. QED  BY <1>0, <3>1 DEF SweepInv
  <2>. QED  BY <1>0, <2>2, <2>3 DEF Boxes
<1>. HIDE DEF all, some
<1>3. /\ Cardinality(Matches(Gt, all, overlap)) \in Nat
      /\ Cardinality(Matches(Gt, some, overlap)) \in Nat
      /\ Cardinality(Matches(Gt, some, overlap)) <= Cardinality(Matches(Gt, all, overlap))
  BY <1>1, <1>2, MatchesGrow
<1>4. Cardinality(Gt) \in Nat
  BY <1>0, FS_CardinalityType
<1>5. /\ Swept(t).tp = Cardinality(Matches(Gt, all, overlap))
      /\ Swept(t).fn = Cardinality(Gt) - Cardinality(Matches(Gt, all, overlap))
      /\ Swept(t + 1).tp = Cardinality(Matches(Gt, some, overlap))
      /\ Swept(t + 1).fn = Cardinality(Gt) - Cardinality(Matches(Gt, some, overlap))
  BY DEF Swept, Scores, all, some
<1>. QED  BY <1>3, <1>4, <1>5

\* Recall falls with the threshold for any boxes, overlaps and confidences.
THEOREM RecallFalls == Spec => []RecallFallsWithThreshold
<1>1. Init => SweepInv
  BY DEF Init, SweepInit, SweepInv
<1>2. SweepInv /\ [Next]_vars => SweepInv'
  <2>. SUFFICES ASSUME SweepInv, [Next]_vars PROVE SweepInv'
    OBVIOUS
  <2>1. CASE Detect
    BY <2>1, SweepStep
  <2>2. CASE UNCHANGED sweepVars
    BY <2>2 DEF sweepVars, SweepInv
  <2>. QED  BY <2>1, <2>2, Zenon DEF Next, vars, sweepVars
<1>. QED  BY <1>1, <1>2, RecallMonotone, PTL DEF Spec

-----------------------------------------------------------------------------
(* Agreement.  No disagreement means that the two assignments differ in the *)
(* names of the IDs only.                                                   *)

EvalInv ==
  /\ rows \subseteq (DOMAIN Tracklets) \X Frames
  /\ offline \in [DOMAIN Tracklets -> OfflineIds \cup {Unassigned}]
  /\ online \in [DOMAIN Tracklets -> OnlineIds \cup {Unassigned}]

\* The tracklets with a row, and two ways to name them that tell the same ones
\* apart.
Written == {r[1] : r \in rows}
SameNames(a, b) == \A k, l \in Written : a[k] = a[l] <=> b[k] = b[l]

LEMMA RowsFinite ==
  ASSUME EvalInv
  PROVE  /\ IsFiniteSet(DOMAIN Tracklets) /\ DOMAIN Tracklets \subseteq Nat
         /\ IsFiniteSet(rows) /\ Written \subseteq DOMAIN Tracklets
<1>. DEFINE Entry == [source : 0..9, generation : Nat, object : Nat, person : Nat]
<1>1. DOMAIN Tracklets = 1..Len(Tracklets) /\ Len(Tracklets) \in Nat
  <2>1. Tracklets \in Seq(Entry)
    BY EvaluationAssumption, Zenon
  <2>. HIDE DEF Entry
  <2>. QED  BY <2>1
<1>2. IsFiniteSet(DOMAIN Tracklets) /\ DOMAIN Tracklets \subseteq Nat
  <2>1. IsFiniteSet(1..Len(Tracklets))
    BY <1>1, FS_Interval
  <2>. QED  BY <1>1, <2>1
<1>3. IsFiniteSet(Frames)
  BY EvaluationAssumption
<1>4. IsFiniteSet((DOMAIN Tracklets) \X Frames)
  BY <1>2, <1>3, FS_Product
<1>5. IsFiniteSet(rows)
  BY <1>4, FS_Subset DEF EvalInv
<1>6. Written \subseteq DOMAIN Tracklets
  BY DEF EvalInv, Written
<1>. QED  BY <1>2, <1>5, <1>6

LEMMA FirstFrameIs ==
  ASSUME EvalInv, NEW r \in rows
  PROVE  FirstFrame(r[1]) \in Nat /\ r[2] \in Nat /\ r[2] >= FirstFrame(r[1])
<1>. DEFINE k == r[1]  T == {f \in Frames : <<k, f>> \in rows}
<1>1. Frames \subseteq Nat
  BY EvaluationAssumption
<1>2. r = <<k, r[2]>> /\ r[2] \in Frames
  BY DEF EvalInv
<1>. HIDE DEF k
<1>3. T \in SUBSET Nat /\ r[2] \in T
  BY <1>1, <1>2
<1>4. \E f \in T : \A g \in T : f <= g
  <2>. HIDE DEF T
  <2>. QED  BY <1>3, LeastNumber
<1>5. \E f \in Frames : <<k, f>> \in rows /\ \A g \in Frames : <<k, g>> \in rows => f <= g
  BY <1>4
<1>6. /\ FirstFrame(k) \in Frames
      /\ \A g \in Frames : <<k, g>> \in rows => FirstFrame(k) <= g
  BY <1>5, Zenon DEF FirstFrame
<1>. QED  BY <1>1, <1>2, <1>6 DEF k

\* The best naming is one of them, and no row is renamed that was not given.
LEMMA MatchedRowsIs ==
  ASSUME NEW both, IsFiniteSet(both)
  PROVE  \E m : /\ \A p, q \in m : p[1] = q[1] <=> p[2] = q[2]
                /\ MatchedRows(both) = Cardinality(Renamed(both, m))
<1>. DEFINE oneToOne == {m \in SUBSET (OfflineIds \X OnlineIds) :
                           \A p, q \in m : p[1] = q[1] <=> p[2] = q[2]}
            sizes == {Cardinality(Renamed(both, m)) : m \in oneToOne}
            left == {n \in Nat : \E o \in sizes : n = Cardinality(both) - o}
<1>1. Cardinality(both) \in Nat
  BY FS_CardinalityType
<1>2. \A o \in sizes : o \in Nat /\ o <= Cardinality(both)
  <2>1. ASSUME NEW m PROVE /\ Cardinality(Renamed(both, m)) \in Nat
                           /\ Cardinality(Renamed(both, m)) <= Cardinality(both)
    <3>1. Renamed(both, m) \subseteq both
      BY DEF Renamed
    <3>. QED  BY <3>1, FS_Subset, FS_CardinalityType
  <2>. QED  BY <2>1
<1>3. Cardinality(Renamed(both, {})) \in sizes
  OBVIOUS
<1>4. \E n \in sizes : \A o \in sizes : o <= n
  <2>. HIDE DEF sizes
  <2>1. left \in SUBSET Nat /\ left # {}
    <3>1. \A o \in sizes : Cardinality(both) - o \in Nat
      BY <1>1, <1>2
    <3>. QED  BY <1>3, <3>1
  <2>2. PICK x \in left : \A y \in left : x <= y
    <3>. HIDE DEF left
    <3>. QED  BY <2>1, LeastNumber
  <2>3. PICK n \in sizes : x = Cardinality(both) - n
    OBVIOUS
  <2>4. ASSUME NEW o \in sizes PROVE o <= n
    <3>1. Cardinality(both) - o \in left
      BY <1>1, <1>2
    <3>2. x <= Cardinality(both) - o
      BY <2>2, <3>1
    <3>. QED  BY <1>1, <1>2, <2>3, <3>2
  <2>. QED  BY <2>4
<1>5. MatchedRows(both) \in sizes
  <2>1. MatchedRows(both) = CHOOSE n \in sizes : \A o \in sizes : o <= n
    BY DEF MatchedRows
  <2>. HIDE DEF sizes
  <2>. QED  BY <1>4, <2>1
<1>. QED  BY <1>5

LEMMA AgreementNames ==
  ASSUME EvalInv, Disagreement(0) = 0
  PROVE  \A k, l \in Written :
           /\ offline[k] = Unassigned <=> online[k] = Unassigned
           /\ offline[k] # Unassigned /\ offline[l] # Unassigned =>
                (offline[k] = offline[l] <=> online[k] = online[l])
<1>. DEFINE all == {r \in rows : ~(offline[r[1]] = Unassigned /\ online[r[1]] = Unassigned)}
            both == AssignedOnBoth(0)
<1>1. Evaluated(0) = all
  <2>1. \A r \in rows : r[2] - FirstFrame(r[1]) >= 0
    BY FirstFrameIs
  <2>. QED  BY <2>1 DEF Evaluated
<1>2. IsFiniteSet(all) /\ Cardinality(all) \in Nat
  <2>1. IsFiniteSet(rows) /\ all \subseteq rows
    BY RowsFinite
  <2>. HIDE DEF all
  <2>. QED  BY <2>1, FS_Subset, FS_CardinalityType
<1>3. both \subseteq all /\ \A r \in both : offline[r[1]] # Unassigned /\ online[r[1]] # Unassigned
  BY <1>1 DEF AssignedOnBoth
<1>4. IsFiniteSet(both)
  <2>. HIDE DEF all, both
  <2>. QED  BY <1>2, <1>3, FS_Subset
<1>5. PICK m : /\ \A p, q \in m : p[1] = q[1] <=> p[2] = q[2]
               /\ MatchedRows(both) = Cardinality(Renamed(both, m))
  <2>. HIDE DEF both
  <2>. QED  BY <1>4, MatchedRowsIs
<1>6. Renamed(both, m) = all
  <2>1. Renamed(both, m) \subseteq all
    BY <1>3 DEF Renamed
  <2>2. Cardinality(all) - Cardinality(Renamed(both, m)) = 0
    BY <1>1, <1>5 DEF Disagreement
  <2>. HIDE DEF all, both
  <2>3. IsFiniteSet(Renamed(both, m)) /\ Cardinality(Renamed(both, m)) \in Nat
    BY <1>2, <2>1, FS_Subset, FS_CardinalityType
  <2>4. Cardinality(Renamed(both, m)) = Cardinality(all)
    BY <1>2, <2>2, <2>3
  <2>. QED  BY <1>2, <2>1, <2>4, FS_Subset
<1>7. \A r \in all : r \in both /\ <<offline[r[1]], online[r[1]]>> \in m
  <2>. HIDE DEF all, both
  <2>. QED  BY <1>6 DEF Renamed
<1>8. SUFFICES ASSUME NEW k \in Written, NEW l \in Written
               PROVE  /\ offline[k] = Unassigned <=> online[k] = Unassigned
                      /\ offline[k] # Unassigned /\ offline[l] # Unassigned =>
                           (offline[k] = offline[l] <=> online[k] = online[l])
  OBVIOUS
<1>9. PICK r \in rows, q \in rows : r[1] = k /\ q[1] = l
  BY DEF Written
<1>10. r \in all \/ (offline[k] = Unassigned /\ online[k] = Unassigned)
  BY <1>9
<1>11. offline[l] # Unassigned => q \in all
  BY <1>9
<1>12. r \in all => /\ offline[k] # Unassigned /\ online[k] # Unassigned
                    /\ <<offline[k], online[k]>> \in m
  <2>. HIDE DEF all, both
  <2>. QED  BY <1>3, <1>7, <1>9
<1>13. q \in all => <<offline[l], online[l]>> \in m
  <2>. HIDE DEF all, both
  <2>. QED  BY <1>7, <1>9
<1>. HIDE DEF all, both
<1>14. r \in all /\ q \in all => (offline[k] = offline[l] <=> online[k] = online[l])
  <2>1. ASSUME r \in all, q \in all PROVE offline[k] = offline[l] <=> online[k] = online[l]
    <3>. DEFINE x == <<offline[k], online[k]>>  y == <<offline[l], online[l]>>
    <3>1. x \in m /\ y \in m
      BY <1>12, <1>13, <2>1
    <3>2. x[1] = y[1] <=> x[2] = y[2]
      <4>. HIDE DEF x, y
      <4>. QED  BY <1>5, <3>1
    <3>. QED  BY <3>2
  <2>. QED  BY <2>1
<1>. QED  BY <1>10, <1>11, <1>12, <1>14

\* So the numbers _global_identity goes by tell the same tracklets apart.
LEMMA AgreementIdentities ==
  ASSUME EvalInv, Disagreement(0) = 0
  PROVE  SameNames(Shared(offline), Shared(online))
<1>. SUFFICES ASSUME NEW k \in Written, NEW l \in Written
              PROVE  Shared(offline)[k] = Shared(offline)[l] <=> Shared(online)[k] = Shared(online)[l]
  BY DEF SameNames
<1>1. k \in DOMAIN Tracklets /\ l \in DOMAIN Tracklets
  BY RowsFinite
<1>2. /\ offline[k] \in OfflineIds \cup {Unassigned} /\ offline[l] \in OfflineIds \cup {Unassigned}
      /\ online[k] \in OnlineIds \cup {Unassigned} /\ online[l] \in OnlineIds \cup {Unassigned}
  BY <1>1 DEF EvalInv
<1>3. /\ Fallback(k) \notin OfflineIds \cup OnlineIds
      /\ Fallback(l) \notin OfflineIds \cup OnlineIds
  BY <1>1, EvaluationAssumption
<1>4. /\ offline[k] = Unassigned <=> online[k] = Unassigned
      /\ offline[l] = Unassigned <=> online[l] = Unassigned
      /\ offline[k] # Unassigned /\ offline[l] # Unassigned =>
           (offline[k] = offline[l] <=> online[k] = online[l])
  BY AgreementNames
<1>5. /\ Shared(offline)[k] = IF offline[k] # Unassigned THEN offline[k] ELSE Fallback(k)
      /\ Shared(offline)[l] = IF offline[l] # Unassigned THEN offline[l] ELSE Fallback(l)
      /\ Shared(online)[k] = IF online[k] # Unassigned THEN online[k] ELSE Fallback(k)
      /\ Shared(online)[l] = IF online[l] # Unassigned THEN online[l] ELSE Fallback(l)
  BY <1>1 DEF Shared, Identity
<1>. QED  BY <1>2, <1>3, <1>4, <1>5

-----------------------------------------------------------------------------
(* Metrics.  A renaming of the IDs that tells the same tracklets apart      *)
(* changes none of them: counts are of sets that the renaming maps one to   *)
(* one.                                                                     *)

\* A one-to-one image has as many elements.
LEMMA ImageCount ==
  ASSUME NEW S, IsFiniteSet(S), NEW f, DOMAIN f = S, f = [x \in S |-> f[x]],
         \A x, y \in S : f[x] = f[y] => x = y
  PROVE  Cardinality({f[x] : x \in S}) = Cardinality(S)
<1>. DEFINE T == {f[x] : x \in S}
<1>1. f \in [S -> T]
  OBVIOUS
<1>2. \A y \in T : \E x \in S : f[x] = y
  OBVIOUS
<1>. HIDE DEF T
<1>3. f \in Surjection(S, T) /\ f \in Injection(S, T)
  BY <1>1, <1>2 DEF Surjection, Injection, IsInjective
<1>4. Cardinality(T) = Cardinality(S)
  BY <1>3, FS_Surjection
<1>. QED  BY <1>4 DEF T

\* What a stands for under b.
NewName(a, b) == [n \in {a[k] : k \in Written} |-> b[CHOOSE k \in Written : a[k] = n]]

LEMMA NewNameIs ==
  ASSUME NEW a, NEW b, SameNames(a, b)
  PROVE  /\ \A k \in Written : NewName(a, b)[a[k]] = b[k]
         /\ \A m, n \in {a[k] : k \in Written} : NewName(a, b)[m] = NewName(a, b)[n] => m = n
<1>1. ASSUME NEW k \in Written PROVE NewName(a, b)[a[k]] = b[k]
  <2>. DEFINE l == CHOOSE l \in Written : a[l] = a[k]
  <2>1. l \in Written /\ a[l] = a[k]
    OBVIOUS
  <2>2. NewName(a, b)[a[k]] = b[l]
    BY DEF NewName
  <2>. HIDE DEF l
  <2>. QED  BY <2>1, <2>2 DEF SameNames
<1>. QED  BY <1>1 DEF SameNames

\* The pairs of people and tracklets matched in an image, whatever the IDs.
Overlaps(f, s) == [p \in People(f, s) \X InImage(f, s) |->
                     IF Tracklets[p[2]].person = p[1] THEN 1 ELSE 0]
Matched(f, s) == Matches(People(f, s), InImage(f, s), Overlaps(f, s))

Persons == {Tracklets[k].person : k \in DOMAIN Tracklets}

LEMMA TrackletFields ==
  \A k \in DOMAIN Tracklets : Tracklets[k].person \in Nat
<1>. DEFINE Entry == [source : 0..9, generation : Nat, object : Nat, person : Nat]
<1>1. Tracklets \in Seq(Entry)
  BY EvaluationAssumption, Zenon
<1>2. \A e \in Entry : e.person \in Nat
  OBVIOUS
<1>. HIDE DEF Entry
<1>. QED  BY <1>1, <1>2

LEMMA MatchedIs ==
  ASSUME EvalInv, NEW f \in Frames, NEW s
  PROVE  \A p \in Matched(f, s) : p[1] \in Persons /\ p[2] \in Written
<1>. DEFINE as == People(f, s)  bs == InImage(f, s)
<1>1. bs \subseteq DOMAIN Tracklets /\ bs \subseteq Written
  BY DEF InImage, Written
<1>2. bs \subseteq Nat /\ IsFiniteSet(bs)
  <2>. HIDE DEF bs
  <2>. QED  BY <1>1, RowsFinite, FS_Subset
<1>3. as = {Tracklets[k].person : k \in bs} /\ as \subseteq Persons
  BY <1>1 DEF People, Persons
<1>4. as \subseteq Nat
  <2>1. \A k \in DOMAIN Tracklets : Tracklets[k].person \in Nat
    BY TrackletFields
  <2>. QED  BY <1>1, <1>3, <2>1
<1>5. IsFiniteSet(as)
  <2>. DEFINE g == [k \in bs |-> Tracklets[k].person]
  <2>1. as = {g[k] : k \in bs}
    BY <1>3
  <2>2. DOMAIN g = bs /\ g = [k \in bs |-> g[k]]
    OBVIOUS
  <2>. HIDE DEF as, bs, g
  <2>. QED  BY <1>2, <2>1, <2>2, ImageFinite
<1>6. Boxes(as, bs, Overlaps(f, s))
  <2>1. \A p \in as \X bs : Overlaps(f, s)[p] \in Nat
    BY DEF Overlaps
  <2>. HIDE DEF as, bs
  <2>. QED  BY <1>2, <1>4, <1>5, <2>1 DEF Boxes
<1>7. Matched(f, s) \subseteq as \X bs
  <2>. HIDE DEF as, bs
  <2>1. Stable(Candidates(as, bs, Overlaps(f, s)), Matches(as, bs, Overlaps(f, s)), Overlaps(f, s))
    BY <1>6, MatchesStable
  <2>. QED  BY <2>1 DEF Stable, Candidates, Matched, as, bs
<1>. QED  BY <1>1, <1>3, <1>7

LEMMA MatchedImageIs ==
  ASSUME NEW ids, NEW f, NEW s
  PROVE  MatchedImage(ids, f, s)
           = {[source |-> s, person |-> p[1], id |-> ids[p[2]]] : p \in Matched(f, s)}
BY DEF MatchedImage, Matched, Overlaps

LEMMA ViewsSame ==
  ASSUME EvalInv, NEW a, NEW b, SameNames(a, b)
  PROVE  Views(a) = Views(b)
<1>1. \A r, q \in rows : a[r[1]] = a[q[1]] <=> b[r[1]] = b[q[1]]
  BY DEF SameNames, Written
<1>. DEFINE view(ids, q) == {r \in rows : r[2] = q[2] /\ ids[r[1]] = ids[q[1]]}
<1>2. \A q \in rows : view(a, q) = view(b, q)
  BY <1>1
<1>3. Views(a) = {view(a, q) : q \in rows} /\ Views(b) = {view(b, q) : q \in rows}
  BY DEF Views
<1>. HIDE DEF view
<1>. QED  BY <1>2, <1>3

LEMMA IdCountSame ==
  ASSUME EvalInv, NEW a, NEW b, SameNames(a, b)
  PROVE  Cardinality({a[r[1]] : r \in rows}) = Cardinality({b[r[1]] : r \in rows})
<1>. DEFINE A == {a[k] : k \in Written}  B == {b[k] : k \in Written}  new == NewName(a, b)
<1>1. {a[r[1]] : r \in rows} = A /\ {b[r[1]] : r \in rows} = B
  BY DEF Written
<1>2. IsFiniteSet(A)
  <2>1. IsFiniteSet(Written)
    BY RowsFinite, FS_Subset
  <2>. DEFINE g == [k \in Written |-> a[k]]
  <2>2. A = {g[k] : k \in Written} /\ DOMAIN g = Written /\ g = [k \in Written |-> g[k]]
    OBVIOUS
  <2>. HIDE DEF A, g
  <2>. QED  BY <2>1, <2>2, ImageFinite
<1>3. \A k \in Written : new[a[k]] = b[k]
  BY NewNameIs
<1>4. \A m, n \in A : new[m] = new[n] => m = n
  BY NewNameIs
<1>5. DOMAIN new = A /\ new = [n \in A |-> new[n]]
  BY DEF NewName
<1>6. B = {new[n] : n \in A}
  <2>. HIDE DEF new
  <2>. QED  BY <1>3
<1>. HIDE DEF A, B, new
<1>7. Cardinality({new[n] : n \in A}) = Cardinality(A)
  BY <1>2, <1>4, <1>5, ImageCount
<1>. QED  BY <1>1, <1>6, <1>7

\* The ID switches of a track and of one that a one-to-one map takes it to.
LEMMA SwitchesSame ==
  ASSUME NEW P, IsFiniteSet(P), NEW f, NEW Q, Q = {f[x] : x \in P},
         \A x \in P : f[x].time = x.time /\ f[x].person = x.person,
         \A x, y \in P : f[x].id = f[y].id <=> x.id = y.id,
         \A x, y \in P : f[x] = f[y] => x = y
  PROVE  Switches(P) = Switches(Q)
<1>. DEFINE between(x, T) == \E y \in T : y.person = x[1].person /\ x[1].time < y.time
                                            /\ y.time < x[2].time
            switch(x, T) == /\ x[1].person = x[2].person /\ x[1].time < x[2].time
                            /\ x[1].id # x[2].id
                            /\ ~between(x, T)
            S == {x \in P \X P : switch(x, P)}  R == {x \in Q \X Q : switch(x, Q)}
            g == [x \in S |-> <<f[x[1]], f[x[2]]>>]
<1>1. Switches(P) = Cardinality(S) /\ Switches(Q) = Cardinality(R)
  BY DEF Switches
<1>2. IsFiniteSet(S)
  <2>1. IsFiniteSet(P \X P)
    BY FS_Product
  <2>2. S \subseteq P \X P
    OBVIOUS
  <2>. HIDE DEF S
  <2>. QED  BY <2>1, <2>2, FS_Subset
<1>3. ASSUME NEW x \in P, NEW y \in P
      PROVE  switch(<<x, y>>, P) <=> switch(<<f[x], f[y]>>, Q)
  <2>1. between(<<x, y>>, P) <=> between(<<f[x], f[y]>>, Q)
    <3>1. ASSUME NEW z \in P, z.person = x.person, x.time < z.time, z.time < y.time
          PROVE  between(<<f[x], f[y]>>, Q)
      <4>1. /\ f[z] \in Q
            /\ f[z].person = f[x].person /\ f[x].time < f[z].time /\ f[z].time < f[y].time
        BY <3>1
      <4>. QED  BY <4>1
    <3>2. ASSUME NEW w \in Q, w.person = f[x].person, f[x].time < w.time, w.time < f[y].time
          PROVE  between(<<x, y>>, P)
      <4>1. PICK z \in P : w = f[z]
        OBVIOUS
      <4>2. z.person = x.person /\ x.time < z.time /\ z.time < y.time
        BY <3>2, <4>1
      <4>. QED  BY <4>2
    <3>. QED  BY <3>1, <3>2
  <2>2. /\ f[x].person = x.person /\ f[y].person = y.person
        /\ f[x].time = x.time /\ f[y].time = y.time
        /\ f[x].id = f[y].id <=> x.id = y.id
    OBVIOUS
  <2>. HIDE DEF between
  <2>. QED  BY <2>1, <2>2
<1>. HIDE DEF switch
<1>4. R = {g[x] : x \in S}
  <2>1. ASSUME NEW x \in S PROVE g[x] \in R
    <3>1. x = <<x[1], x[2]>> /\ x[1] \in P /\ x[2] \in P /\ switch(x, P)
      OBVIOUS
    <3>2. f[x[1]] \in Q /\ f[x[2]] \in Q
      BY <3>1
    <3>3. switch(<<f[x[1]], f[x[2]]>>, Q)
      BY <1>3, <3>1
    <3>. QED  BY <3>2, <3>3
  <2>2. ASSUME NEW w \in R PROVE \E x \in S : w = g[x]
    <3>1. PICK x \in P, y \in P : w = <<f[x], f[y]>>
      <4>1. w = <<w[1], w[2]>> /\ w[1] \in Q /\ w[2] \in Q
        OBVIOUS
      <4>. QED  BY <4>1
    <3>2. <<x, y>> \in S
      BY <1>3, <3>1
    <3>3. g[<<x, y>>] = w
      BY <3>1, <3>2
    <3>. QED  BY <3>2, <3>3
  <2>. QED  BY <2>1, <2>2
<1>5. ASSUME NEW x \in S, NEW y \in S, g[x] = g[y] PROVE x = y
  <2>1. f[x[1]] = f[y[1]] /\ f[x[2]] = f[y[2]]
    BY <1>5
  <2>2. x = <<x[1], x[2]>> /\ y = <<y[1], y[2]>> /\ x[1] \in P /\ x[2] \in P
        /\ y[1] \in P /\ y[2] \in P
    OBVIOUS
  <2>. QED  BY <2>1, <2>2
<1>6. DOMAIN g = S /\ g = [x \in S |-> g[x]]
  OBVIOUS
<1>. HIDE DEF S, R, g
<1>7. Cardinality({g[x] : x \in S}) = Cardinality(S)
  BY <1>2, <1>5, <1>6, ImageCount
<1>. QED  BY <1>1, <1>4, <1>7

\* What is pooled: a match of a frame and a camera under the IDs.
PooledAs(ids, x, p) == [time |-> Timestep(x[1], x[2]), person |-> p[1], id |-> ids[p[2]]]

LEMMA PooledIs ==
  ASSUME NEW ids
  PROVE  /\ \A x \in Frames \X Sources : \A p \in Matched(x[1], x[2]) : PooledAs(ids, x, p) \in Pooled(ids)
         /\ \A z \in Pooled(ids) : \E x \in Frames \X Sources : \E p \in Matched(x[1], x[2]) :
              z = PooledAs(ids, x, p)
<1>. DEFINE image(x) == MatchedImage(ids, x[1], x[2])
            as(x, d) == [time |-> Timestep(x[1], x[2]), person |-> d.person, id |-> d.id]
            seen(x) == {as(x, d) : d \in image(x)}
<1>1. Pooled(ids) = UNION {seen(x) : x \in Frames \X Sources}
  BY DEF Pooled
<1>2. \A z : z \in Pooled(ids) <=> \E x \in Frames \X Sources : z \in seen(x)
  <2>. HIDE DEF seen
  <2>. QED  BY <1>1
<1>3. ASSUME NEW x PROVE seen(x) = {PooledAs(ids, x, p) : p \in Matched(x[1], x[2])}
  <2>. DEFINE found(p) == [source |-> x[2], person |-> p[1], id |-> ids[p[2]]]
  <2>1. image(x) = {found(p) : p \in Matched(x[1], x[2])}
    BY MatchedImageIs
  <2>2. \A p : as(x, found(p)) = PooledAs(ids, x, p)
    BY DEF PooledAs
  <2>. HIDE DEF image, as, found
  <2>. QED  BY <2>1, <2>2
<1>. HIDE DEF seen
<1>4. \A x \in Frames \X Sources : \A p \in Matched(x[1], x[2]) : PooledAs(ids, x, p) \in Pooled(ids)
  BY <1>2, <1>3
<1>5. \A z \in Pooled(ids) : \E x \in Frames \X Sources : \E p \in Matched(x[1], x[2]) :
        z = PooledAs(ids, x, p)
  BY <1>2, <1>3
<1>. QED  BY <1>4, <1>5

Names(a) == {a[k] : k \in Written}

LEMMA FieldsFinite ==
  ASSUME EvalInv, NEW a
  PROVE  IsFiniteSet(Frames) /\ IsFiniteSet(Sources) /\ IsFiniteSet(Persons) /\ IsFiniteSet(Names(a))
<1>1. IsFiniteSet(DOMAIN Tracklets) /\ IsFiniteSet(Written)
  BY RowsFinite, FS_Subset
<1>. DEFINE s == [k \in DOMAIN Tracklets |-> Tracklets[k].source]
            p == [k \in DOMAIN Tracklets |-> Tracklets[k].person]
            n == [k \in Written |-> a[k]]
            D == DOMAIN Tracklets
<1>2. /\ Sources = {s[k] : k \in D} /\ DOMAIN s = D /\ s = [k \in D |-> s[k]]
      /\ Persons = {p[k] : k \in D} /\ DOMAIN p = D /\ p = [k \in D |-> p[k]]
      /\ Names(a) = {n[k] : k \in Written} /\ DOMAIN n = Written /\ n = [k \in Written |-> n[k]]
  BY DEF Sources, Persons, Names
<1>3. IsFiniteSet(Frames)
  BY EvaluationAssumption
<1>4. IsFiniteSet(D)
  BY <1>1
<1>. HIDE DEF s, p, n, D
<1>5. IsFiniteSet(Sources)
  BY <1>2, <1>4, ImageFinite
<1>6. IsFiniteSet(Persons)
  BY <1>2, <1>4, ImageFinite
<1>7. IsFiniteSet(Names(a))
  BY <1>1, <1>2, ImageFinite
<1>. QED  BY <1>3, <1>5, <1>6, <1>7

LEMMA PooledSame ==
  ASSUME EvalInv, NEW a, NEW b, SameNames(a, b)
  PROVE  Switches(Pooled(a)) = Switches(Pooled(b))
<1>. DEFINE P == Pooled(a)  Q == Pooled(b)  new == NewName(a, b)
            f == [z \in P |-> [time |-> z.time, person |-> z.person, id |-> new[z.id]]]
<1>1. \A x \in Frames \X Sources : \A p \in Matched(x[1], x[2]) :
        /\ x = <<x[1], x[2]>> /\ p[1] \in Persons /\ p[2] \in Written
        /\ a[p[2]] \in Names(a) /\ new[a[p[2]]] = b[p[2]]
  BY MatchedIs, NewNameIs DEF Names
<1>2. \A m, n \in Names(a) : new[m] = new[n] => m = n
  BY NewNameIs DEF Names
<1>. HIDE DEF new
<1>3. /\ \A x \in Frames \X Sources : \A p \in Matched(x[1], x[2]) :
           PooledAs(a, x, p) \in P /\ PooledAs(b, x, p) \in Q
      /\ \A z \in P : \E x \in Frames \X Sources : \E p \in Matched(x[1], x[2]) :
           z = PooledAs(a, x, p)
      /\ \A z \in Q : \E x \in Frames \X Sources : \E p \in Matched(x[1], x[2]) :
           z = PooledAs(b, x, p)
  BY PooledIs
<1>. HIDE DEF P, Q
<1>4. IsFiniteSet(P)
  <2>. DEFINE H == (Frames \X Sources) \X (Persons \X Names(a))
              h == [y \in H |-> [time |-> Timestep(y[1][1], y[1][2]), person |-> y[2][1],
                                 id |-> y[2][2]]]
  <2>1. IsFiniteSet(H)
    <3>1. IsFiniteSet(Frames \X Sources) /\ IsFiniteSet(Persons \X Names(a))
      BY FieldsFinite, FS_Product
    <3>. QED  BY <3>1, FS_Product
  <2>2. P \subseteq {h[y] : y \in H}
    <3>1. ASSUME NEW z \in P PROVE \E y \in H : z = h[y]
      <4>1. PICK x \in Frames \X Sources : \E p \in Matched(x[1], x[2]) : z = PooledAs(a, x, p)
        BY <1>3
      <4>2. PICK p \in Matched(x[1], x[2]) : z = PooledAs(a, x, p)
        BY <4>1
      <4>. DEFINE y == <<x, <<p[1], a[p[2]]>>>>
      <4>3. y \in H
        BY <1>1
      <4>4. h[y] = z
        BY <4>2, <4>3 DEF PooledAs
      <4>. QED  BY <4>3, <4>4
    <3>. QED  BY <3>1
  <2>3. DOMAIN h = H /\ h = [y \in H |-> h[y]]
    OBVIOUS
  <2>. HIDE DEF H, h
  <2>4. IsFiniteSet({h[y] : y \in H})
    BY <2>1, <2>3, ImageFinite
  <2>. QED  BY <2>2, <2>4, FS_Subset
<1>5. \A z \in P : z.id \in Names(a) /\ z = [time |-> z.time, person |-> z.person, id |-> z.id]
  <2>1. ASSUME NEW z \in P PROVE z.id \in Names(a) /\ z = [time |-> z.time, person |-> z.person, id |-> z.id]
    <3>1. PICK x \in Frames \X Sources : \E p \in Matched(x[1], x[2]) : z = PooledAs(a, x, p)
      BY <1>3
    <3>2. PICK p \in Matched(x[1], x[2]) : z = PooledAs(a, x, p)
      BY <3>1
    <3>. QED  BY <1>1, <3>2 DEF PooledAs
  <2>. QED  BY <2>1
<1>6. ASSUME NEW x \in Frames \X Sources, NEW p \in Matched(x[1], x[2])
      PROVE  f[PooledAs(a, x, p)] = PooledAs(b, x, p)
  <2>1. PooledAs(a, x, p) \in P
    BY <1>3
  <2>. QED  BY <1>1, <2>1 DEF PooledAs
<1>7. Q = {f[z] : z \in P}
  <2>. HIDE DEF f
  <2>. QED  BY <1>3, <1>6
<1>8. /\ \A z \in P : f[z].time = z.time /\ f[z].person = z.person
      /\ \A y, z \in P : f[y].id = f[z].id <=> y.id = z.id
  BY <1>2, <1>5
<1>9. \A y, z \in P : f[y] = f[z] => y = z
  <2>. HIDE DEF f
  <2>1. ASSUME NEW y \in P, NEW z \in P, f[y] = f[z] PROVE y = z
    <3>1. y.time = z.time /\ y.person = z.person /\ y.id = z.id
      BY <1>8, <2>1
    <3>. QED  BY <1>5, <3>1
  <2>. QED  BY <2>1
<1>. HIDE DEF f
<1>10. Switches(P) = Switches(Q)
  BY <1>4, <1>7, <1>8, <1>9, SwitchesSame
<1>. QED  BY <1>10 DEF P, Q

\* A pair of two cameras in a frame, under the IDs.
DetectedAs(ids, s, p) == [source |-> s, person |-> p[1], id |-> ids[p[2]]]
PairAs(ids, x, p, q) == <<x[1], DetectedAs(ids, x[2], p), DetectedAs(ids, x[3], q)>>
TwoCameras == {y \in Frames \X Sources \X Sources : y[2] < y[3]}

LEMMA CameraPairsIs ==
  ASSUME NEW ids
  PROVE  /\ \A x \in TwoCameras : \A p \in Matched(x[1], x[2]) : \A q \in Matched(x[1], x[3]) :
              PairAs(ids, x, p, q) \in CameraPairs(ids)
         /\ \A z \in CameraPairs(ids) : \E x \in TwoCameras :
              \E p \in Matched(x[1], x[2]) : \E q \in Matched(x[1], x[3]) : z = PairAs(ids, x, p, q)
<1>. DEFINE pairs(x) == {<<x[1], d, e>> : d \in MatchedImage(ids, x[1], x[2]),
                                          e \in MatchedImage(ids, x[1], x[3])}
<1>1. CameraPairs(ids) = UNION {pairs(x) : x \in TwoCameras}
  BY DEF CameraPairs, TwoCameras
<1>2. \A z : z \in CameraPairs(ids) <=> \E x \in TwoCameras : z \in pairs(x)
  <2>. HIDE DEF pairs
  <2>. QED  BY <1>1
<1>3. \A f, s : MatchedImage(ids, f, s) = {DetectedAs(ids, s, p) : p \in Matched(f, s)}
  BY MatchedImageIs DEF DetectedAs
<1>4. ASSUME NEW x, NEW z
      PROVE  z \in pairs(x) <=> \E p \in Matched(x[1], x[2]) : \E q \in Matched(x[1], x[3]) :
                                  z = PairAs(ids, x, p, q)
  BY <1>3 DEF PairAs
<1>. HIDE DEF pairs
<1>. QED  BY <1>2, <1>4

\* The pairs that are of one person or not, and of one ID or not.
Counted(S, person, id) ==
  Cardinality({x \in S : (x[2].person = x[3].person) = person /\ (x[2].id = x[3].id) = id})

\* f keeps pairs apart, and two IDs or two persons the same or different.
Faithful(f, P) ==
  /\ \A x \in P : /\ (f[x][2].person = f[x][3].person) = (x[2].person = x[3].person)
                  /\ (f[x][2].id = f[x][3].id) = (x[2].id = x[3].id)
  /\ \A x, y \in P : f[x] = f[y] => x = y

LEMMA CountSame ==
  ASSUME NEW P, IsFiniteSet(P), NEW f, NEW Q, Q = {f[x] : x \in P},
         Faithful(f, P),
         NEW person, NEW id
  PROVE  Counted(P, person, id) = Counted(Q, person, id)
<1>. DEFINE right(x) == (x[2].person = x[3].person) = person /\ (x[2].id = x[3].id) = id
            S == {x \in P : right(x)}  R == {x \in Q : right(x)}
            g == [x \in S |-> f[x]]
<1>1. \A x \in P : right(f[x]) <=> right(x)
  BY DEF Faithful
<1>. HIDE DEF right
<1>2. R = {g[x] : x \in S}
  BY <1>1
<1>3. \A x, y \in S : g[x] = g[y] => x = y
  BY DEF Faithful
<1>4. DOMAIN g = S /\ g = [x \in S |-> g[x]] /\ S \subseteq P
  OBVIOUS
<1>. HIDE DEF S, R, g
<1>5. IsFiniteSet(S)
  BY <1>4, FS_Subset
<1>6. Cardinality({g[x] : x \in S}) = Cardinality(S)
  BY <1>3, <1>4, <1>5, ImageCount
<1>7. Cardinality(S) = Cardinality(R)
  BY <1>2, <1>6
<1>. QED  BY <1>7 DEF Counted, S, R, right

LEMMA CrossCameraSame ==
  ASSUME EvalInv, NEW a, NEW b, SameNames(a, b)
  PROVE  CrossCamera(a) = CrossCamera(b)
<1>. DEFINE P == CameraPairs(a)  Q == CameraPairs(b)  new == NewName(a, b)
            ren(d) == [source |-> d.source, person |-> d.person, id |-> new[d.id]]
            f == [z \in P |-> <<z[1], ren(z[2]), ren(z[3])>>]
<1>1. \A x \in TwoCameras : /\ x = <<x[1], x[2], x[3]>>
                            /\ x[1] \in Frames /\ x[2] \in Sources /\ x[3] \in Sources
  BY DEF TwoCameras
<1>2. \A h \in Frames : \A s : \A p \in Matched(h, s) :
        /\ p[1] \in Persons /\ a[p[2]] \in Names(a) /\ new[a[p[2]]] = b[p[2]]
  BY MatchedIs, NewNameIs DEF Names
<1>3. \A m, n \in Names(a) : new[m] = new[n] => m = n
  BY NewNameIs DEF Names
<1>. HIDE DEF new
<1>4. /\ \A x \in TwoCameras : \A p \in Matched(x[1], x[2]) : \A q \in Matched(x[1], x[3]) :
           PairAs(a, x, p, q) \in P /\ PairAs(b, x, p, q) \in Q
      /\ \A z \in P : \E x \in TwoCameras :
           \E p \in Matched(x[1], x[2]) : \E q \in Matched(x[1], x[3]) : z = PairAs(a, x, p, q)
      /\ \A z \in Q : \E x \in TwoCameras :
           \E p \in Matched(x[1], x[2]) : \E q \in Matched(x[1], x[3]) : z = PairAs(b, x, p, q)
  BY CameraPairsIs
<1>. HIDE DEF P, Q
<1>. DEFINE Detection == [source : Sources, person : Persons, id : Names(a)]
<1>5. \A z \in P : z = <<z[1], z[2], z[3]>> /\ z[1] \in Frames /\ z[2] \in Detection /\ z[3] \in Detection
  <2>1. ASSUME NEW z \in P
        PROVE  z = <<z[1], z[2], z[3]>> /\ z[1] \in Frames /\ z[2] \in Detection /\ z[3] \in Detection
    <3>1. PICK x \in TwoCameras :
            \E p \in Matched(x[1], x[2]) : \E q \in Matched(x[1], x[3]) : z = PairAs(a, x, p, q)
      BY <1>4
    <3>2. PICK p \in Matched(x[1], x[2]) : \E q \in Matched(x[1], x[3]) : z = PairAs(a, x, p, q)
      BY <3>1
    <3>3. PICK q \in Matched(x[1], x[3]) : z = PairAs(a, x, p, q)
      BY <3>2
    <3>4. DetectedAs(a, x[2], p) \in Detection /\ DetectedAs(a, x[3], q) \in Detection
      BY <1>1, <1>2 DEF DetectedAs
    <3>. HIDE DEF Detection
    <3>. QED  BY <1>1, <3>3, <3>4 DEF PairAs
  <2>. QED  BY <2>1
<1>6. IsFiniteSet(Detection)
  <2>. DEFINE H == (Sources \X Persons) \X Names(a)
              h == [y \in H |-> [source |-> y[1][1], person |-> y[1][2], id |-> y[2]]]
  <2>1. IsFiniteSet(H)
    <3>1. IsFiniteSet(Sources \X Persons) /\ IsFiniteSet(Names(a))
      BY FieldsFinite, FS_Product
    <3>. QED  BY <3>1, FS_Product
  <2>2. Detection \subseteq {h[y] : y \in H}
    <3>1. ASSUME NEW d \in Detection PROVE \E y \in H : d = h[y]
      <4>. DEFINE y == <<<<d.source, d.person>>, d.id>>
      <4>1. y \in H /\ h[y] = d
        OBVIOUS
      <4>. QED  BY <4>1
    <3>. QED  BY <3>1
  <2>3. DOMAIN h = H /\ h = [y \in H |-> h[y]]
    OBVIOUS
  <2>. HIDE DEF H, h, Detection
  <2>4. IsFiniteSet({h[y] : y \in H})
    BY <2>1, <2>3, ImageFinite
  <2>. QED  BY <2>2, <2>4, FS_Subset
<1>. HIDE DEF Detection
<1>7. IsFiniteSet(P)
  <2>. DEFINE H == (Frames \X Detection) \X Detection
              h == [y \in H |-> <<y[1][1], y[1][2], y[2]>>]
  <2>1. IsFiniteSet(H)
    <3>1. IsFiniteSet(Frames \X Detection)
      BY <1>6, FieldsFinite, FS_Product
    <3>. QED  BY <1>6, <3>1, FS_Product
  <2>2. P \subseteq {h[y] : y \in H}
    <3>1. ASSUME NEW z \in P PROVE \E y \in H : z = h[y]
      <4>. DEFINE y == <<<<z[1], z[2]>>, z[3]>>
      <4>1. y \in H
        BY <1>5
      <4>2. h[y] = z
        BY <1>5, <4>1
      <4>. QED  BY <4>1, <4>2
    <3>. QED  BY <3>1
  <2>3. DOMAIN h = H /\ h = [y \in H |-> h[y]]
    OBVIOUS
  <2>. HIDE DEF H, h
  <2>4. IsFiniteSet({h[y] : y \in H})
    BY <2>1, <2>3, ImageFinite
  <2>. QED  BY <2>2, <2>4, FS_Subset
<1>8. ASSUME NEW x \in TwoCameras, NEW p \in Matched(x[1], x[2]), NEW q \in Matched(x[1], x[3])
      PROVE  f[PairAs(a, x, p, q)] = PairAs(b, x, p, q)
  <2>1. PairAs(a, x, p, q) \in P
    BY <1>4
  <2>2. ren(DetectedAs(a, x[2], p)) = DetectedAs(b, x[2], p)
        /\ ren(DetectedAs(a, x[3], q)) = DetectedAs(b, x[3], q)
    BY <1>1, <1>2 DEF DetectedAs
  <2>. HIDE DEF ren
  <2>. QED  BY <2>1, <2>2 DEF PairAs
<1>9. Q = {f[z] : z \in P}
  <2>1. \A w \in Q : \E z \in P : w = f[z]
    <3>. HIDE DEF f
    <3>. QED  BY <1>4, <1>8
  <2>2. \A z \in P : f[z] \in Q
    <3>. HIDE DEF f
    <3>. QED  BY <1>4, <1>8
  <2>. HIDE DEF f
  <2>. QED  BY <2>1, <2>2
<1>10. ASSUME NEW d \in Detection
       PROVE  /\ ren(d).person = d.person /\ ren(d).id = new[d.id] /\ d.id \in Names(a)
              /\ \A e \in Detection : ren(d) = ren(e) => d = e
  <2>1. ren(d).person = d.person /\ ren(d).id = new[d.id] /\ d.id \in Names(a)
    BY DEF Detection
  <2>2. ASSUME NEW e \in Detection, ren(d) = ren(e) PROVE d = e
    <3>1. d.source = e.source /\ d.person = e.person /\ new[d.id] = new[e.id]
      BY <2>2
    <3>2. d.id = e.id
      BY <1>3, <3>1 DEF Detection
    <3>. QED  BY <3>1, <3>2 DEF Detection
  <2>. QED  BY <2>1, <2>2
<1>11. \A z \in P : f[z][1] = z[1] /\ f[z][2] = ren(z[2]) /\ f[z][3] = ren(z[3])
  <2>. HIDE DEF ren
  <2>. QED  OBVIOUS
<1>. HIDE DEF f, ren
<1>12. \A z \in P : /\ (f[z][2].person = f[z][3].person) = (z[2].person = z[3].person)
                    /\ (f[z][2].id = f[z][3].id) = (z[2].id = z[3].id)
  BY <1>3, <1>5, <1>10, <1>11
<1>13. \A y, z \in P : f[y] = f[z] => y = z
  <2>1. ASSUME NEW y \in P, NEW z \in P, f[y] = f[z] PROVE y = z
    <3>1. y[1] = z[1] /\ ren(y[2]) = ren(z[2]) /\ ren(y[3]) = ren(z[3])
      BY <1>11, <2>1
    <3>2. y[2] = z[2] /\ y[3] = z[3]
      BY <1>5, <1>10, <3>1
    <3>. QED  BY <1>5, <3>1, <3>2
  <2>. QED  BY <2>1
<1>14. \A person, id : Counted(P, person, id) = Counted(Q, person, id)
  <2>1. Faithful(f, P)
    BY <1>12, <1>13 DEF Faithful
  <2>. QED  BY <1>7, <1>9, <2>1, CountSame
<1>15. CrossCamera(a) = [tp |-> Counted(P, TRUE, TRUE), fp |-> Counted(P, FALSE, TRUE),
                         fn |-> Counted(P, TRUE, FALSE),
                         n_global_ids |-> Cardinality({a[r[1]] : r \in rows})]
  BY Zenon DEF CrossCamera, Counted, P
<1>16. CrossCamera(b) = [tp |-> Counted(Q, TRUE, TRUE), fp |-> Counted(Q, FALSE, TRUE),
                         fn |-> Counted(Q, TRUE, FALSE),
                         n_global_ids |-> Cardinality({b[r[1]] : r \in rows})]
  BY Zenon DEF CrossCamera, Counted, Q
<1>. QED  BY <1>14, <1>15, <1>16, IdCountSame

LEMMA MetricsSame ==
  ASSUME EvalInv
  PROVE  AgreementPreservesMetrics
<1>. SUFFICES ASSUME Warmup = 0, Disagreement(0) = 0
              PROVE  Metrics(online) = Metrics(offline)
  BY DEF AgreementPreservesMetrics, ReportedDisagreement, ReportedMetrics
<1>. DEFINE a == Shared(offline)  b == Shared(online)
<1>1. SameNames(a, b)
  BY AgreementIdentities
<1>. HIDE DEF a, b
<1>2. ImagePlane(a) = ImagePlane(b)
  BY <1>1, PooledSame DEF ImagePlane
<1>3. CrossCamera(a) = CrossCamera(b) /\ Views(a) = Views(b)
  BY <1>1, CrossCameraSame, ViewsSame
<1>. QED  BY <1>2, <1>3 DEF Metrics, a, b

LEMMA EvalStep ==
  ASSUME EvalInv, Recorded
  PROVE  EvalInv'
<1>. PICK k \in DOMAIN Tracklets, frames \in (SUBSET Frames) \ {{}},
          x \in OfflineIds \cup {Unassigned}, written \in OnlineIds \cup {Unassigned},
          entry \in OnlineIds \cup {Unassigned} :
       /\ rows' = rows \cup ({k} \X frames)
       /\ offline' = [offline EXCEPT ![k] = x]
       /\ online' = [online EXCEPT ![k] = Backfilled(written, entry)]
  BY Zenon DEF Recorded
<1>1. Backfilled(written, entry) \in OnlineIds \cup {Unassigned}
  BY DEF Backfilled
<1>2. rows' \subseteq (DOMAIN Tracklets) \X Frames
  BY DEF EvalInv
<1>3. offline' \in [DOMAIN Tracklets -> OfflineIds \cup {Unassigned}]
  BY DEF EvalInv
<1>4. online' \in [DOMAIN Tracklets -> OnlineIds \cup {Unassigned}]
  BY <1>1 DEF EvalInv
<1>. QED  BY <1>2, <1>3, <1>4 DEF EvalInv

\* Where the evaluator reports no disagreement, its two reports are the same, for
\* any recording, assignments and maps.
THEOREM AgreementSound == Spec => []AgreementPreservesMetrics
<1>1. Init => EvalInv
  BY DEF Init, EvalInit, EvalInv
<1>2. EvalInv /\ [Next]_vars => EvalInv'
  <2>. SUFFICES ASSUME EvalInv, [Next]_vars PROVE EvalInv'
    OBVIOUS
  <2>1. CASE Recorded
    BY <2>1, EvalStep
  <2>2. CASE UNCHANGED evalVars
    BY <2>2 DEF evalVars, EvalInv
  <2>. QED  BY <2>1, <2>2, Zenon DEF Next, vars, evalVars
<1>. QED  BY <1>1, <1>2, MetricsSame, PTL DEF Spec

=============================================================================

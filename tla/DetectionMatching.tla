-------------------------- MODULE DetectionMatching --------------------------
(***************************************************************************)
(* match_detections of metrics/validate_accuracy.py, on which every        *)
(* accuracy tool of the repository rests, and the threshold sweep of       *)
(* metrics/sweep_conf_threshold.py over it.  Boxes matter only through     *)
(* their IoU: 0 stands for a pair below iou_thresh, and higher numbers for *)
(* higher IoUs.  Boxes are the indices of a list.                          *)
(***************************************************************************)
EXTENDS Integers, FiniteSets, Sequences

\* The candidate pairs, and candidates.sort(reverse=True) on (iou, i, j).
Candidates(as, bs, iou) == {p \in as \X bs : iou[p] > 0}
TriedBefore(p, q, iou) ==
  \/ iou[p] > iou[q]
  \/ iou[p] = iou[q] /\ p[1] > q[1]
  \/ iou[p] = iou[q] /\ p[1] = q[1] /\ p[2] > q[2]

\* Mutant: each box of the first list tries its best partner only.
MatchesBestOnly(as, bs, iou) ==
  LET best == {p \in Candidates(as, bs, iou) :
                 \A q \in Candidates(as, bs, iou) : q[1] = p[1] => iou[p] >= iou[q]}
  IN {p \in best : \A q \in best : q[2] = p[2] => iou[p] >= iou[q] /\ p[1] >= q[1]}

\* One turn of the loop: a pair is passed over if one of its boxes is used.
Take(pairs, p) ==
  IF \E q \in pairs : q[1] = p[1] \/ q[2] = p[2] THEN pairs ELSE pairs \cup {p}

\* match_detections: the pairs taken, best first, one to one.  taken[S] is what
\* the loop has taken once the candidates S were tried.
Matches(as, bs, iou) ==
  LET taken[S \in SUBSET Candidates(as, bs, iou)] ==
        IF S = {} THEN {}
        ELSE LET last == CHOOSE p \in S : \A q \in S \ {p} : TriedBefore(q, p, iou)
             IN Take(taken[S \ {last}], last)
  IN taken[Candidates(as, bs, iou)]

\* precision_recall_f1 of one frame
Scores(gts, dets, iou) ==
  LET tp == Cardinality(Matches(gts, dets, iou))
  IN [tp |-> tp, fp |-> Cardinality(dets) - tp, fn |-> Cardinality(gts) - tp]

-----------------------------------------------------------------------------
CONSTANTS
  Gt,         \* ground-truth boxes of an image
  MaxDet,     \* bound: detections of an image
  MaxLevel    \* bound: distinct IoUs and confidences

ASSUME SweepAssumption ==
  /\ Gt \subseteq Nat /\ IsFiniteSet(Gt)
  /\ MaxDet \in Nat /\ MaxLevel \in Nat

VARIABLES
  confidence,   \* of the detections run_wildtrack_detections returned, in order
  overlap       \* their IoU with every ground-truth box

sweepVars == <<confidence, overlap>>

SweepInit == confidence = <<>> /\ overlap = [p \in {} |-> 0]

\* The model returns one more box.
Detect ==
  /\ Len(confidence) < MaxDet
  /\ \E c \in 0..MaxLevel, column \in [Gt -> 0..MaxLevel] :
       /\ confidence' = Append(confidence, c)
       /\ overlap' = [p \in Gt \X DOMAIN confidence' |->
                        IF p[2] \in DOMAIN confidence THEN overlap[p] ELSE column[p[1]]]

\* One entry of sweep_thresholds.
Swept(threshold) ==
  Scores(Gt, {j \in DOMAIN confidence : confidence[j] >= threshold}, overlap)

=============================================================================

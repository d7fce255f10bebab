-------------------------- MODULE MtmcPipelineProps --------------------------
(***************************************************************************)
(* What the MTMC pipeline promises about the receipts its CSV rows carry.  *)
(***************************************************************************)
EXTENDS MtmcPipeline

ReceiptType == [attempt : Nat, bucket : Nat, accepted : BOOLEAN, gens : [Source -> Nat]]

\* None is no receipt.
ASSUME ReceiptAssumption == NoReceipt \notin ReceiptType

EntryType == [num : Nat, receipt : ReceiptType]

FrameType == [num : Nat, connection : Nat, own : ReceiptType, submitted : BOOLEAN,
              alone : BOOLEAN]

\* Types of the pipeline's state; a ledger queue never holds more than its limit
\* and a poisoned source always has an entry left (FrameReceiptLedger).
TypeOK ==
  /\ pads \in [Source -> SUBSET PadName]
  /\ linked \in [Source -> PadName \cup {NoPad}]
  /\ activePad \in [Source -> PadName \cup {NoPad}]
  /\ hasConnected \subseteq Source /\ disconnected \subseteq Source
  /\ ready \subseteq Source
  /\ pending \in [Source -> Seq(EntryType)]
  /\ poisoned \subseteq Source
  /\ \A s \in Source : /\ Len(pending[s]) <= MaxPending
                       /\ s \in poisoned => pending[s] # <<>>
  /\ branch \in [Source -> Seq(FrameType)]
  /\ connection \in [Source -> Nat]
  /\ upstream \in [Source -> Seq(Nat)] /\ nextNum \in [Source -> Nat]
  /\ attempts \in Nat /\ buckets \in Nat /\ gens \in [Source -> Nat]
  /\ credit \in [Source -> Int] /\ lastAttempt \in [Source -> Nat]

\* BranchProbe can always take the next frame of its branch, so what holds of
\* Next* below holds of every row it writes.
NextFrame(s) == Head(branch[s])
NextReceipt(s) == Taken(s, NextFrame(s).num)
GetsReceipt(s) == branch[s] # <<>> /\ NextReceipt(s) # NoReceipt

\* A frame's rows carry the receipt recorded for that very frame or none,
\* whatever was lost on the branch or evicted from the ledger before it.
OwnReceiptOrNone == \A s \in Source : GetsReceipt(s) => NextReceipt(s) = NextFrame(s).own

\* A lost frame or an evicted receipt costs at most one frame that entered a
\* drained branch its receipt: the ledger falls back into step by itself.
LossCostsOneDrainedFrame == \A s \in Source : credit[s] >= 0

\* Rows are never labelled with a generation older than the connection their
\* frame came over (a newer one is possible: a reconnect overtakes frames).
RowGenerationNotOlder ==
  \A s \in Source :
    GetsReceipt(s) => NextReceipt(s).gens[s] + 1 >= NextFrame(s).connection

\* Rows marked as accepted belong to a frame whose observations were submitted in
\* the accepted batch.  A worker that fails later may still discard it.
AcceptedRowWasSubmitted ==
  \A s \in Source : GetsReceipt(s) /\ NextReceipt(s).accepted => NextFrame(s).submitted

\* Once the clocks of all sources were acquired, no row of a source falls back to
\* "no attempt", and the attempt epochs of its rows only grow.
AttemptsOnlyGrow ==
  \A s \in Source :
    GetsReceipt(s) /\ lastAttempt[s] > 0 => NextReceipt(s).attempt > lastAttempt[s]

=============================================================================

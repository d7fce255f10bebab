-------------------------- MODULE FrameReceiptLedger --------------------------
(***************************************************************************)
(* pipelines/multi_stream.py: FrameReceiptLedger, the bounded hand-over of *)
(* receipts from the mux probe to the per-source branch probes.  Its lock  *)
(* makes record() and consume() atomic.                                    *)
(***************************************************************************)
EXTENDS MtmcSetup, Sequences

CONSTANTS
  MaxPending,   \* max_pending_per_source
  NoReceipt     \* what consume() returns when it refuses

ASSUME PendingAssumption == MaxPending \in Nat \ {0}

VARIABLES
  pending,    \* _queues
  poisoned    \* _poisoned_sources

ledgerVars == <<pending, poisoned>>

LedgerInit ==
  /\ pending = [s \in Source |-> <<>>]
  /\ poisoned = {}

Full(s) == Len(pending[s]) >= MaxPending

\* Mutant: the limit is tested after the append.
AppendedLate(s, entry) ==
  Append(IF Len(pending[s]) > MaxPending THEN Tail(pending[s]) ELSE pending[s], entry)

\* A queue at its limit loses its oldest entry.
Appended(s, entry) ==
  Append(IF Full(s) THEN Tail(pending[s]) ELSE pending[s], entry)

\* record(): the batch's frames, as a function from its sources to frame_num.
Record(num, receipt) ==
  /\ pending' = [s \in Source |-> IF s \in DOMAIN num
                                    THEN Appended(s, [num |-> num[s], receipt |-> receipt])
                                    ELSE pending[s]]
  /\ poisoned' = poisoned \cup {s \in DOMAIN num : Full(s)}

\* Mutant: the head is handed out whatever frame it was recorded for.
MatchesAny(s, num) == pending[s] # <<>> /\ s \notin poisoned

\* consume() finds the frame at the head of a healthy queue.
Matches(s, num) ==
  /\ pending[s] # <<>>
  /\ s \notin poisoned
  /\ Head(pending[s]).num = num

\* What consume() returns.
Taken(s, num) == IF Matches(s, num) THEN Head(pending[s]).receipt ELSE NoReceipt

\* Mutant: after a mismatch only the entry that did not match is dropped.
ConsumeOne(s, num) ==
  /\ pending' = [pending EXCEPT ![s] = IF @ = <<>> \/ s \in poisoned THEN <<>> ELSE Tail(@)]
  /\ poisoned' = IF pending[s] = <<>> THEN poisoned ELSE poisoned \ {s}

\* What consume() does to the ledger: anything but a match clears the queue.
Consume(s, num) ==
  /\ pending' = [pending EXCEPT ![s] = IF Matches(s, num) THEN Tail(@) ELSE <<>>]
  /\ poisoned' = IF pending[s] = <<>> THEN poisoned ELSE poisoned \ {s}

=============================================================================

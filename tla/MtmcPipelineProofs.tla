------------------------- MODULE MtmcPipelineProofs -------------------------
(***************************************************************************)
(* Proofs about MtmcPipeline, for any number of sources and pads, any      *)
(* limit of the ledger, and any losses, reconnects and failures.           *)
(***************************************************************************)
EXTENDS MtmcPipelineProps, SequenceTheorems, TLAPS

-----------------------------------------------------------------------------
(* What one step does to one source.  Sources do not touch each other's     *)
(* ledger queues and branches, so the invariants are proved source by       *)
(* source from the four things that can happen to it.                       *)

\* Nothing; the mux may have taken, and dropped, a frame.
Rests(s) ==
  /\ pending'[s] = pending[s] /\ branch'[s] = branch[s]
  /\ s \in poisoned' <=> s \in poisoned
  /\ credit'[s] = credit[s] /\ lastAttempt'[s] = lastAttempt[s]
  /\ nextNum'[s] \in {nextNum[s], nextNum[s] + 1}

\* Its frame passes the mux probe with a receipt.
Recorded(s, receipt, submitted) ==
  /\ upstream[s] # <<>>
  /\ pending'[s] = Appended(s, [num |-> nextNum[s], receipt |-> receipt])
  /\ s \in poisoned' <=> s \in poisoned \/ Full(s)
  /\ branch'[s] = Append(branch[s], [num |-> nextNum[s], connection |-> Head(upstream[s]),
                                     own |-> receipt, submitted |-> submitted,
                                     alone |-> branch[s] = <<>>])
  /\ nextNum'[s] = nextNum[s] + 1
  /\ credit'[s] = IF Full(s) THEN credit[s] + 1 ELSE credit[s]
  /\ lastAttempt'[s] = lastAttempt[s]

\* The mux probe makes a receipt, and of which frames it submitted observations.
Issues(receipt, frames) ==
  /\ ~failed
  /\ \E attempt \in {0, attempts + 1}, bucket \in {0, buckets + 1} :
       receipt = Receipt(attempt, bucket)
  /\ receipt.attempt = 0 => clock = "rtsp" /\ ~GateOpen
  /\ attempts' = IF receipt.attempt = 0 THEN attempts ELSE attempts + 1
  /\ receipt.accepted => frames = Source

\* A branch probe takes the receipt of a frame, or finds none.
Probed(s) ==
  /\ branch[s] # <<>>
  /\ LET frame == Head(branch[s]) IN
       /\ pending'[s] = IF Matches(s, frame.num) THEN Tail(pending[s]) ELSE <<>>
       /\ s \in poisoned' <=> s \in poisoned /\ pending[s] = <<>>
       /\ branch'[s] = Tail(branch[s])
       /\ lastAttempt'[s] = IF Taken(s, frame.num) = NoReceipt THEN lastAttempt[s]
                            ELSE Taken(s, frame.num).attempt
       /\ credit'[s] = IF Taken(s, frame.num) = NoReceipt /\ frame.alone
                         THEN credit[s] - 1 ELSE credit[s]
       /\ nextNum'[s] = nextNum[s]

\* A frame of its branch is lost.
Lost(s) ==
  /\ branch[s] # <<>>
  /\ pending'[s] = pending[s]
  /\ s \in poisoned' <=> s \in poisoned
  /\ branch'[s] = Tail(branch[s])
  /\ credit'[s] = credit[s] + 1
  /\ lastAttempt'[s] = lastAttempt[s] /\ nextNum'[s] = nextNum[s]

Passes(s) == \E receipt \in ReceiptType, frames \in SUBSET Source :
               Issues(receipt, frames) /\ Recorded(s, receipt, s \in frames)

LEMMA ReceiptTyped ==
  ASSUME TypeOK, NEW attempt \in Nat, NEW bucket \in Nat
  PROVE  Receipt(attempt, bucket) \in ReceiptType
BY DEF TypeOK, Receipt, ReceiptType

\* A batch does to each of its sources what Recorded says, and nothing to others.
LEMMA HandsOverStep ==
  ASSUME TypeOK, NEW batch \in SUBSET Source, NEW receipt, NEW frames,
         TakesBatch(batch), HandsOver(batch, receipt, frames), NEW s \in Source
  PROVE  IF s \in batch THEN Recorded(s, receipt, s \in frames) ELSE Rests(s)
<1>1. CASE s \in batch
  BY <1>1 DEF TypeOK, TakesBatch, HandsOver, Record, Recorded, ledgerVars
<1>2. CASE s \notin batch
  BY <1>2 DEF TypeOK, TakesBatch, HandsOver, Record, Rests, ledgerVars
<1>. QED  BY <1>1, <1>2

LEMMA MuxProbeStep ==
  ASSUME TypeOK, NEW batch \in SUBSET Source, MuxProbe(batch), NEW s \in Source
  PROVE  Rests(s) \/ Passes(s)
<1>. PICK clocks \in SUBSET batch :
       \/ MuxProbeHolds(batch, clocks)
       \/ MuxProbeAges(batch, clocks)
       \/ \E bad \in SUBSET batch, near \in BOOLEAN : MuxProbeSubmits(batch, clocks, bad, near)
       \/ MuxProbeRaises(batch, clocks)
  BY DEF MuxProbe
<1>1. CASE MuxProbeHolds(batch, clocks)
  <2>1. Issues(Receipt(0, 0), {})
    BY <1>1 DEF MuxProbeHolds, Issues, Receipt, TypeOK
  <2>2. Receipt(0, 0) \in ReceiptType
    BY ReceiptTyped
  <2>. QED  BY <1>1, <2>1, <2>2, HandsOverStep DEF MuxProbeHolds, Passes
<1>2. CASE MuxProbeAges(batch, clocks)
  <2>0. attempts' = attempts + 1 /\ attempts' # 0 /\ ~failed /\ 0 \in {0, buckets + 1}
    BY <1>2 DEF MuxProbeAges, TypeOK
  <2>1. Issues(Receipt(attempts', 0), {})
    BY <2>0 DEF Issues, Receipt
  <2>2. Receipt(attempts', 0) \in ReceiptType
    BY <1>2, ReceiptTyped DEF MuxProbeAges, TypeOK
  <2>. QED  BY <1>2, <2>1, <2>2, HandsOverStep DEF MuxProbeAges, Passes
<1>3. ASSUME NEW bad \in SUBSET batch, NEW near \in BOOLEAN,
             MuxProbeSubmits(batch, clocks, bad, near)
      PROVE  Rests(s) \/ Passes(s)
  <2>. DEFINE bucket == IF buckets' # buckets THEN buckets' ELSE 0
  <2>1. bucket \in {0, buckets + 1} /\ bucket \in Nat
    BY <1>3 DEF MuxProbeSubmits, TypeOK
  <2>2. bucket # 0 => batch \ bad = Source
    BY <1>3 DEF MuxProbeSubmits, Complete
  <2>3. attempts' = attempts + 1 /\ attempts' \in Nat /\ attempts' # 0 /\ ~failed
    BY <1>3 DEF MuxProbeSubmits, TypeOK
  <2>. HIDE DEF bucket
  <2>4. Issues(Receipt(attempts', bucket), batch \ bad)
    BY <2>1, <2>2, <2>3 DEF Issues, Receipt, TypeOK
  <2>5. Receipt(attempts', bucket) \in ReceiptType
    BY <2>1, <2>3, ReceiptTyped
  <2>6. TakesBatch(batch) /\ HandsOver(batch, Receipt(attempts', bucket), batch \ bad)
    BY <1>3 DEF MuxProbeSubmits, bucket
  <2>. QED  BY <2>4, <2>5, <2>6, HandsOverStep DEF Passes
<1>4. CASE MuxProbeRaises(batch, clocks)
  BY <1>4 DEF MuxProbeRaises, TakesBatch, TypeOK, ledgerVars, Rests
<1>. QED  BY <1>1, <1>2, <1>3, <1>4

LEMMA SourceStep ==
  ASSUME TypeOK, [Next]_vars, NEW s \in Source
  PROVE  Rests(s) \/ Passes(s) \/ Probed(s) \/ Lost(s)
<1>1. CASE \E batch \in SUBSET Source : MuxProbe(batch)
  BY <1>1, MuxProbeStep
<1>2. ASSUME NEW t \in Source, BranchLoses(t) PROVE Rests(s) \/ Lost(s)
  BY <1>2 DEF BranchLoses, Rests, Lost, ledgerVars, TypeOK
<1>3. ASSUME NEW t \in Source, BranchProbe(t) PROVE Rests(s) \/ Probed(s)
  <2>1. CASE s = t
    BY <1>3, <2>1 DEF BranchProbe, Consume, Probed, TypeOK
  <2>2. CASE s # t
    BY <1>3, <2>2 DEF BranchProbe, Consume, Rests, TypeOK
  <2>. QED  BY <2>1, <2>2
<1>4. ASSUME NEW t \in Source,
             Decode(t) \/ \E p \in PadName : \/ FileConnects(t, p) \/ RtspConnects(t, p)
                                             \/ OtherPad(t, p) \/ RtspPadRemoved(t, p)
      PROVE  Rests(s)
  BY <1>4 DEF Decode, FileConnects, RtspConnects, OtherPad, RtspPadRemoved, FlowUnchanged,
    ledgerVars, Rests
<1>5. CASE WorkerFails \/ UNCHANGED vars
  BY <1>5 DEF WorkerFails, vars, ledgerVars, Rests
<1>. QED  BY <1>1, <1>2, <1>3, <1>4, <1>5 DEF Next

-----------------------------------------------------------------------------
(* Types, for any limit: the ledger stays within it, and a source is only   *)
(* poisoned while it has an entry.                                          *)

\* What record() leaves in the queue of a source.
LEMMA AppendedProperties ==
  ASSUME TypeOK, NEW s \in Source, NEW entry \in EntryType
  PROVE  LET queue == Appended(s, entry)
             evicted == IF Full(s) THEN 1 ELSE 0
         IN /\ queue \in Seq(EntryType) /\ queue # <<>>
            /\ Len(queue) = Len(pending[s]) + 1 - evicted
            /\ Len(queue) \in 1..MaxPending
            /\ queue[Len(queue)] = entry
            /\ \A i \in 1..Len(queue) - 1 : queue[i] = pending[s][i + evicted]
<1>1. pending[s] \in Seq(EntryType) /\ Len(pending[s]) \in 0..MaxPending
  BY DEF TypeOK
<1>2. MaxPending \in Nat \ {0}
  BY PendingAssumption
<1>3. CASE Full(s)
  <2>. DEFINE rest == Tail(pending[s])
  <2>1. pending[s] # <<>>
    BY <1>1, <1>2, <1>3, EmptySeq DEF Full
  <2>2. /\ rest \in Seq(EntryType) /\ Len(rest) = Len(pending[s]) - 1
        /\ \A i \in 1..Len(rest) : rest[i] = pending[s][i + 1]
    BY <1>1, <2>1, HeadTailProperties
  <2>3. Appended(s, entry) = Append(rest, entry)
    BY <1>3 DEF Appended
  <2>. HIDE DEF rest
  <2>4. /\ Append(rest, entry) \in Seq(EntryType) /\ Append(rest, entry) # <<>>
        /\ Len(Append(rest, entry)) = Len(rest) + 1
        /\ \A i \in 1..Len(rest) : Append(rest, entry)[i] = rest[i]
        /\ Append(rest, entry)[Len(rest) + 1] = entry
    BY <2>2, AppendProperties
  <2>5. Len(rest) \in Nat /\ Len(Append(rest, entry)) = Len(pending[s])
    BY <1>1, <2>2, <2>4, LenProperties
  <2>6. \A i \in 1..Len(Append(rest, entry)) - 1 : Append(rest, entry)[i] = pending[s][i + 1]
    BY <2>2, <2>4, <2>5
  <2>. QED  BY <1>1, <1>2, <1>3, <2>3, <2>4, <2>5, <2>6 DEF Full
<1>4. CASE ~Full(s)
  <2>1. Appended(s, entry) = Append(pending[s], entry)
    BY <1>4 DEF Appended
  <2>2. /\ Appended(s, entry) \in Seq(EntryType) /\ Appended(s, entry) # <<>>
        /\ Len(Appended(s, entry)) = Len(pending[s]) + 1
        /\ \A i \in 1..Len(pending[s]) : Appended(s, entry)[i] = pending[s][i]
        /\ Appended(s, entry)[Len(pending[s]) + 1] = entry
    BY <1>1, <2>1, AppendProperties
  <2>3. \A i \in 1..Len(Appended(s, entry)) - 1 : Appended(s, entry)[i] = pending[s][i + 0]
    BY <1>1, <2>2
  <2>4. Len(Appended(s, entry)) \in 1..MaxPending
    BY <1>1, <1>2, <1>4, <2>2 DEF Full
  <2>. QED  BY <1>1, <1>4, <2>2, <2>3, <2>4
<1>. QED  BY <1>3, <1>4

\* The ledger and the branch of a source keep their types.
LedgerTypes(s) ==
  /\ pending[s] \in Seq(EntryType) /\ Len(pending[s]) <= MaxPending
  /\ s \in poisoned => pending[s] # <<>>
  /\ branch[s] \in Seq(FrameType)
  /\ nextNum[s] \in Nat /\ credit[s] \in Int /\ lastAttempt[s] \in Nat

LEMMA LedgerTypesStep ==
  ASSUME TypeOK, [Next]_vars, NEW s \in Source
  PROVE  LedgerTypes(s)'
<1>. USE DEF LedgerTypes
<1>1. LedgerTypes(s) /\ MaxPending \in Nat \ {0}
  BY PendingAssumption DEF TypeOK
<1>2. CASE Rests(s)
  BY <1>1, <1>2 DEF Rests
<1>3. CASE Passes(s)
  <2>. PICK receipt \in ReceiptType, frames \in SUBSET Source :
         Recorded(s, receipt, s \in frames)
    BY <1>3 DEF Passes
  <2>. DEFINE entry == [num |-> nextNum[s], receipt |-> receipt]
              frame == [num |-> nextNum[s], connection |-> Head(upstream[s]), own |-> receipt,
                        submitted |-> s \in frames, alone |-> branch[s] = <<>>]
  <2>1. entry \in EntryType
    BY <1>1 DEF EntryType
  <2>2. Head(upstream[s]) \in Nat
    BY HeadTailProperties DEF TypeOK, Recorded
  <2>3. frame \in FrameType
    BY <1>1, <2>2 DEF FrameType
  <2>4. pending'[s] = Appended(s, entry) /\ branch'[s] = Append(branch[s], frame)
    BY DEF Recorded
  <2>. HIDE DEF entry, frame
  <2>5. pending'[s] \in Seq(EntryType) /\ pending'[s] # <<>> /\ Len(pending'[s]) <= MaxPending
    BY <2>1, <2>4, <1>1, AppendedProperties
  <2>6. branch'[s] \in Seq(FrameType)
    BY <2>3, <2>4, <1>1, AppendProperties
  <2>7. nextNum'[s] \in Nat /\ credit'[s] \in Int /\ lastAttempt'[s] \in Nat
    BY <1>1 DEF Recorded
  <2>. QED  BY <2>5, <2>6, <2>7
<1>4. CASE Probed(s)
  <2>1. branch'[s] \in Seq(FrameType) /\ Head(branch[s]) \in FrameType
    BY <1>1, <1>4, HeadTailProperties DEF Probed
  <2>2. pending'[s] \in Seq(EntryType) /\ Len(pending'[s]) <= MaxPending
    BY <1>1, <1>4, HeadTailProperties, EmptySeq DEF Probed, Matches
  <2>3. s \notin poisoned'
    BY <1>1, <1>4 DEF Probed
  <2>4. ASSUME Taken(s, Head(branch[s]).num) # NoReceipt
        PROVE  Taken(s, Head(branch[s]).num).attempt \in Nat
    <3>1. pending[s] # <<>> /\ Taken(s, Head(branch[s]).num) = Head(pending[s]).receipt
      BY <2>4 DEF Taken, Matches
    <3>2. Head(pending[s]) \in EntryType
      BY <1>1, <3>1, HeadTailProperties
    <3>. QED  BY <3>1, <3>2 DEF EntryType, ReceiptType
  <2>5. credit'[s] \in Int /\ lastAttempt'[s] \in Nat /\ nextNum'[s] \in Nat
    BY <1>1, <1>4, <2>4 DEF Probed
  <2>. QED  BY <2>1, <2>2, <2>3, <2>5
<1>5. CASE Lost(s)
  <2>1. branch'[s] \in Seq(FrameType)
    BY <1>1, <1>5, HeadTailProperties DEF Lost
  <2>. QED  BY <1>1, <1>5, <2>1 DEF Lost
<1>. QED  BY <1>2, <1>3, <1>4, <1>5, SourceStep

\* The flow's variables stay functions of the sources.
LEMMA FlowShape ==
  ASSUME TypeOK, [Next]_vars
  PROVE  /\ pending' = [s \in Source |-> pending'[s]]
         /\ branch' = [s \in Source |-> branch'[s]]
         /\ nextNum' = [s \in Source |-> nextNum'[s]]
         /\ credit' = [s \in Source |-> credit'[s]]
         /\ lastAttempt' = [s \in Source |-> lastAttempt'[s]]
<1>. USE DEF TypeOK
<1>1. CASE UNCHANGED <<pending, branch, nextNum, credit, lastAttempt>>
  BY <1>1
<1>2. ASSUME NEW s \in Source,
             \/ \E p \in PadName : \/ FileConnects(s, p) \/ RtspConnects(s, p)
                                   \/ OtherPad(s, p) \/ RtspPadRemoved(s, p)
             \/ Decode(s)
      PROVE  UNCHANGED <<pending, branch, nextNum, credit, lastAttempt>>
  BY <1>2 DEF FileConnects, RtspConnects, OtherPad, RtspPadRemoved, Decode, FlowUnchanged,
    ledgerVars
<1>3. CASE \E s \in Source : BranchLoses(s)
  BY <1>3 DEF BranchLoses, ledgerVars
<1>4. CASE \E s \in Source : BranchProbe(s)
  <2>. PICK s \in Source : BranchProbe(s)
    BY <1>4
  <2>1. /\ pending' = [pending EXCEPT ![s] = pending'[s]]
        /\ branch' = [branch EXCEPT ![s] = branch'[s]]
        /\ credit' = [credit EXCEPT ![s] = credit'[s]]
        /\ lastAttempt' = [lastAttempt EXCEPT ![s] = lastAttempt'[s]]
        /\ nextNum' = nextNum
    BY DEF BranchProbe, Consume
  <2>. QED  BY <2>1
<1>5. CASE \E batch \in SUBSET Source : MuxProbe(batch)
  <2>. PICK batch \in SUBSET Source : MuxProbe(batch)
    BY <1>5
  <2>1. lastAttempt' = lastAttempt /\ \E f : nextNum' = [s \in Source |-> f[s]]
    BY DEF MuxProbe, MuxProbeHolds, MuxProbeAges, MuxProbeSubmits, MuxProbeRaises, TakesBatch
  <2>2. UNCHANGED <<pending, branch, credit>> \/ \E r, e : HandsOver(batch, r, e)
    BY DEF MuxProbe, MuxProbeHolds, MuxProbeAges, MuxProbeSubmits, MuxProbeRaises, ledgerVars
  <2>. QED  BY <2>1, <2>2 DEF HandsOver, Record
<1>6. CASE WorkerFails \/ UNCHANGED vars
  BY <1>1, <1>6 DEF WorkerFails, vars, ledgerVars
<1>. QED  BY <1>1, <1>2, <1>3, <1>4, <1>5, <1>6 DEF Next

\* The sources, the clock gate and the runtime's counters keep their types.
LEMMA OtherTypesStep ==
  ASSUME TypeOK, [Next]_vars
  PROVE  /\ pads' \in [Source -> SUBSET PadName]
         /\ linked' \in [Source -> PadName \cup {NoPad}]
         /\ activePad' \in [Source -> PadName \cup {NoPad}]
         /\ hasConnected' \subseteq Source /\ disconnected' \subseteq Source
         /\ ready' \subseteq Source /\ poisoned' \subseteq Source
         /\ connection' \in [Source -> Nat]
         /\ upstream' \in [Source -> Seq(Nat)]
         /\ attempts' \in Nat /\ buckets' \in Nat /\ gens' \in [Source -> Nat]
<1>. USE DEF TypeOK
<1>. DEFINE Pads == /\ pads' \in [Source -> SUBSET PadName]
                    /\ linked' \in [Source -> PadName \cup {NoPad}]
                    /\ activePad' \in [Source -> PadName \cup {NoPad}]
                    /\ hasConnected' \subseteq Source /\ disconnected' \subseteq Source
                    /\ connection' \in [Source -> Nat] /\ gens' \in [Source -> Nat]
            Rest == /\ ready' \subseteq Source /\ poisoned' \subseteq Source
                    /\ upstream' \in [Source -> Seq(Nat)]
                    /\ attempts' \in Nat /\ buckets' \in Nat
<1>1. ASSUME NEW s \in Source, NEW p \in PadName, FileConnects(s, p) PROVE Pads /\ Rest
  BY <1>1 DEF FileConnects, Connects, FilePadLinked, PadAppears, FlowUnchanged, ledgerVars
<1>2. ASSUME NEW s \in Source, NEW p \in PadName, RtspConnects(s, p) PROVE Pads /\ Rest
  BY <1>2 DEF RtspConnects, Connects, PadLinked, PadAppears, FlowUnchanged, ledgerVars
<1>3. ASSUME NEW s \in Source, NEW p \in PadName, OtherPad(s, p) PROVE Pads /\ Rest
  BY <1>3 DEF OtherPad, PadIgnored, PadAppears, FlowUnchanged, ledgerVars
<1>4. ASSUME NEW s \in Source, NEW p \in PadName, RtspPadRemoved(s, p) PROVE Pads /\ Rest
  BY <1>4 DEF RtspPadRemoved, PadRemoved, FlowUnchanged, ledgerVars
<1>5. ASSUME NEW s \in Source, Decode(s) PROVE Pads /\ Rest
  <2>1. Append(upstream[s], connection[s]) \in Seq(Nat)
    OBVIOUS
  <2>. QED  BY <1>5, <2>1 DEF Decode, binVars, ledgerVars, runtimeVars
<1>6. ASSUME NEW s \in Source, BranchLoses(s) \/ BranchProbe(s) PROVE Pads /\ Rest
  BY <1>6 DEF BranchLoses, BranchProbe, Consume, binVars, ledgerVars, runtimeVars
<1>7. ASSUME NEW batch \in SUBSET Source, MuxProbe(batch) PROVE Pads /\ Rest
  <2>. PICK clocks \in SUBSET batch :
         \/ MuxProbeHolds(batch, clocks)
         \/ MuxProbeAges(batch, clocks)
         \/ \E bad \in SUBSET batch, near \in BOOLEAN : MuxProbeSubmits(batch, clocks, bad, near)
         \/ MuxProbeRaises(batch, clocks)
    BY <1>7 DEF MuxProbe
  <2>1. TakesBatch(batch) /\ Gated(batch, clocks)
    BY DEF MuxProbeHolds, MuxProbeAges, MuxProbeSubmits, MuxProbeRaises
  <2>2. attempts' \in {attempts, attempts + 1} /\ buckets' \in {buckets, buckets + 1}
    BY Zenon DEF MuxProbeHolds, MuxProbeAges, MuxProbeSubmits, MuxProbeRaises
  <2>3. ready' \subseteq Source
    BY <2>1 DEF Gated, ObserveBatch
  <2>4. upstream' \in [Source -> Seq(Nat)]
    <3>1. \A s \in batch : Tail(upstream[s]) \in Seq(Nat)
      BY <2>1, HeadTailProperties DEF TakesBatch
    <3>. QED  BY <2>1, <3>1 DEF TakesBatch
  <2>5. poisoned' \subseteq Source
    <3>1. \/ poisoned' = poisoned \/ \E r, e : HandsOver(batch, r, e)
      BY DEF MuxProbeHolds, MuxProbeAges, MuxProbeSubmits, MuxProbeRaises, ledgerVars
    <3>. QED  BY <3>1 DEF HandsOver, Record
  <2>6. attempts' \in Nat /\ buckets' \in Nat
    BY <2>2
  <2>. QED  BY <2>1, <2>3, <2>4, <2>5, <2>6 DEF TakesBatch, binVars
<1>8. CASE WorkerFails \/ UNCHANGED vars
  BY <1>8 DEF WorkerFails, vars, binVars, ledgerVars, runtimeVars
<1>. QED  BY <1>1, <1>2, <1>3, <1>4, <1>5, <1>6, <1>7, <1>8 DEF Next

LEMMA InitTypes == Init => TypeOK
<1>1. MaxPending \in Nat \ {0}
  BY PendingAssumption
<1>. QED
  BY <1>1 DEF Init, TypeOK, BinInit, GateInit, LedgerInit

LEMMA TypeStep == TypeOK /\ [Next]_vars => TypeOK'
<1>. SUFFICES ASSUME TypeOK, [Next]_vars PROVE TypeOK'
  OBVIOUS
<1>1. \A s \in Source : LedgerTypes(s)'
  BY LedgerTypesStep
<1>. QED  BY <1>1, FlowShape, OtherTypesStep DEF TypeOK, LedgerTypes

\* The state has its types; whatever the limit, no queue of the ledger exceeds
\* it, and a poisoned source always has an entry left, so that its next
\* consume() heals it.
THEOREM TypeCorrect == Spec => []TypeOK
BY InitTypes, TypeStep, PTL DEF Spec

-----------------------------------------------------------------------------
(* Receipts.  A queue of the ledger and the frames of its branch are two     *)
(* lists in the order of frame numbers.  What was lost from one of them is    *)
(* still in the other, so their lengths say nothing; but the same number      *)
(* carries the same receipt in both, and while neither is empty they end      *)
(* with the same frame.                                                       *)

\* Only numbers the mux has given out occur.
NumbersGiven(list, next) == \A i \in 1..Len(list) : list[i].num < next

\* One number, one receipt.
SameReceipts(queue, frames) ==
  \A i \in 1..Len(queue), j \in 1..Len(frames) :
    queue[i].num = frames[j].num => queue[i].receipt = frames[j].own

\* Numbers grow along a queue of the ledger ...
LedgerInOrder(queue) ==
  \A i, j \in 1..Len(queue) : i < j => queue[i].num < queue[j].num

\* ... which ends with the last frame of the branch.
SameEnd(queue, frames) ==
  queue # <<>> /\ frames # <<>> => queue[Len(queue)].num = frames[Len(frames)].num

\* A frame that found its branch empty is at its head.
AloneAtHead(frames) == \A j \in 2..Len(frames) : ~frames[j].alone

InStep(queue, frames, next) ==
  /\ NumbersGiven(queue, next) /\ NumbersGiven(frames, next)
  /\ SameReceipts(queue, frames)
  /\ LedgerInOrder(queue)
  /\ SameEnd(queue, frames)
  /\ AloneAtHead(frames)

ReceiptsInv(s) == InStep(pending[s], branch[s], nextNum[s])

-----------------------------------------------------------------------------
(* Lists lose entries at their head and get new ones at their end. *)

\* What is left of a list when entries at its head are gone.
IsSuffix(rest, list) ==
  /\ Len(rest) <= Len(list)
  /\ \A i \in 1..Len(rest) : rest[i] = list[i + (Len(list) - Len(rest))]

LEMMA SuffixOfItself ==
  ASSUME NEW S, NEW list \in Seq(S)
  PROVE  IsSuffix(list, list) /\ IsSuffix(<<>>, list)
<1>1. Len(list) \in Nat /\ Len(<<>>) = 0
  BY LenProperties
<1>. QED  BY <1>1 DEF IsSuffix

LEMMA TailIsSuffix ==
  ASSUME NEW S, NEW list \in Seq(S), list # <<>>
  PROVE  /\ Len(list) \in Nat \ {0} /\ Head(list) = list[1]
         /\ Tail(list) \in Seq(S) /\ Len(Tail(list)) = Len(list) - 1
         /\ IsSuffix(Tail(list), list)
<1>1. /\ Len(list) \in Nat \ {0} /\ Len(Tail(list)) = Len(list) - 1 /\ Tail(list) \in Seq(S)
      /\ \A i \in 1..Len(Tail(list)) : Tail(list)[i] = list[i + 1]
  BY HeadTailProperties, EmptySeq
<1>. QED  BY <1>1 DEF IsSuffix

LEMMA SuffixEntries ==
  ASSUME NEW list, NEW rest, Len(list) \in Nat, Len(rest) \in Nat, IsSuffix(rest, list)
  PROVE  \E d \in Nat : /\ Len(list) = Len(rest) + d
                        /\ \A i \in 1..Len(rest) : /\ i + d \in 1..Len(list)
                                                   /\ rest[i] = list[i + d]
<1>. DEFINE d == Len(list) - Len(rest)
<1>1. d \in Nat /\ Len(list) = Len(rest) + d
  BY DEF IsSuffix
<1>2. \A i \in 1..Len(rest) : i + d \in 1..Len(list) /\ rest[i] = list[i + d]
  BY <1>1 DEF IsSuffix
<1>. QED  BY <1>1, <1>2

LEMMA NumbersTyped ==
  /\ \A queue \in Seq(EntryType) : \A i \in 1..Len(queue) :
       queue[i] \in EntryType /\ queue[i].num \in Nat
  /\ \A frames \in Seq(FrameType) : \A j \in 1..Len(frames) :
       frames[j] \in FrameType /\ frames[j].num \in Nat
<1>1. \A queue \in Seq(EntryType) : \A i \in 1..Len(queue) : queue[i] \in EntryType
  BY ElementOfSeq
<1>2. \A frames \in Seq(FrameType) : \A j \in 1..Len(frames) : frames[j] \in FrameType
  BY ElementOfSeq
<1>. QED  BY <1>1, <1>2 DEF EntryType, FrameType

\* Losing heads on either side keeps the ledger and the branch in step.
LEMMA InStepSuffix ==
  ASSUME NEW queue \in Seq(EntryType), NEW frames \in Seq(FrameType), NEW next \in Nat,
         InStep(queue, frames, next),
         NEW q \in Seq(EntryType), IsSuffix(q, queue),
         NEW f \in Seq(FrameType), IsSuffix(f, frames)
  PROVE  InStep(q, f, next)
<1>. DEFINE c == Len(queue) - Len(q)  d == Len(frames) - Len(f)
<1>1. /\ c \in Nat /\ d \in Nat /\ Len(q) \in Nat /\ Len(f) \in Nat
      /\ Len(queue) = Len(q) + c /\ Len(frames) = Len(f) + d
  BY LenProperties DEF IsSuffix
<1>2. /\ \A i \in 1..Len(q) : q[i] = queue[i + c] /\ i + c \in 1..Len(queue)
      /\ \A j \in 1..Len(f) : f[j] = frames[j + d] /\ j + d \in 1..Len(frames)
  BY <1>1 DEF IsSuffix
<1>3. (q # <<>> => Len(q) # 0 /\ queue # <<>>) /\ (f # <<>> => Len(f) # 0 /\ frames # <<>>)
  BY <1>1, EmptySeq
<1>. HIDE DEF c, d
<1>4. NumbersGiven(q, next) /\ NumbersGiven(f, next)
  BY <1>2 DEF InStep, NumbersGiven
<1>5. SameReceipts(q, f)
  BY <1>2 DEF InStep, SameReceipts
<1>6. LedgerInOrder(q)
  <2>. SUFFICES ASSUME NEW i \in 1..Len(q), NEW j \in 1..Len(q), i < j
                PROVE  q[i].num < q[j].num
    BY DEF LedgerInOrder
  <2>1. i + c < j + c
    BY <1>1
  <2>. QED  BY <1>2, <2>1 DEF InStep, LedgerInOrder
<1>7. SameEnd(q, f)
  <2>. SUFFICES ASSUME q # <<>>, f # <<>> PROVE q[Len(q)].num = f[Len(f)].num
    BY DEF SameEnd
  <2>1. Len(q) \in 1..Len(q) /\ Len(f) \in 1..Len(f)
    BY <1>1, <1>3
  <2>2. q[Len(q)] = queue[Len(q) + c] /\ f[Len(f)] = frames[Len(f) + d]
    BY <1>2, <2>1
  <2>. QED  BY <1>1, <1>3, <2>2 DEF InStep, SameEnd
<1>8. AloneAtHead(f)
  <2>. SUFFICES ASSUME NEW j \in 2..Len(f) PROVE ~f[j].alone
    BY DEF AloneAtHead
  <2>1. j + d \in 2..Len(frames) /\ f[j] = frames[j + d]
    BY <1>1, <1>2
  <2>. QED  BY <2>1 DEF InStep, AloneAtHead
<1>. QED  BY <1>4, <1>5, <1>6, <1>7, <1>8 DEF InStep

\* A receipt recorded for a new frame keeps them in step.
LEMMA InStepAppend ==
  ASSUME NEW queue \in Seq(EntryType), NEW frames \in Seq(FrameType), NEW next \in Nat,
         InStep(queue, frames, next),
         NEW entry \in EntryType, NEW frame \in FrameType,
         entry.num = next, frame.num = next, entry.receipt = frame.own,
         frame.alone => frames = <<>>
  PROVE  InStep(Append(queue, entry), Append(frames, frame), next + 1)
<1>. DEFINE q == Append(queue, entry)  f == Append(frames, frame)
            n == Len(queue)  m == Len(frames)
<1>1. /\ n \in Nat /\ Len(q) = n + 1 /\ q[n + 1] = entry
      /\ \A i \in 1..n : q[i] = queue[i] /\ q[i].num \in Nat
  BY LenProperties, AppendProperties, NumbersTyped
<1>2. /\ m \in Nat /\ Len(f) = m + 1 /\ f[m + 1] = frame
      /\ \A j \in 1..m : f[j] = frames[j] /\ f[j].num \in Nat
  BY LenProperties, AppendProperties, NumbersTyped
<1>3. m # 0 => frames # <<>>
  BY EmptySeq
<1>. HIDE DEF q, f, n, m
<1>4. /\ \A i \in 1..n : q[i].num < next
      /\ \A j \in 1..m : f[j].num < next
  BY <1>1, <1>2 DEF InStep, NumbersGiven, n, m
<1>5. NumbersGiven(q, next + 1) /\ NumbersGiven(f, next + 1)
  BY <1>1, <1>2, <1>4 DEF NumbersGiven
<1>6. SameReceipts(q, f)
  <2>. SUFFICES ASSUME NEW i \in 1..n + 1, NEW j \in 1..m + 1, q[i].num = f[j].num
                PROVE  q[i].receipt = f[j].own
    BY <1>1, <1>2 DEF SameReceipts
  <2>1. CASE i \in 1..n
    <3>1. j \in 1..m
      BY <1>2, <1>4, <2>1
    <3>. QED  BY <1>1, <1>2, <2>1, <3>1 DEF InStep, SameReceipts, n, m
  <2>2. CASE i = n + 1
    <3>1. j = m + 1
      BY <1>1, <1>2, <1>4, <2>2
    <3>. QED  BY <1>1, <1>2, <2>2, <3>1
  <2>. QED  BY <1>1, <2>1, <2>2
<1>7. LedgerInOrder(q)
  <2>. SUFFICES ASSUME NEW i \in 1..n + 1, NEW j \in 1..n + 1, i < j
                PROVE  q[i].num < q[j].num
    BY <1>1 DEF LedgerInOrder
  <2>1. i \in 1..n
    BY <1>1
  <2>2. CASE j \in 1..n
    BY <1>1, <2>1, <2>2 DEF InStep, LedgerInOrder, n
  <2>3. CASE j = n + 1
    BY <1>1, <1>4, <2>1, <2>3
  <2>. QED  BY <1>1, <2>2, <2>3
<1>8. SameEnd(q, f)
  BY <1>1, <1>2 DEF SameEnd
<1>9. AloneAtHead(f)
  <2>. SUFFICES ASSUME NEW j \in 2..m + 1 PROVE ~f[j].alone
    BY <1>2 DEF AloneAtHead
  <2>1. CASE j \in 2..m
    BY <1>2, <2>1 DEF InStep, AloneAtHead, m
  <2>2. CASE j = m + 1
    BY <1>2, <1>3, <2>2
  <2>. QED  BY <1>2, <2>1, <2>2
<1>. QED  BY <1>5, <1>6, <1>7, <1>8, <1>9 DEF InStep, q, f

LEMMA InStepLater ==
  ASSUME NEW queue \in Seq(EntryType), NEW frames \in Seq(FrameType), NEW next \in Nat,
         InStep(queue, frames, next)
  PROVE  InStep(queue, frames, next + 1)
BY NumbersTyped DEF InStep, NumbersGiven

\* record() appends to what the limit leaves of the queue, and the frame follows.
LEMMA RecordedLists ==
  ASSUME TypeOK, NEW s \in Source, NEW receipt \in ReceiptType, NEW frames \in SUBSET Source,
         Recorded(s, receipt, s \in frames)
  PROVE  \E rest \in Seq(EntryType), entry \in EntryType, frame \in FrameType :
           /\ IsSuffix(rest, pending[s]) /\ (~Full(s) => rest = pending[s])
           /\ entry.num = nextNum[s] /\ entry.receipt = receipt
           /\ frame.num = nextNum[s] /\ frame.own = receipt
           /\ frame.connection = Head(upstream[s])
           /\ frame.submitted <=> s \in frames
           /\ frame.alone <=> branch[s] = <<>>
           /\ pending'[s] = Append(rest, entry) /\ branch'[s] = Append(branch[s], frame)
<1>. DEFINE rest == IF Full(s) THEN Tail(pending[s]) ELSE pending[s]
            entry == [num |-> nextNum[s], receipt |-> receipt]
            frame == [num |-> nextNum[s], connection |-> Head(upstream[s]), own |-> receipt,
                      submitted |-> s \in frames, alone |-> branch[s] = <<>>]
<1>1. entry \in EntryType
  BY DEF EntryType, TypeOK
<1>2. frame \in FrameType
  <2>1. Head(upstream[s]) \in Nat
    BY HeadTailProperties DEF TypeOK, Recorded
  <2>. QED  BY <2>1 DEF FrameType, TypeOK
<1>3. rest \in Seq(EntryType) /\ IsSuffix(rest, pending[s])
  <2>1. pending[s] \in Seq(EntryType)
    BY DEF TypeOK
  <2>2. Full(s) => pending[s] # <<>>
    BY PendingAssumption, EmptySeq DEF Full
  <2>. QED  BY <2>1, <2>2, TailIsSuffix, SuffixOfItself
<1>4. pending'[s] = Append(rest, entry) /\ branch'[s] = Append(branch[s], frame)
  BY DEF Recorded, Appended
<1>5. /\ entry.num = nextNum[s] /\ entry.receipt = receipt
      /\ frame.num = nextNum[s] /\ frame.own = receipt
      /\ frame.connection = Head(upstream[s])
      /\ frame.submitted <=> s \in frames
      /\ frame.alone <=> branch[s] = <<>>
  OBVIOUS
<1>6. ~Full(s) => rest = pending[s]
  OBVIOUS
<1>. HIDE DEF rest, entry, frame
<1>. QED  BY <1>1, <1>2, <1>3, <1>4, <1>5, <1>6

\* A lost or a probed frame leaves the branch; the ledger may lose any of its heads.
LEMMA ShortenedLists ==
  ASSUME TypeOK, NEW s \in Source, Probed(s) \/ Lost(s)
  PROVE  /\ pending'[s] \in Seq(EntryType) /\ IsSuffix(pending'[s], pending[s])
         /\ branch'[s] \in Seq(FrameType) /\ IsSuffix(branch'[s], branch[s])
<1>1. pending[s] \in Seq(EntryType) /\ branch[s] \in Seq(FrameType) /\ branch[s] # <<>>
  BY DEF TypeOK, Probed, Lost
<1>2. branch'[s] = Tail(branch[s])
  BY DEF Probed, Lost
<1>3. \/ pending'[s] = <<>> \/ pending'[s] = pending[s]
      \/ pending[s] # <<>> /\ pending'[s] = Tail(pending[s])
  BY DEF Probed, Lost, Matches
<1>4. <<>> \in Seq(EntryType)
  BY EmptySeq
<1>. QED  BY <1>1, <1>2, <1>3, <1>4, TailIsSuffix, SuffixOfItself

LEMMA ReceiptsStep ==
  ASSUME TypeOK, [Next]_vars, NEW s \in Source, ReceiptsInv(s)
  PROVE  ReceiptsInv(s)'
<1>. USE DEF ReceiptsInv
<1>1. pending[s] \in Seq(EntryType) /\ branch[s] \in Seq(FrameType) /\ nextNum[s] \in Nat
  BY DEF TypeOK
<1>2. CASE Rests(s)
  BY <1>1, <1>2, InStepLater DEF Rests
<1>3. CASE Passes(s)
  <2>. PICK receipt \in ReceiptType, frames \in SUBSET Source :
         Recorded(s, receipt, s \in frames)
    BY <1>3 DEF Passes
  <2>. PICK rest \in Seq(EntryType), entry \in EntryType, frame \in FrameType :
         /\ IsSuffix(rest, pending[s])
         /\ entry.num = nextNum[s] /\ frame.num = nextNum[s] /\ entry.receipt = frame.own
         /\ frame.alone => branch[s] = <<>>
         /\ pending'[s] = Append(rest, entry) /\ branch'[s] = Append(branch[s], frame)
    BY RecordedLists
  <2>1. InStep(rest, branch[s], nextNum[s])
    BY <1>1, InStepSuffix, SuffixOfItself
  <2>2. nextNum'[s] = nextNum[s] + 1
    BY DEF Recorded
  <2>. QED  BY <1>1, <2>1, <2>2, InStepAppend
<1>4. CASE Probed(s) \/ Lost(s)
  <2>1. nextNum'[s] = nextNum[s]
    BY <1>4 DEF Probed, Lost
  <2>. QED  BY <1>1, <1>4, <2>1, ShortenedLists, InStepSuffix
<1>. QED  BY <1>2, <1>3, <1>4, SourceStep

LEMMA InitReceipts == Init => \A s \in Source : ReceiptsInv(s)
<1>1. Len(<<>>) = 0
  BY EmptySeq
<1>. QED
  BY <1>1 DEF Init, LedgerInit, ReceiptsInv, InStep, NumbersGiven, SameReceipts, LedgerInOrder,
    SameEnd, AloneAtHead

LEMMA ReceiptsInvariant == Spec => [](\A s \in Source : ReceiptsInv(s))
<1>1. TypeOK /\ (\A s \in Source : ReceiptsInv(s)) /\ [Next]_vars
        => (\A s \in Source : ReceiptsInv(s))'
  BY ReceiptsStep
<1>. QED  BY <1>1, InitReceipts, TypeCorrect, PTL DEF Spec

\* The heads that Taken compares are the first entries of the two lists.
LEMMA HeadsAgree ==
  ASSUME TypeOK, NEW s \in Source, ReceiptsInv(s), GetsReceipt(s)
  PROVE  NextReceipt(s) = NextFrame(s).own
<1>. DEFINE frame == Head(branch[s])
<1>1. Matches(s, frame.num) /\ NextReceipt(s) = Head(pending[s]).receipt
  BY DEF GetsReceipt, NextReceipt, NextFrame, Taken
<1>2. pending[s] # <<>> /\ branch[s] # <<>> /\ Head(pending[s]).num = frame.num
  BY <1>1 DEF Matches, GetsReceipt
<1>3. /\ Head(pending[s]) = pending[s][1] /\ Len(pending[s]) \in Nat \ {0}
      /\ frame = branch[s][1] /\ Len(branch[s]) \in Nat \ {0}
  BY <1>2, TailIsSuffix DEF TypeOK
<1>4. 1 \in 1..Len(pending[s]) /\ 1 \in 1..Len(branch[s])
  BY <1>3
<1>. QED  BY <1>1, <1>2, <1>3, <1>4 DEF ReceiptsInv, InStep, SameReceipts, NextFrame

\* Whatever was lost on a branch, evicted from the ledger or skipped by it, a
\* branch probe writes the rows of a frame with the receipt the mux probe
\* recorded for that very frame, or with none.
THEOREM ReceiptsAreOwn == Spec => []OwnReceiptOrNone
<1>1. TypeOK /\ (\A s \in Source : ReceiptsInv(s)) => OwnReceiptOrNone
  BY HeadsAgree DEF OwnReceiptOrNone
<1>. QED  BY <1>1, TypeCorrect, ReceiptsInvariant, PTL

-----------------------------------------------------------------------------
\* Only frames whose observations were submitted have an accepted receipt.
AcceptedAreSubmitted(frames) ==
  \A j \in 1..Len(frames) : frames[j].own.accepted => frames[j].submitted

LEMMA SubmittedStep ==
  ASSUME TypeOK, [Next]_vars, NEW s \in Source, AcceptedAreSubmitted(branch[s])
  PROVE  AcceptedAreSubmitted(branch'[s])
<1>. USE DEF AcceptedAreSubmitted
<1>1. branch[s] \in Seq(FrameType) /\ Len(branch[s]) \in Nat
  BY LenProperties DEF TypeOK
<1>2. CASE Rests(s)
  BY <1>2 DEF Rests
<1>3. CASE Passes(s)
  <2>. PICK receipt \in ReceiptType, frames \in SUBSET Source :
         Issues(receipt, frames) /\ Recorded(s, receipt, s \in frames)
    BY <1>3 DEF Passes
  <2>. PICK frame \in FrameType :
         /\ frame.own = receipt /\ (frame.submitted <=> s \in frames)
         /\ branch'[s] = Append(branch[s], frame)
    BY RecordedLists
  <2>1. frame.own.accepted => frame.submitted
    BY DEF Issues
  <2>2. /\ Len(branch'[s]) = Len(branch[s]) + 1
        /\ \A j \in 1..Len(branch[s]) : branch'[s][j] = branch[s][j]
        /\ branch'[s][Len(branch[s]) + 1] = frame
    BY <1>1, AppendProperties
  <2>3. Len(branch[s]) \in Nat
    BY <1>1
  <2>4. \A j \in 1..Len(branch[s]) + 1 : j \in 1..Len(branch[s]) \/ j = Len(branch[s]) + 1
    BY <2>3
  <2>. QED  BY <2>1, <2>2, <2>4
<1>4. CASE Probed(s) \/ Lost(s)
  <2>1. IsSuffix(branch'[s], branch[s]) /\ branch'[s] \in Seq(FrameType)
    BY <1>4, ShortenedLists
  <2>2. PICK d \in Nat :
          /\ Len(branch[s]) = Len(branch'[s]) + d
          /\ \A j \in 1..Len(branch'[s]) : /\ j + d \in 1..Len(branch[s])
                                           /\ branch'[s][j] = branch[s][j + d]
    <3>1. Len(branch'[s]) \in Nat
      BY <2>1, LenProperties
    <3>. QED  BY <1>1, <2>1, <3>1, SuffixEntries
  <2>. QED  BY <2>2
<1>. QED  BY <1>2, <1>3, <1>4, SourceStep

LEMMA SubmittedInvariant == Spec => [](\A s \in Source : AcceptedAreSubmitted(branch[s]))
<1>1. Init => \A s \in Source : AcceptedAreSubmitted(branch[s])
  <2>1. Len(<<>>) = 0
    BY EmptySeq
  <2>. QED  BY <2>1 DEF Init, AcceptedAreSubmitted
<1>2. TypeOK /\ (\A s \in Source : AcceptedAreSubmitted(branch[s])) /\ [Next]_vars
        => (\A s \in Source : AcceptedAreSubmitted(branch[s]))'
  BY SubmittedStep
<1>. QED  BY <1>1, <1>2, TypeCorrect, PTL DEF Spec

\* Rows marked as accepted belong to frames whose own observations were submitted
\* with the batch, never to a frame that was left out of it.
THEOREM AcceptedRowsSubmitted == Spec => []AcceptedRowWasSubmitted
<1>1. ASSUME TypeOK, \A s \in Source : ReceiptsInv(s),
             \A s \in Source : AcceptedAreSubmitted(branch[s]),
             NEW s \in Source, GetsReceipt(s), NextReceipt(s).accepted
      PROVE  NextFrame(s).submitted
  <2>1. NextFrame(s) = branch[s][1] /\ 1 \in 1..Len(branch[s])
    BY <1>1, TailIsSuffix DEF GetsReceipt, NextFrame, TypeOK
  <2>. QED  BY <1>1, <2>1, HeadsAgree DEF AcceptedAreSubmitted
<1>2. TypeOK /\ (\A s \in Source : ReceiptsInv(s))
        /\ (\A s \in Source : AcceptedAreSubmitted(branch[s])) => AcceptedRowWasSubmitted
  BY <1>1 DEF AcceptedRowWasSubmitted
<1>. QED  BY <1>2, TypeCorrect, ReceiptsInvariant, SubmittedInvariant, PTL

-----------------------------------------------------------------------------
\* A loss is on credit when the frame that found its branch empty will be refused,
\* or when what is left in the ledger will make the next such frame be refused.
CreditCovers(s) ==
  /\ credit[s] >= 0
  /\ branch[s] = <<>> /\ pending[s] # <<>> => credit[s] >= 1
  /\ branch[s] # <<>> /\ Head(branch[s]).alone /\ ~Matches(s, Head(branch[s]).num)
       => credit[s] >= 1

\* A new receipt: a frame that finds both lists empty will be given its own, and
\* an eviction is on credit.
LEMMA CreditRecorded ==
  ASSUME TypeOK, NEW s \in Source, CreditCovers(s),
         NEW receipt \in ReceiptType, NEW frames \in SUBSET Source,
         Recorded(s, receipt, s \in frames)
  PROVE  CreditCovers(s)'
<1>1. /\ pending[s] \in Seq(EntryType) /\ branch[s] \in Seq(FrameType) /\ credit[s] \in Int
      /\ s \in poisoned => pending[s] # <<>>
  BY DEF TypeOK
<1>2. credit'[s] = IF Full(s) THEN credit[s] + 1 ELSE credit[s]
  BY DEF Recorded
<1>. PICK rest \in Seq(EntryType), entry \in EntryType, frame \in FrameType :
       /\ ~Full(s) => rest = pending[s]
       /\ entry.num = nextNum[s] /\ frame.num = nextNum[s]
       /\ pending'[s] = Append(rest, entry) /\ branch'[s] = Append(branch[s], frame)
  BY RecordedLists
<1>3. branch'[s] # <<>> /\ Head(branch'[s]) = IF branch[s] = <<>> THEN frame ELSE Head(branch[s])
  <2>1. Append(branch[s], frame) # <<>>
    BY <1>1, AppendProperties
  <2>2. Head(Append(branch[s], frame)) = IF branch[s] = <<>> THEN frame ELSE Head(branch[s])
    BY <1>1, HeadTailAppend
  <2>. QED  BY <2>1, <2>2
<1>4. pending'[s] # <<>> /\ Head(pending'[s]) = IF rest = <<>> THEN entry ELSE Head(rest)
  BY AppendProperties, HeadTailAppend
<1>5. ASSUME Head(branch'[s]).alone, ~Matches(s, Head(branch[s]).num)'
      PROVE  credit'[s] >= 1
  <2>1. CASE Full(s)
    BY <1>1, <1>2, <2>1 DEF CreditCovers
  <2>2. CASE ~Full(s) /\ branch[s] = <<>>
    <3>1. pending[s] # <<>>
      <4>. SUFFICES ASSUME pending[s] = <<>> PROVE FALSE
        OBVIOUS
      <4>1. s \notin poisoned'
        BY <1>1, <2>2 DEF Recorded
      <4>2. Head(pending'[s]).num = Head(branch'[s]).num
        BY <1>3, <1>4, <2>2
      <4>. QED  BY <1>4, <1>5, <4>1, <4>2 DEF Matches
    <3>. QED  BY <1>2, <2>2, <3>1 DEF CreditCovers
  <2>3. CASE ~Full(s) /\ branch[s] # <<>>
    <3>1. ~Matches(s, Head(branch[s]).num)
      <4>. SUFFICES ASSUME Matches(s, Head(branch[s]).num) PROVE FALSE
        OBVIOUS
      <4>1. s \notin poisoned'
        BY <2>3 DEF Recorded, Matches
      <4>2. Head(pending'[s]) = Head(pending[s]) /\ Head(branch'[s]) = Head(branch[s])
        BY <1>3, <1>4, <2>3 DEF Matches
      <4>. QED  BY <1>4, <1>5, <4>1, <4>2 DEF Matches
    <3>2. Head(branch[s]).alone
      BY <1>3, <1>5, <2>3
    <3>. QED  BY <1>2, <2>3, <3>1, <3>2 DEF CreditCovers
  <2>. QED  BY <2>1, <2>2, <2>3
<1>6. credit'[s] >= 0
  BY <1>1, <1>2 DEF CreditCovers
<1>. QED  BY <1>3, <1>5, <1>6 DEF CreditCovers

\* A probed frame: what it leaves behind is empty or in step, and if it was
\* refused although it had found its branch empty, that was on credit.
LEMMA CreditProbed ==
  ASSUME TypeOK, NEW s \in Source, ReceiptsInv(s), CreditCovers(s), Probed(s)
  PROVE  CreditCovers(s)'
<1>. DEFINE frame == Head(branch[s])
<1>1. /\ pending[s] \in Seq(EntryType) /\ branch[s] \in Seq(FrameType) /\ credit[s] \in Int
      /\ branch[s] # <<>> /\ branch'[s] = Tail(branch[s])
  BY DEF TypeOK, Probed
<1>2. /\ Len(branch[s]) \in Nat \ {0} /\ frame = branch[s][1]
      /\ branch'[s] \in Seq(FrameType) /\ Len(branch'[s]) = Len(branch[s]) - 1
      /\ IsSuffix(branch'[s], branch[s])
  BY <1>1, TailIsSuffix
<1>3. Taken(s, frame.num) = NoReceipt => ~Matches(s, frame.num)
  <2>1. ASSUME pending[s] # <<>> PROVE Head(pending[s]).receipt \in ReceiptType
    <3>1. Head(pending[s]) \in EntryType
      BY <1>1, <2>1, HeadTailProperties
    <3>. QED  BY <3>1 DEF EntryType
  <2>. QED  BY <2>1, ReceiptAssumption DEF Taken, Matches
<1>4. credit'[s] >= 0
  BY <1>1, <1>3 DEF Probed, CreditCovers
<1>5. ~(branch'[s] = <<>> /\ pending'[s] # <<>>)
  <2>. SUFFICES ASSUME branch'[s] = <<>>, pending'[s] # <<>> PROVE FALSE
    OBVIOUS
  <2>1. Len(branch[s]) = 1
    BY <1>2, EmptySeq
  <2>2. Matches(s, frame.num) /\ pending'[s] = Tail(pending[s])
    BY DEF Probed
  <2>3. pending[s] # <<>> /\ Head(pending[s]).num = frame.num
    BY <2>2 DEF Matches
  <2>4. /\ Len(pending[s]) \in Nat \ {0} /\ Head(pending[s]) = pending[s][1]
        /\ pending'[s] \in Seq(EntryType) /\ Len(pending'[s]) = Len(pending[s]) - 1
    BY <1>1, <2>2, <2>3, TailIsSuffix
  <2>5. Len(pending[s]) > 1
    BY <2>4, EmptySeq
  <2>6. pending[s][Len(pending[s])].num = pending[s][1].num
    BY <1>1, <1>2, <2>1, <2>3, <2>4 DEF ReceiptsInv, InStep, SameEnd
  <2>7. pending[s][1].num < pending[s][Len(pending[s])].num
    BY <2>4, <2>5 DEF ReceiptsInv, InStep, LedgerInOrder
  <2>8. pending[s][1].num \in Nat
    <3>1. pending[s] \in Seq(EntryType) /\ 1 \in 1..Len(pending[s])
      BY <1>1, <2>4
    <3>. QED  BY <3>1, NumbersTyped
  <2>. QED  BY <2>6, <2>7, <2>8
<1>6. branch'[s] # <<>> => ~Head(branch'[s]).alone
  <2>. SUFFICES ASSUME branch'[s] # <<>> PROVE ~Head(branch'[s]).alone
    OBVIOUS
  <2>1. Len(branch'[s]) \in Nat \ {0} /\ Head(branch'[s]) = branch'[s][1]
    BY <1>2, TailIsSuffix
  <2>2. branch'[s][1] = branch[s][2] /\ 2 \in 2..Len(branch[s])
    BY <1>2, <2>1 DEF IsSuffix
  <2>. QED  BY <2>1, <2>2 DEF ReceiptsInv, InStep, AloneAtHead
<1>. QED  BY <1>4, <1>5, <1>6 DEF CreditCovers

LEMMA CreditStep ==
  ASSUME TypeOK, [Next]_vars, NEW s \in Source, ReceiptsInv(s), CreditCovers(s)
  PROVE  CreditCovers(s)'
<1>1. CASE Rests(s)
  BY <1>1 DEF Rests, CreditCovers, Matches
<1>2. CASE Passes(s)
  BY <1>2, CreditRecorded DEF Passes
<1>3. CASE Probed(s)
  BY <1>3, CreditProbed
<1>4. CASE Lost(s)
  <2>1. credit'[s] >= 1
    BY <1>4 DEF Lost, CreditCovers, TypeOK
  <2>2. credit'[s] >= 0
    BY <1>4 DEF Lost, CreditCovers, TypeOK
  <2>. QED  BY <2>1, <2>2 DEF CreditCovers
<1>. QED  BY <1>1, <1>2, <1>3, <1>4, SourceStep

\* However many frames and receipts are lost, in whatever order, at most one
\* frame that found its branch drained goes without its receipt for each: the
\* ledger falls back into step by itself.
THEOREM LossesPaidOnce == Spec => []LossCostsOneDrainedFrame
<1>1. Init => \A s \in Source : CreditCovers(s)
  BY DEF Init, LedgerInit, CreditCovers
<1>2. TypeOK /\ (\A s \in Source : ReceiptsInv(s)) /\ (\A s \in Source : CreditCovers(s))
        /\ [Next]_vars => (\A s \in Source : CreditCovers(s))'
  BY CreditStep
<1>3. (\A s \in Source : CreditCovers(s)) => LossCostsOneDrainedFrame
  BY DEF CreditCovers, LossCostsOneDrainedFrame
<1>. QED  BY <1>1, <1>2, <1>3, TypeCorrect, ReceiptsInvariant, PTL DEF Spec

-----------------------------------------------------------------------------
\* Until a clock of every source was seen there is no attempt.
AttemptsNeedClocks == clock = "rtsp" /\ attempts > 0 => GateOpen

\* The gate never closes again.
LEMMA ClocksStep ==
  ASSUME TypeOK, [Next]_vars, AttemptsNeedClocks
  PROVE  AttemptsNeedClocks' /\ attempts' \in {attempts, attempts + 1}
<1>. USE DEF AttemptsNeedClocks
<1>1. CASE UNCHANGED <<clock, attempts, ready>>
  BY <1>1 DEF GateOpen
<1>2. ASSUME NEW batch \in SUBSET Source, MuxProbe(batch)
      PROVE  AttemptsNeedClocks' /\ attempts' \in {attempts, attempts + 1}
  <2>. PICK clocks \in SUBSET batch :
         \/ MuxProbeHolds(batch, clocks)
         \/ MuxProbeAges(batch, clocks)
         \/ \E bad \in SUBSET batch, near \in BOOLEAN : MuxProbeSubmits(batch, clocks, bad, near)
         \/ MuxProbeRaises(batch, clocks)
    BY <1>2 DEF MuxProbe
  <2>1. clock' = clock /\ (clock = "rtsp" => ready' = ready \cup clocks)
    BY DEF MuxProbeHolds, MuxProbeAges, MuxProbeSubmits, MuxProbeRaises, TakesBatch, Gated,
      ObserveBatch
  <2>2. clock = "rtsp" /\ GateOpen => GateOpen'
    BY <2>1 DEF GateOpen, TypeOK
  <2>3. \/ attempts' = attempts
        \/ attempts' = attempts + 1 /\ (clock = "rtsp" => GateOpen)
    BY DEF MuxProbeHolds, MuxProbeAges, MuxProbeSubmits, MuxProbeRaises, FusesBatch
  <2>. QED  BY <2>1, <2>2, <2>3
<1>3. ASSUME NEW s \in Source,
             \/ \E p \in PadName : \/ FileConnects(s, p) \/ RtspConnects(s, p)
                                   \/ OtherPad(s, p) \/ RtspPadRemoved(s, p)
             \/ Decode(s) \/ BranchLoses(s) \/ BranchProbe(s)
      PROVE  UNCHANGED <<clock, attempts, ready>>
  BY <1>3 DEF FileConnects, RtspConnects, OtherPad, RtspPadRemoved, Decode, BranchLoses,
    BranchProbe, FlowUnchanged, runtimeVars
<1>4. CASE WorkerFails \/ UNCHANGED vars
  BY <1>1, <1>4 DEF WorkerFails, vars, runtimeVars
<1>. QED  BY <1>1, <1>2, <1>3, <1>4 DEF Next

\* Along a branch attempts only grow, from the last one written to the last one
\* made; frames without one come before.
AttemptsInOrder(frames, last, made) ==
  /\ last <= made
  /\ \A j \in 1..Len(frames) :
       /\ frames[j].own.attempt <= made
       /\ last > 0 => frames[j].own.attempt > last
  /\ \A i, j \in 1..Len(frames) :
       i < j /\ frames[i].own.attempt > 0 => frames[j].own.attempt > frames[i].own.attempt

AttemptsInv(s) == AttemptsInOrder(branch[s], lastAttempt[s], attempts)

LEMMA AttemptsTyped ==
  ASSUME NEW frames \in Seq(FrameType), NEW j \in 1..Len(frames)
  PROVE  frames[j].own.attempt \in Nat
<1>1. frames[j] \in FrameType
  BY NumbersTyped
<1>. QED  BY <1>1 DEF FrameType, ReceiptType

\* Frames leave a branch.
LEMMA AttemptsSuffix ==
  ASSUME NEW frames \in Seq(FrameType), NEW last \in Nat, NEW made \in Nat,
         AttemptsInOrder(frames, last, made),
         NEW f \in Seq(FrameType), IsSuffix(f, frames)
  PROVE  AttemptsInOrder(f, last, made)
<1>1. Len(frames) \in Nat /\ Len(f) \in Nat
  BY LenProperties
<1>. DEFINE d == Len(frames) - Len(f)
<1>2. /\ d \in Nat
      /\ \A j \in 1..Len(f) : /\ j + d \in 1..Len(frames)
                              /\ f[j] = frames[j + d]
  BY <1>1 DEF IsSuffix
<1>. HIDE DEF d
<1>3. \A i, j \in 1..Len(f) : i < j => i + d < j + d
  BY <1>1, <1>2
<1>4. ASSUME NEW j \in 1..Len(f)
      PROVE  f[j].own.attempt <= made /\ (last > 0 => f[j].own.attempt > last)
  BY <1>2 DEF AttemptsInOrder
<1>5. ASSUME NEW i \in 1..Len(f), NEW j \in 1..Len(f), i < j, f[i].own.attempt > 0
      PROVE  f[j].own.attempt > f[i].own.attempt
  BY <1>2, <1>3, <1>5 DEF AttemptsInOrder
<1>. QED  BY <1>4, <1>5 DEF AttemptsInOrder

\* A frame with the newest attempt enters it, or one without before any attempt.
LEMMA AttemptsAppend ==
  ASSUME NEW frames \in Seq(FrameType), NEW last \in Nat, NEW made \in Nat,
         AttemptsInOrder(frames, last, made), NEW frame \in FrameType,
         \/ frame.own.attempt = made + 1
         \/ frame.own.attempt = 0 /\ made = 0,
         NEW now \in Nat, now = IF frame.own.attempt = 0 THEN made ELSE made + 1
  PROVE  AttemptsInOrder(Append(frames, frame), last, now)
<1>. DEFINE f == Append(frames, frame)  m == Len(frames)
<1>1. /\ m \in Nat /\ Len(f) = m + 1 /\ f[m + 1] = frame
      /\ \A j \in 1..m : f[j] = frames[j]
  BY LenProperties, AppendProperties
<1>. HIDE DEF f, m
<1>2. \A j \in 1..m : /\ f[j].own.attempt \in Nat /\ f[j].own.attempt <= made
                      /\ last > 0 => f[j].own.attempt > last
  BY <1>1, AttemptsTyped DEF AttemptsInOrder, m
<1>3. last <= made
  BY DEF AttemptsInOrder
<1>4. last <= now
  BY <1>3
<1>5. \A j \in 1..m + 1 : /\ f[j].own.attempt <= now
                          /\ last > 0 => f[j].own.attempt > last
  <2>. SUFFICES ASSUME NEW j \in 1..m + 1
                PROVE  f[j].own.attempt <= now /\ (last > 0 => f[j].own.attempt > last)
    OBVIOUS
  <2>1. CASE j \in 1..m
    BY <1>2, <2>1
  <2>2. CASE j = m + 1
    BY <1>1, <1>3, <2>2
  <2>. QED  BY <1>1, <2>1, <2>2
<1>6. \A i, j \in 1..m + 1 :
        i < j /\ f[i].own.attempt > 0 => f[j].own.attempt > f[i].own.attempt
  <2>. SUFFICES ASSUME NEW i \in 1..m + 1, NEW j \in 1..m + 1, i < j, f[i].own.attempt > 0
                PROVE  f[j].own.attempt > f[i].own.attempt
    OBVIOUS
  <2>1. i \in 1..m
    BY <1>1
  <2>2. CASE j \in 1..m
    BY <1>1, <2>1, <2>2 DEF AttemptsInOrder, m
  <2>3. CASE j = m + 1
    BY <1>1, <1>2, <2>1, <2>3
  <2>. QED  BY <1>1, <2>2, <2>3
<1>. QED  BY <1>1, <1>4, <1>5, <1>6 DEF AttemptsInOrder, f

\* The frame at the head of a branch is written, and its attempt is the last.
LEMMA AttemptsWritten ==
  ASSUME NEW frames \in Seq(FrameType), frames # <<>>, NEW last \in Nat, NEW made \in Nat,
         AttemptsInOrder(frames, last, made)
  PROVE  AttemptsInOrder(Tail(frames), frames[1].own.attempt, made)
<1>1. /\ Len(frames) \in Nat \ {0} /\ Len(Tail(frames)) = Len(frames) - 1
      /\ \A j \in 1..Len(Tail(frames)) : Tail(frames)[j] = frames[j + 1]
  BY HeadTailProperties, EmptySeq
<1>2. \A j \in 1..Len(Tail(frames)) : j + 1 \in 1..Len(frames) /\ 1 < j + 1 /\ 1 \in 1..Len(frames)
  BY <1>1
<1>3. frames[1].own.attempt <= made
  BY <1>1 DEF AttemptsInOrder
<1>4. \A j \in 1..Len(Tail(frames)) :
        /\ Tail(frames)[j].own.attempt <= made
        /\ frames[1].own.attempt > 0 => Tail(frames)[j].own.attempt > frames[1].own.attempt
  BY <1>1, <1>2 DEF AttemptsInOrder
<1>5. \A i, j \in 1..Len(Tail(frames)) :
        i < j /\ Tail(frames)[i].own.attempt > 0
          => Tail(frames)[j].own.attempt > Tail(frames)[i].own.attempt
  <2>1. \A i, j \in 1..Len(Tail(frames)) : i < j => i + 1 < j + 1
    BY <1>1
  <2>. QED  BY <1>1, <1>2, <2>1 DEF AttemptsInOrder
<1>. QED  BY <1>3, <1>4, <1>5 DEF AttemptsInOrder

LEMMA AttemptsStep ==
  ASSUME TypeOK, [Next]_vars, AttemptsNeedClocks, NEW s \in Source, ReceiptsInv(s),
         AttemptsInv(s)
  PROVE  AttemptsInv(s)'
<1>. USE DEF AttemptsInv
<1>1. /\ branch[s] \in Seq(FrameType) /\ lastAttempt[s] \in Nat /\ attempts \in Nat
      /\ \A j \in 1..Len(branch[s]) : branch[s][j].own.attempt \in Nat
  BY AttemptsTyped DEF TypeOK
<1>2. attempts' \in Nat /\ attempts' >= attempts
  BY <1>1, ClocksStep
<1>3. AttemptsInOrder(branch[s], lastAttempt[s], attempts')
  BY <1>1, <1>2 DEF AttemptsInOrder
<1>4. CASE Rests(s)
  BY <1>3, <1>4 DEF Rests
<1>5. CASE Passes(s)
  <2>. PICK receipt \in ReceiptType, frames \in SUBSET Source :
         Issues(receipt, frames) /\ Recorded(s, receipt, s \in frames)
    BY <1>5 DEF Passes
  <2>. PICK frame \in FrameType :
         frame.own = receipt /\ branch'[s] = Append(branch[s], frame)
    BY RecordedLists
  <2>1. /\ receipt.attempt \in {0, attempts + 1}
        /\ receipt.attempt = 0 => attempts = 0
        /\ attempts' = IF receipt.attempt = 0 THEN attempts ELSE attempts + 1
    BY <1>1 DEF Issues, Receipt, AttemptsNeedClocks
  <2>2. lastAttempt'[s] = lastAttempt[s]
    BY DEF Recorded
  <2>. QED  BY <1>1, <1>2, <2>1, <2>2, AttemptsAppend
<1>6. CASE Lost(s)
  <2>1. lastAttempt'[s] = lastAttempt[s]
    BY <1>6 DEF Lost
  <2>. QED  BY <1>1, <1>2, <1>3, <1>6, <2>1, ShortenedLists, AttemptsSuffix
<1>7. CASE Probed(s)
  <2>1. CASE Taken(s, Head(branch[s]).num) = NoReceipt
    <3>1. lastAttempt'[s] = lastAttempt[s]
      BY <1>7, <2>1 DEF Probed
    <3>. QED  BY <1>1, <1>2, <1>3, <1>7, <3>1, ShortenedLists, AttemptsSuffix
  <2>2. CASE Taken(s, Head(branch[s]).num) # NoReceipt
    <3>1. branch[s] # <<>> /\ branch'[s] = Tail(branch[s])
      BY <1>7 DEF Probed
    <3>2. GetsReceipt(s)
      BY <2>2, <3>1 DEF GetsReceipt, NextReceipt, NextFrame
    <3>3. NextReceipt(s) = Head(branch[s]).own
      BY <3>2, HeadsAgree DEF NextFrame
    <3>4. Head(branch[s]) = branch[s][1]
      BY <1>1, <3>1, TailIsSuffix
    <3>5. lastAttempt'[s] = branch[s][1].own.attempt
      BY <1>7, <2>2, <3>3, <3>4 DEF Probed, NextReceipt, NextFrame
    <3>. QED  BY <1>1, <1>2, <1>3, <3>1, <3>5, AttemptsWritten
  <2>. QED  BY <2>1, <2>2
<1>. QED  BY <1>4, <1>5, <1>6, <1>7, SourceStep

\* Once every source had a clock, the attempt epochs in the rows of a source
\* only grow, and none of its rows falls back to "no attempt".
THEOREM AttemptsGrow == Spec => []AttemptsOnlyGrow
<1>1. Init => AttemptsNeedClocks /\ \A s \in Source : AttemptsInv(s)
  <2>1. Len(<<>>) = 0
    BY EmptySeq
  <2>. QED  BY <2>1 DEF Init, AttemptsNeedClocks, AttemptsInv, AttemptsInOrder
<1>2. TypeOK /\ (\A s \in Source : ReceiptsInv(s))
        /\ AttemptsNeedClocks /\ (\A s \in Source : AttemptsInv(s)) /\ [Next]_vars
        => (AttemptsNeedClocks /\ \A s \in Source : AttemptsInv(s))'
  BY ClocksStep, AttemptsStep
<1>3. ASSUME TypeOK, \A s \in Source : ReceiptsInv(s), \A s \in Source : AttemptsInv(s),
             NEW s \in Source, GetsReceipt(s), lastAttempt[s] > 0
      PROVE  NextReceipt(s).attempt > lastAttempt[s]
  <2>1. NextFrame(s) = branch[s][1] /\ 1 \in 1..Len(branch[s])
    BY <1>3, TailIsSuffix DEF GetsReceipt, NextFrame, TypeOK
  <2>. QED  BY <1>3, <2>1, HeadsAgree DEF AttemptsInv, AttemptsInOrder
<1>4. TypeOK /\ (\A s \in Source : ReceiptsInv(s)) /\ (\A s \in Source : AttemptsInv(s))
        => AttemptsOnlyGrow
  BY <1>3 DEF AttemptsOnlyGrow
<1>. QED  BY <1>1, <1>2, <1>4, TypeCorrect, ReceiptsInvariant, PTL DEF Spec

-----------------------------------------------------------------------------
(* Generations.  The runtime counts a reconnect exactly when a pad is linked *)
(* that is not the source's first, so the generations of a receipt are at    *)
(* most one behind the connections made before it.                           *)

\* What the pad callbacks remember of the links of a source.
ConnectionsSeen(s) ==
  IF clock = "rtsp"
    THEN /\ activePad[s] = linked[s]
         /\ connection[s] > 0 <=> s \in hasConnected
         /\ linked[s] # NoPad => s \in hasConnected
         /\ s \in hasConnected /\ linked[s] = NoPad => s \in disconnected
    ELSE /\ linked[s] = NoPad => connection[s] = 0
         /\ connection[s] <= 1

\* A source connects at most once a step, and only a first connection or one
\* that the failed runtime no longer hears of leaves its generation alone.
Follows(s) ==
  /\ connection'[s] \in {connection[s], connection[s] + 1}
  /\ gens'[s] \in {gens[s], gens[s] + 1}
  /\ failed => failed'
  /\ connection'[s] = connection[s] + 1
       => connection[s] = 0 \/ failed \/ gens'[s] = gens[s] + 1

LEMMA LinksStep ==
  ASSUME TypeOK, [Next]_vars, NEW s \in Source, ConnectionsSeen(s)
  PROVE  ConnectionsSeen(s)' /\ Follows(s)
<1>. USE DEF TypeOK
<1>. DEFINE Same == /\ clock' = clock /\ linked'[s] = linked[s] /\ activePad'[s] = activePad[s]
                    /\ s \in hasConnected' <=> s \in hasConnected
                    /\ s \in disconnected' <=> s \in disconnected
                    /\ connection'[s] = connection[s] /\ gens'[s] = gens[s]
                    /\ failed => failed'
            Goal == ConnectionsSeen(s)' /\ Follows(s)
<1>0. Same => Goal
  BY DEF ConnectionsSeen, Follows
<1>1. UNCHANGED <<binVars, clock, connection, gens>> /\ (failed => failed') => Same
  BY DEF binVars
<1>2. ASSUME NEW t \in Source, NEW p \in PadName, FileConnects(t, p) PROVE Goal
  <2>1. CASE s = t
    BY <1>2, <2>1, PadAssumption DEF FileConnects, Connects, FilePadLinked, PadAppears,
      FlowUnchanged, ConnectionsSeen, Follows
  <2>2. CASE s # t
    <3>1. Same
      BY <1>2, <2>2 DEF FileConnects, Connects, FilePadLinked, FlowUnchanged
    <3>. QED  BY <1>0, <3>1
  <2>. QED  BY <2>1, <2>2
<1>3. ASSUME NEW t \in Source, NEW p \in PadName, RtspConnects(t, p) PROVE Goal
  <2>1. CASE s = t
    BY <1>3, <2>1, PadAssumption DEF RtspConnects, Connects, PadLinked, IsReconnect,
      FlowUnchanged, ConnectionsSeen, Follows
  <2>2. CASE s # t
    <3>1. Same
      BY <1>3, <2>2 DEF RtspConnects, Connects, PadLinked, FlowUnchanged
    <3>. QED  BY <1>0, <3>1
  <2>. QED  BY <2>1, <2>2
<1>4. ASSUME NEW t \in Source, NEW p \in PadName, RtspPadRemoved(t, p) PROVE Goal
  <2>1. CASE s = t
    BY <1>4, <2>1, PadAssumption DEF RtspPadRemoved, PadRemoved, FlowUnchanged,
      ConnectionsSeen, Follows
  <2>2. CASE s # t
    <3>1. Same
      BY <1>4, <2>2 DEF RtspPadRemoved, PadRemoved, FlowUnchanged
    <3>. QED  BY <1>0, <3>1
  <2>. QED  BY <2>1, <2>2
<1>5. ASSUME NEW t \in Source, NEW p \in PadName, OtherPad(t, p) PROVE Same
  BY <1>5 DEF OtherPad, PadIgnored, FlowUnchanged
<1>6. ASSUME NEW t \in Source, Decode(t) \/ BranchLoses(t) \/ BranchProbe(t) PROVE Same
  BY <1>1, <1>6 DEF Decode, BranchLoses, BranchProbe, runtimeVars
<1>7. ASSUME NEW batch \in SUBSET Source, MuxProbe(batch) PROVE Same
  <2>1. TakesBatch(batch)
    BY <1>7 DEF MuxProbe, MuxProbeHolds, MuxProbeAges, MuxProbeSubmits, MuxProbeRaises
  <2>. QED  BY <1>1, <2>1 DEF TakesBatch
<1>8. CASE WorkerFails \/ UNCHANGED vars
  BY <1>0, <1>1, <1>8 DEF WorkerFails, vars, runtimeVars
<1>. QED  BY <1>0, <1>2, <1>3, <1>4, <1>5, <1>6, <1>7, <1>8 DEF Next

\* Frames before the mux probe come over connections that were made.
ConnectionsMade(frames, made) == \A i \in 1..Len(frames) : frames[i] <= made

LEMMA UpstreamStep ==
  ASSUME TypeOK, [Next]_vars, NEW s \in Source
  PROVE  \/ upstream'[s] = upstream[s]
         \/ upstream'[s] = Append(upstream[s], connection[s])
         \/ upstream[s] # <<>> /\ upstream'[s] = Tail(upstream[s])
<1>. USE DEF TypeOK
<1>1. CASE upstream' = upstream
  BY <1>1
<1>2. ASSUME NEW t \in Source, Decode(t)
      PROVE  upstream'[s] = upstream[s] \/ upstream'[s] = Append(upstream[s], connection[s])
  BY <1>2 DEF Decode
<1>3. ASSUME NEW batch \in SUBSET Source, MuxProbe(batch)
      PROVE  \/ upstream'[s] = upstream[s]
             \/ upstream[s] # <<>> /\ upstream'[s] = Tail(upstream[s])
  <2>1. TakesBatch(batch)
    BY <1>3 DEF MuxProbe, MuxProbeHolds, MuxProbeAges, MuxProbeSubmits, MuxProbeRaises
  <2>. QED  BY <2>1 DEF TakesBatch
<1>4. ASSUME NEW t \in Source,
             \/ \E p \in PadName : \/ FileConnects(t, p) \/ RtspConnects(t, p)
                                   \/ OtherPad(t, p) \/ RtspPadRemoved(t, p)
             \/ BranchLoses(t) \/ BranchProbe(t)
      PROVE  upstream' = upstream
  BY <1>4 DEF FileConnects, RtspConnects, OtherPad, RtspPadRemoved, BranchLoses, BranchProbe,
    FlowUnchanged
<1>5. CASE WorkerFails \/ UNCHANGED vars
  BY <1>5 DEF WorkerFails, vars
<1>. QED  BY <1>1, <1>2, <1>3, <1>4, <1>5 DEF Next

LEMMA ConnectionsMadeStep ==
  ASSUME TypeOK, [Next]_vars, NEW s \in Source, ConnectionsSeen(s),
         ConnectionsMade(upstream[s], connection[s])
  PROVE  ConnectionsMade(upstream'[s], connection'[s])
<1>. USE DEF ConnectionsMade
<1>. DEFINE q == upstream[s]
<1>1. q \in Seq(Nat) /\ Len(q) \in Nat /\ connection[s] \in Nat
  BY LenProperties DEF TypeOK
<1>2. connection'[s] \in Nat /\ connection'[s] >= connection[s]
  BY <1>1, LinksStep DEF Follows
<1>3. \A i \in 1..Len(q) : q[i] \in Nat /\ q[i] <= connection'[s]
  <2>1. \A i \in 1..Len(q) : q[i] \in Nat
    BY <1>1, ElementOfSeq
  <2>. QED  BY <1>1, <1>2, <2>1
<1>. HIDE DEF q
<1>4. CASE upstream'[s] = q
  BY <1>3, <1>4
<1>5. CASE upstream'[s] = Append(q, connection[s])
  <2>1. /\ Len(upstream'[s]) = Len(q) + 1
        /\ \A i \in 1..Len(q) : upstream'[s][i] = q[i]
        /\ upstream'[s][Len(q) + 1] = connection[s]
    BY <1>1, <1>5, AppendProperties
  <2>2. \A i \in 1..Len(q) + 1 : i \in 1..Len(q) \/ i = Len(q) + 1
    BY <1>1
  <2>. QED  BY <1>2, <1>3, <2>1, <2>2
<1>6. CASE q # <<>> /\ upstream'[s] = Tail(q)
  <2>1. /\ Len(upstream'[s]) = Len(q) - 1
        /\ \A i \in 1..Len(upstream'[s]) : upstream'[s][i] = q[i + 1]
    BY <1>1, <1>6, HeadTailProperties
  <2>2. \A i \in 1..Len(q) - 1 : i + 1 \in 1..Len(q)
    BY <1>1
  <2>. QED  BY <1>3, <2>1, <2>2
<1>. QED  BY <1>4, <1>5, <1>6, UpstreamStep DEF q

\* Frames on a branch were recorded with a generation that their connection had.
NotOlder(frames, s) ==
  \A j \in 1..Len(frames) : frames[j].own.gens[s] + 1 >= frames[j].connection

GenerationsInv(s) ==
  /\ ConnectionsSeen(s)
  /\ ~failed => gens[s] + 1 >= connection[s]
  /\ ConnectionsMade(upstream[s], connection[s])
  /\ NotOlder(branch[s], s)

LEMMA NotOlderStep ==
  ASSUME TypeOK, [Next]_vars, NEW s \in Source, GenerationsInv(s)
  PROVE  NotOlder(branch'[s], s)
<1>. USE DEF NotOlder
<1>1. branch[s] \in Seq(FrameType) /\ Len(branch[s]) \in Nat /\ NotOlder(branch[s], s)
  BY LenProperties DEF TypeOK, GenerationsInv
<1>2. CASE Rests(s)
  BY <1>1, <1>2 DEF Rests
<1>3. CASE Passes(s)
  <2>. PICK receipt \in ReceiptType, frames \in SUBSET Source :
         Issues(receipt, frames) /\ Recorded(s, receipt, s \in frames)
    BY <1>3 DEF Passes
  <2>. PICK frame \in FrameType :
         /\ frame.own = receipt /\ frame.connection = Head(upstream[s])
         /\ branch'[s] = Append(branch[s], frame)
    BY RecordedLists
  <2>1. Head(upstream[s]) = upstream[s][1] /\ 1 \in 1..Len(upstream[s])
    <3>1. upstream[s] \in Seq(Nat) /\ upstream[s] # <<>>
      BY DEF TypeOK, Recorded
    <3>. QED  BY <3>1, HeadTailProperties, LenProperties, EmptySeq
  <2>2. frame.connection <= connection[s]
    BY <2>1 DEF GenerationsInv, ConnectionsMade
  <2>3. ~failed /\ receipt.gens = gens
    BY DEF Issues, Receipt
  <2>4. frame.own.gens[s] = gens[s] /\ frame.connection \in Nat
    BY <2>3 DEF FrameType
  <2>5. frame.own.gens[s] + 1 >= frame.connection
    BY <2>2, <2>3, <2>4 DEF GenerationsInv, TypeOK
  <2>6. /\ Len(branch'[s]) = Len(branch[s]) + 1
        /\ \A j \in 1..Len(branch[s]) : branch'[s][j] = branch[s][j]
        /\ branch'[s][Len(branch[s]) + 1] = frame
    BY <1>1, AppendProperties
  <2>7. \A j \in 1..Len(branch[s]) + 1 : j \in 1..Len(branch[s]) \/ j = Len(branch[s]) + 1
    BY <1>1
  <2>. QED  BY <1>1, <2>5, <2>6, <2>7
<1>4. CASE Probed(s) \/ Lost(s)
  <2>1. IsSuffix(branch'[s], branch[s]) /\ branch'[s] \in Seq(FrameType)
    BY <1>4, ShortenedLists
  <2>2. PICK d \in Nat :
          /\ Len(branch[s]) = Len(branch'[s]) + d
          /\ \A j \in 1..Len(branch'[s]) : /\ j + d \in 1..Len(branch[s])
                                           /\ branch'[s][j] = branch[s][j + d]
    <3>1. Len(branch'[s]) \in Nat
      BY <2>1, LenProperties
    <3>. QED  BY <1>1, <2>1, <3>1, SuffixEntries
  <2>. QED  BY <1>1, <2>2
<1>. QED  BY <1>2, <1>3, <1>4, SourceStep

LEMMA GenerationsStep ==
  ASSUME TypeOK, [Next]_vars, NEW s \in Source, GenerationsInv(s)
  PROVE  GenerationsInv(s)'
<1>1. ConnectionsSeen(s)' /\ Follows(s)
  BY LinksStep DEF GenerationsInv
<1>2. (~failed => gens[s] + 1 >= connection[s])'
  BY <1>1 DEF GenerationsInv, Follows, TypeOK
<1>3. ConnectionsMade(upstream'[s], connection'[s])
  BY ConnectionsMadeStep DEF GenerationsInv
<1>4. NotOlder(branch'[s], s)
  BY NotOlderStep
<1>. QED  BY <1>1, <1>2, <1>3, <1>4 DEF GenerationsInv, ConnectionsMade, NotOlder

\* Rows are never labelled with a generation of a source older than the
\* connection their frame came over, however reconnects, pad removals and the
\* failure of the runtime interleave with the frames in flight.
THEOREM GenerationsNotOlder == Spec => []RowGenerationNotOlder
<1>1. Init => \A s \in Source : GenerationsInv(s)
  <2>1. Len(<<>>) = 0
    BY EmptySeq
  <2>. QED  BY <2>1 DEF Init, BinInit, GenerationsInv, ConnectionsSeen, ConnectionsMade,
              NotOlder
<1>2. TypeOK /\ (\A s \in Source : GenerationsInv(s)) /\ [Next]_vars
        => (\A s \in Source : GenerationsInv(s))'
  BY GenerationsStep
<1>3. ASSUME TypeOK, \A s \in Source : ReceiptsInv(s), \A s \in Source : GenerationsInv(s),
             NEW s \in Source, GetsReceipt(s)
      PROVE  NextReceipt(s).gens[s] + 1 >= NextFrame(s).connection
  <2>1. NextFrame(s) = branch[s][1] /\ 1 \in 1..Len(branch[s])
    BY <1>3, TailIsSuffix DEF GetsReceipt, NextFrame, TypeOK
  <2>. QED  BY <1>3, <2>1, HeadsAgree DEF GenerationsInv, NotOlder
<1>4. TypeOK /\ (\A s \in Source : ReceiptsInv(s)) /\ (\A s \in Source : GenerationsInv(s))
        => RowGenerationNotOlder
  BY <1>3 DEF RowGenerationNotOlder
<1>. QED  BY <1>1, <1>2, <1>4, TypeCorrect, ReceiptsInvariant, PTL DEF Spec

=============================================================================

------------------------- MODULE MtmcRuntimeProofs -------------------------
(***************************************************************************)
(* Proofs about MtmcRuntime, for every set of sources and objects, every   *)
(* reassignment interval and every bound: its types and accounting, the    *)
(* line of its counters, its shutdown, the identities it publishes around  *)
(* a reconnect, and that it implements MtmcService.                        *)
(***************************************************************************)
EXTENDS MtmcRuntimeProps, SequenceTheorems, TLAPS

-----------------------------------------------------------------------------
(* Types.  unfinished \in Nat needs the accounting of UnfinishedMatchesWork, *)
(* so the two are proved together.                                           *)

LEMMA AnySourceType == AnySource \in Source
BY SourceAssumption DEF AnySource

\* A work item built from typed parts is typed.
LEMMA NewWorkType ==
  ASSUME NEW kind \in {"observations", "batch", "liveness", "bump", "stop"},
         NEW source \in Source, NEW frames \in Frames, NEW accepted \in BOOLEAN,
         NEW attempt \in Nat, NEW bucket \in Nat, NEW g \in [Source -> Nat]
  PROVE  NewWork(kind, source, frames, accepted, attempt, bucket, g) \in Work
BY DEF NewWork, Work

LEMMA StopWorkType == ASSUME CallerTypes PROVE StopWork \in Work
BY NewWorkType, AnySourceType DEF CallerTypes, StopWork, Frames

LEMMA NoWorkType == NoWork \in Work
BY NewWorkType, AnySourceType DEF NoWork, Frames

\* What each call puts on the queue is typed, and never the stop marker.
LEMMA PutType ==
  ASSUME TypeOK, FinishCall
  PROVE  \/ UNCHANGED <<queue, unfinished>>
         \/ \E w \in Work : Put(w) /\ w.kind # "stop"
<1>. USE DEF TypeOK, CallerTypes
<1>0. "complete" \in Frames
  BY DEF Frames
<1>1. CASE MixedMode
  BY <1>1 DEF MixedMode
<1>2. CASE Submit
  <2>. PICK s \in Source :
         Put(NewWork("observations", s, "complete", FALSE, attempts, buckets, gens))
    BY <1>2 DEF Submit
  <2>. DEFINE w == NewWork("observations", s, "complete", FALSE, attempts, buckets, gens)
  <2>1. w \in Work
    BY <1>0, NewWorkType
  <2>2. w.kind # "stop"
    BY DEF NewWork
  <2>. QED  BY <2>1, <2>2
<1>3. ASSUME NEW frames \in Frames, SubmitBatch(frames)
      PROVE  \E w \in Work : Put(w) /\ w.kind # "stop"
  <2>. DEFINE w == NewWork("batch", AnySource, frames, Accepts(frames), attempts',
                           buckets', snapshot.gens)
  <2>1. attempts' \in Nat /\ buckets' \in Nat /\ Accepts(frames) \in BOOLEAN
    BY <1>3 DEF SubmitBatch, Accepts
  <2>2. w \in Work
    BY <2>1, NewWorkType, AnySourceType
  <2>3. Put(w) /\ w.kind # "stop"
    BY <1>3 DEF SubmitBatch, NewWork
  <2>. QED  BY <2>2, <2>3
<1>4. CASE AdvanceLiveness
  <2>. DEFINE w == NewWork("liveness", AnySource, "complete", FALSE, attempts', buckets,
                           snapshot.gens)
  <2>1. attempts' \in Nat
    BY <1>4 DEF AdvanceLiveness
  <2>2. w \in Work
    BY <1>0, <2>1, NewWorkType, AnySourceType
  <2>3. Put(w) /\ w.kind # "stop"
    BY <1>4 DEF AdvanceLiveness, NewWork
  <2>. QED  BY <2>2, <2>3
<1>5. CASE RejectedReceipt
  BY <1>5 DEF RejectedReceipt
<1>6. ASSUME NEW s \in Source, BumpGeneration(s)
      PROVE  \E w \in Work : Put(w) /\ w.kind # "stop"
  <2>. DEFINE w == NewWork("bump", s, "complete", FALSE, attempts, buckets, gens')
  <2>1. gens' \in [Source -> Nat]
    BY <1>6 DEF BumpGeneration
  <2>2. w \in Work
    BY <1>0, <2>1, NewWorkType
  <2>3. Put(w) /\ w.kind # "stop"
    BY <1>6 DEF BumpGeneration, NewWork
  <2>. QED  BY <2>2, <2>3
<1>. QED  BY <1>1, <1>2, <1>3, <1>4, <1>5, <1>6 DEF FinishCall

\* The submission side keeps its types.
LEMMA CallerTypesStep == ASSUME TypeOK, [Next]_vars PROVE CallerTypes'
<1>. USE DEF CallerTypes
<1>1. CASE Call
  BY <1>1 DEF Call, TypeOK, submitVars
<1>2. CASE CallRaises
  BY <1>2 DEF CallRaises, TypeOK, submitVars
<1>3. CASE FinishCall
  <2>. USE <1>3 DEF TypeOK, EndCall, SelectMode
  <2>1. CASE MixedMode
    BY <2>1 DEF MixedMode, submitVars
  <2>2. CASE Submit
    BY <2>2 DEF Submit
  <2>3. ASSUME NEW frames \in Frames, SubmitBatch(frames) PROVE CallerTypes'
    <3>1. inCall' = FALSE /\ mode' = "atomic" /\ UNCHANGED <<gens, snapshot>>
      BY <2>3 DEF SubmitBatch
    <3>2. attempts' \in Nat /\ buckets' \in Nat
      BY <2>3 DEF SubmitBatch
    <3>. QED  BY <3>1, <3>2
  <2>4. CASE AdvanceLiveness
    <3>1. inCall' = FALSE /\ mode' = "atomic" /\ UNCHANGED <<buckets, gens, snapshot>>
      BY <2>4 DEF AdvanceLiveness
    <3>2. attempts' \in Nat
      BY <2>4 DEF AdvanceLiveness
    <3>. QED  BY <3>1, <3>2
  <2>5. CASE RejectedReceipt
    BY <2>5 DEF RejectedReceipt
  <2>6. ASSUME NEW s \in Source, BumpGeneration(s) PROVE CallerTypes'
    <3>1. inCall' = FALSE /\ UNCHANGED <<mode, attempts, buckets>>
      BY <2>6 DEF BumpGeneration
    <3>2. gens' \in [Source -> Nat]
      BY <2>6 DEF BumpGeneration
    <3>3. {t \in snapshot.ids : t[1] # s} \in SUBSET Tracklet
      OBVIOUS
    <3>4. snapshot' \in [ids : SUBSET Tracklet, gens : [Source -> Nat]]
      BY <2>6, <3>2, <3>3 DEF BumpGeneration
    <3>. QED  BY <3>1, <3>2, <3>4
  <2>. QED  BY <2>1, <2>2, <2>3, <2>4, <2>5, <2>6 DEF FinishCall
<1>4. CASE Publish
  <2>1. CurrentOnly(assigned, gens) \in SUBSET Tracklet
    BY DEF TypeOK, FuserTypes, CurrentOnly
  <2>. QED  BY <1>4, <2>1 DEF Publish, WorkerUnchanged, TypeOK, submitVars
<1>5. CASE Worker /\ ~Publish
  <2>1. UNCHANGED <<inCall, submitVars, snapshot>>
    BY <1>5 DEF Worker, WorkerUnchanged, Get, FuseWork, Fuse, FuseBump, FuseLiveness,
      FuseRejectedBatch, FuseAcceptedBatch, FuseObservations, FuseStop, TaskDone,
      Raise, RaiseTaskDone, RecordFailure, Discard, DiscardEmpty
  <2>. QED  BY <2>1 DEF TypeOK, submitVars
<1>6. CASE Main
  <2>1. UNCHANGED <<inCall, submitVars, snapshot>>
    BY <1>6 DEF Main, MainProceeds, MainUnchanged, Start, Quiesce, IdleJoin, IdleJoined,
      IdleRaises, IdleReturns, ShutdownUnstarted, ShutdownCheck, ShutdownPut,
      ShutdownJoined, ShutdownClose
  <2>. QED  BY <2>1 DEF TypeOK, submitVars
<1>7. CASE UNCHANGED vars
  BY <1>7 DEF vars, TypeOK, submitVars
<1>. QED  BY <1>1, <1>2, <1>3, <1>4, <1>5, <1>6, <1>7 DEF Next

\* The fuser keeps its types.
LEMMA FuserTypesStep == ASSUME TypeOK, [Next]_vars PROVE FuserTypes'
<1>. USE DEF FuserTypes
<1>1. CASE FuseBump
  <2>1. work.source \in Source
    BY DEF TypeOK, WorkerTypes, Work
  <2>. QED  BY <1>1, <2>1 DEF FuseBump, TypeOK
<1>2. CASE FuseLiveness
  BY <1>2 DEF FuseLiveness, Retain, TypeOK
<1>3. CASE FuseRejectedBatch
  BY <1>3 DEF FuseRejectedBatch, Retain, TypeOK
<1>4. CASE FuseAcceptedBatch
  <2>1. TrackletsNow(Source) \in SUBSET Tracklet
    BY DEF TypeOK, TrackletsNow, Tracklet
  <2>. QED  BY <1>4, <2>1 DEF FuseAcceptedBatch, Retain, TypeOK
<1>5. CASE FuseObservations
  <2>1. TrackletsNow({work.source}) \in SUBSET Tracklet
    BY DEF TypeOK, WorkerTypes, Work, TrackletsNow, Tracklet
  <2>. QED  BY <1>5, <2>1 DEF FuseObservations, Retain, TypeOK
<1>6. CASE FuseStop
  BY <1>6 DEF FuseStop, Retain, TypeOK
<1>7. CASE ~FuseWork
  <2>1. UNCHANGED fuserVars
    BY <1>7 DEF Next, vars, Call, CallRaises, FinishCall, MixedMode, Submit, SubmitBatch,
      AdvanceLiveness, RejectedReceipt, BumpGeneration, EndCall, Worker, Get, Publish,
      TaskDone, Raise, RaiseTaskDone, RecordFailure, Discard, DiscardEmpty, Main,
      MainProceeds, MainUnchanged, Start, Quiesce, IdleJoin, IdleJoined, IdleRaises,
      IdleReturns, ShutdownUnstarted, ShutdownCheck, ShutdownPut, ShutdownJoined,
      ShutdownClose
  <2>. QED  BY <2>1 DEF TypeOK, fuserVars
<1>. QED  BY <1>1, <1>2, <1>3, <1>4, <1>5, <1>6, <1>7 DEF FuseWork

\* The main thread keeps its types.
LEMMA MainTypesStep == ASSUME TypeOK, [Next]_vars PROVE MainTypes'
<1>. USE DEF MainTypes
<1>1. CASE Main
  <2>1. processed \in Nat
    BY DEF TypeOK, FuserTypes
  <2>. QED
    BY <1>1, <2>1 DEF TypeOK, Main, MainProceeds, Start, Quiesce, IdleJoin, IdleJoined,
      IdleRaises, IdleReturns, ShutdownUnstarted, ShutdownCheck, ShutdownPut,
      ShutdownJoined, ShutdownClose
<1>2. CASE CallRaises
  BY <1>2 DEF CallRaises, TypeOK, mainVars
<1>3. CASE ~Main /\ ~CallRaises
  <2>1. UNCHANGED <<mainVars, surfaced>>
    BY <1>3 DEF Next, vars, Call, FinishCall, MixedMode, Submit, SubmitBatch,
      AdvanceLiveness, RejectedReceipt, BumpGeneration, EndCall, Worker, WorkerUnchanged,
      Get, FuseWork, Fuse, FuseBump, FuseLiveness, FuseRejectedBatch, FuseAcceptedBatch,
      FuseObservations, FuseStop, Publish, TaskDone, Raise, RaiseTaskDone, RecordFailure,
      Discard, DiscardEmpty
  <2>. QED  BY <2>1 DEF TypeOK, mainVars
<1>. QED  BY <1>1, <1>2, <1>3

\* There is no worker thread before start().
NotStarted == mpc = "new" => wpc = "absent"

\* The queue and the worker keep their types; the join accounting shows that
\* task_done never takes the unfinished count below zero.
LEMMA WorkerTypesStep ==
  ASSUME TypeOK, UnfinishedMatchesWork, NotStarted, [Next]_vars
  PROVE  WorkerTypes' /\ UnfinishedMatchesWork'
<1>. USE DEF WorkerTypes, UnfinishedMatchesWork
<1>1. CASE Call
  BY <1>1 DEF Call, TypeOK
<1>2. CASE CallRaises
  BY <1>2 DEF CallRaises, TypeOK
<1>3. CASE FinishCall
  <2>1. UNCHANGED <<failure, wpc, work>>
    BY <1>3 DEF FinishCall, MixedMode, Submit, SubmitBatch, AdvanceLiveness,
      RejectedReceipt, BumpGeneration, EndCall
  <2>2. CASE UNCHANGED <<queue, unfinished>>
    BY <2>1, <2>2 DEF TypeOK
  <2>3. ASSUME NEW w \in Work, Put(w) PROVE WorkerTypes' /\ UnfinishedMatchesWork'
    <3>1. queue' \in Seq(Work) /\ Len(queue') = Len(queue) + 1
      BY <2>3, AppendProperties DEF Put, TypeOK
    <3>. QED  BY <2>1, <2>3, <3>1 DEF Put, TypeOK
  <2>. QED  BY <1>3, <2>2, <2>3, PutType
<1>4. CASE Get
  <2>1. /\ Head(queue) \in Work
        /\ Tail(queue) \in Seq(Work)
        /\ Len(Tail(queue)) = Len(queue) - 1
    BY <1>4, HeadTailProperties DEF Get, TypeOK
  <2>. QED  BY <1>4, <2>1 DEF Get, WorkerUnchanged, TypeOK
<1>5. CASE FuseWork
  <2>1. UNCHANGED <<queue, unfinished, failure, work>> /\ wpc = "work" /\ wpc' = "publish"
    BY <1>5 DEF FuseWork, Fuse, FuseBump, FuseLiveness, FuseRejectedBatch,
      FuseAcceptedBatch, FuseObservations, FuseStop, WorkerUnchanged
  <2>. QED  BY <2>1 DEF TypeOK
<1>6. CASE Publish
  BY <1>6 DEF Publish, WorkerUnchanged, TypeOK
<1>7. CASE TaskDone
  BY <1>7, NoWorkType DEF TaskDone, WorkerUnchanged, TypeOK
<1>8. CASE Raise
  BY <1>8 DEF Raise, WorkerUnchanged, TypeOK
<1>9. CASE RaiseTaskDone
  BY <1>9, NoWorkType DEF RaiseTaskDone, WorkerUnchanged, TypeOK
<1>10. CASE RecordFailure
  BY <1>10 DEF RecordFailure, TypeOK
<1>11. CASE Discard
  <2>1. Tail(queue) \in Seq(Work) /\ Len(Tail(queue)) = Len(queue) - 1 /\ Len(queue) > 0
    BY <1>11, HeadTailProperties, EmptySeq DEF Discard, TypeOK
  <2>. QED  BY <1>11, <2>1 DEF Discard, WorkerUnchanged, TypeOK
<1>12. CASE DiscardEmpty
  BY <1>12 DEF DiscardEmpty, WorkerUnchanged, TypeOK
<1>13. CASE ShutdownPut
  <2>1. StopWork \in Work
    BY StopWorkType DEF TypeOK
  <2>2. queue' \in Seq(Work) /\ Len(queue') = Len(queue) + 1
    BY <1>13, <2>1, AppendProperties DEF ShutdownPut, Put, TypeOK
  <2>. QED  BY <1>13, <2>2 DEF ShutdownPut, Put, MainUnchanged, TypeOK
<1>14. CASE Start
  <2>1. UNCHANGED <<queue, unfinished, failure, work>> /\ wpc = "absent" /\ wpc' = "get"
    BY <1>14 DEF Start, MainUnchanged, NotStarted
  <2>. QED  BY <2>1 DEF TypeOK
<1>15. CASE Main /\ ~Start /\ ~ShutdownPut
  <2>1. UNCHANGED <<queue, unfinished, failure, wpc, work>>
    BY <1>15 DEF Main, MainProceeds, MainUnchanged, Quiesce, IdleJoin, IdleJoined,
      IdleRaises, IdleReturns, ShutdownUnstarted, ShutdownCheck, ShutdownJoined,
      ShutdownClose
  <2>. QED  BY <2>1 DEF TypeOK
<1>16. CASE UNCHANGED vars
  BY <1>16 DEF vars, TypeOK
<1>. QED
  BY <1>1, <1>2, <1>3, <1>4, <1>5, <1>6, <1>7, <1>8, <1>9, <1>10, <1>11, <1>12, <1>13,
     <1>14, <1>15, <1>16 DEF Next, Worker

LEMMA NotStartedStep == ASSUME NotStarted, [Next]_vars PROVE NotStarted'
<1>. USE DEF NotStarted
<1>1. CASE Main
  BY <1>1 DEF Main, MainProceeds, Start, Quiesce, IdleJoin, IdleJoined,
      IdleRaises, IdleReturns, ShutdownUnstarted, ShutdownCheck, ShutdownPut,
      ShutdownJoined, ShutdownClose
<1>2. CASE Worker
  <2>1. wpc # "absent" /\ UNCHANGED mainVars
    BY <1>2 DEF Worker, WorkerUnchanged, Get, FuseWork, Fuse, FuseBump, FuseLiveness,
      FuseRejectedBatch, FuseAcceptedBatch, FuseObservations, FuseStop, Publish,
      TaskDone, Raise, RaiseTaskDone, RecordFailure, Discard, DiscardEmpty
  <2>. QED  BY <2>1 DEF mainVars
<1>3. CASE Call \/ CallRaises \/ FinishCall \/ UNCHANGED vars
  <2>1. UNCHANGED <<wpc, mainVars>>
    BY <1>3 DEF vars, Call, CallRaises, FinishCall, MixedMode, Submit, SubmitBatch,
      AdvanceLiveness, RejectedReceipt, BumpGeneration, EndCall
  <2>. QED  BY <2>1 DEF mainVars
<1>. QED  BY <1>1, <1>2, <1>3 DEF Next

-----------------------------------------------------------------------------
\* Every reachable state is typed, and join() waits for exactly the work that
\* is queued or in hand.
Accounted == TypeOK /\ UnfinishedMatchesWork /\ NotStarted

THEOREM Accounting == Spec => []Accounted
<1>1. ASSUME Init PROVE Accounted
  <2>1. [s \in Source |-> 0] \in [Source -> Nat]
    OBVIOUS
  <2>2. [ids |-> {}, gens |-> [s \in Source |-> 0]]
          \in [ids : SUBSET Tracklet, gens : [Source -> Nat]]
    BY <2>1
  <2>3. CallerTypes
    BY <1>1, <2>1, <2>2 DEF Init, CallerTypes
  <2>4. FuserTypes
    BY <1>1, <2>1 DEF Init, FuserTypes
  <2>5. MainTypes
    BY <1>1 DEF Init, MainTypes
  <2>6. queue = <<>> /\ <<>> \in Seq(Work) /\ Len(<<>>) = 0
    BY <1>1, EmptySeq DEF Init
  <2>7. WorkerTypes
    BY <1>1, <2>6, NoWorkType DEF Init, WorkerTypes
  <2>8. UnfinishedMatchesWork /\ NotStarted
    BY <1>1, <2>6 DEF Init, UnfinishedMatchesWork, NotStarted
  <2>. QED  BY <2>3, <2>4, <2>5, <2>7, <2>8 DEF Accounted, TypeOK
<1>2. Accounted /\ [Next]_vars => Accounted'
  BY CallerTypesStep, FuserTypesStep, MainTypesStep, WorkerTypesStep, NotStartedStep
  DEF Accounted, TypeOK
<1>. QED  BY <1>1, <1>2, PTL DEF Spec

\* The types of every variable hold in every reachable state.
THEOREM TypeCorrect == Spec => []TypeOK
BY Accounting, PTL DEF Accounted

\* unfinished_tasks is the length of the queue plus the item in hand, also
\* while the worker fails and drains: what join() waits for.
THEOREM JoinWaitsForAllWork == Spec => []UnfinishedMatchesWork
BY Accounting, PTL DEF Accounted

-----------------------------------------------------------------------------
(* The line from the fuser to the submission counters.                       *)

\* An item submitted right after the end of a line extends the line.
LEMMA LineAppend ==
  ASSUME NEW hand, NEW q \in Seq(Work), NEW last, NEW w \in Work,
         Line(hand, q, last), Follows(last, w)
  PROVE  Line(hand, Append(q, w), Mark(w))
<1>1. /\ Append(q, w) \in Seq(Work) /\ Append(q, w) # <<>>
      /\ Len(Append(q, w)) = Len(q) + 1
      /\ \A i \in 1..Len(q) : Append(q, w)[i] = q[i]
      /\ Append(q, w)[Len(q) + 1] = w
      /\ Len(q) \in Nat
  BY AppendProperties, LenProperties
<1>2. ASSUME NEW i \in 1..Len(Append(q, w))
      PROVE  Follows(IF i = 1 THEN hand ELSE Mark(Append(q, w)[i - 1]), Append(q, w)[i])
  <2>1. CASE i \in 1..Len(q)
    BY <1>1, <2>1 DEF Line
  <2>2. CASE i = Len(q) + 1
    <3>1. CASE q = <<>>
      <4>1. Len(q) = 0
        BY <3>1, EmptySeq
      <4>2. i = 1 /\ last = hand /\ Append(q, w)[i] = w
        BY <1>1, <2>2, <3>1, <4>1 DEF Line
      <4>. QED  BY <4>2
    <3>2. CASE q # <<>>
      <4>1. Len(q) \in 1..Len(q) /\ i # 1
        BY <1>1, <2>2, <3>2, EmptySeq
      <4>. QED  BY <1>1, <2>2, <3>2, <4>1 DEF Line
    <3>. QED  BY <3>1, <3>2
  <2>. QED  BY <1>1, <2>1, <2>2
<1>3. Mark(w) = Mark(Append(q, w)[Len(Append(q, w))])
  BY <1>1
<1>. QED  BY <1>1, <1>2, <1>3 DEF Line

\* Taking the head of a line leaves a line that starts at the item taken.
LEMMA LineTail ==
  ASSUME NEW hand, NEW q \in Seq(Work), NEW last, q # <<>>, Line(hand, q, last)
  PROVE  Follows(hand, Head(q)) /\ Line(Mark(Head(q)), Tail(q), last)
<1>1. /\ Len(q) \in Nat \ {0} /\ Head(q) = q[1]
      /\ Tail(q) \in Seq(Work) /\ Len(Tail(q)) = Len(q) - 1
      /\ \A i \in 1..Len(Tail(q)) : Tail(q)[i] = q[i + 1]
  BY HeadTailProperties, EmptySeq
<1>2. Follows(hand, Head(q))
  BY <1>1 DEF Line
<1>3. ASSUME NEW i \in 1..Len(Tail(q))
      PROVE  Follows(IF i = 1 THEN Mark(Head(q)) ELSE Mark(Tail(q)[i - 1]), Tail(q)[i])
  <2>1. i + 1 \in 1..Len(q) /\ i + 1 # 1 /\ (i + 1) - 1 = i
    BY <1>1
  <2>2. Follows(Mark(q[i]), q[i + 1])
    BY <2>1 DEF Line
  <2>3. CASE i = 1
    BY <1>1, <2>2, <2>3
  <2>4. CASE i # 1
    <3>1. i - 1 \in 1..Len(Tail(q)) /\ (i - 1) + 1 = i
      BY <1>1, <2>4
    <3>. QED  BY <1>1, <2>2, <2>4, <3>1
  <2>. QED  BY <2>3, <2>4
<1>4. last = IF Tail(q) = <<>> THEN Mark(Head(q)) ELSE Mark(Tail(q)[Len(Tail(q))])
  <2>1. last = Mark(q[Len(q)])
    BY DEF Line
  <2>2. CASE Tail(q) = <<>>
    <3>1. Len(Tail(q)) = 0
      BY <2>2, EmptySeq
    <3>2. Len(q) = 1
      <4>1. Len(q) \in Nat /\ Len(q) - 1 = 0
        BY <1>1, <3>1
      <4>. QED  BY <4>1
    <3>3. q[Len(q)] = Head(q)
      BY <1>1, <3>2
    <3>. QED  BY <2>1, <2>2, <3>3
  <2>3. CASE Tail(q) # <<>>
    <3>1. Len(Tail(q)) \in 1..Len(Tail(q)) /\ Len(Tail(q)) + 1 = Len(q)
      BY <1>1, <2>3, EmptySeq
    <3>. QED  BY <1>1, <2>1, <2>3, <3>1
  <2>. QED  BY <2>2, <2>3
<1>. QED  BY <1>2, <1>3, <1>4 DEF Line

\* What the line needs to be inductive: the callers read the generations from
\* the snapshot, and the two interfaces are never mixed.
IInv == TypeOK /\ LineInv /\ SnapshotNeverStale

\* A call queues the next item of the line, or nothing that the line sees.
LEMMA CallFollows ==
  ASSUME IInv, FinishCall
  PROVE  \/ UNCHANGED <<queue, attempts, buckets, gens>>
         \/ \E w \in Work : /\ Put(w)
                            /\ Follows(SubmitMark, w)
                            /\ SubmitMark' = Mark(w)
                            /\ SameMode(mode', w)
<1>. USE DEF IInv, TypeOK, CallerTypes
<1>1. CASE MixedMode
  BY <1>1 DEF MixedMode, submitVars
<1>2. CASE RejectedReceipt
  BY <1>2 DEF RejectedReceipt
<1>3. CASE Submit
  <2>1. PICK s \in Source :
          Put(NewWork("observations", s, "complete", FALSE, attempts, buckets, gens))
    BY <1>3 DEF Submit
  <2>. DEFINE w == NewWork("observations", s, "complete", FALSE, attempts, buckets, gens)
  <2>2. w \in Work
    BY NewWorkType DEF Frames
  <2>3. mode' = "legacy" /\ UNCHANGED <<attempts, buckets, gens>>
    BY <1>3 DEF Submit, SelectMode
  <2>4. Follows(SubmitMark, w) /\ SubmitMark' = Mark(w)
    BY <2>3 DEF NewWork, Follows, SubmitMark, Mark
  <2>5. SameMode(mode', w)
    BY <2>3 DEF NewWork, SameMode
  <2>. QED  BY <2>1, <2>2, <2>4, <2>5
<1>4. ASSUME NEW frames \in Frames, SubmitBatch(frames)
      PROVE  \E w \in Work : /\ Put(w)
                             /\ Follows(SubmitMark, w)
                             /\ SubmitMark' = Mark(w)
                             /\ SameMode(mode', w)
  <2>. DEFINE w == NewWork("batch", AnySource, frames, Accepts(frames), attempts',
                           buckets', snapshot.gens)
  <2>1. /\ attempts' = attempts + 1 /\ gens' = gens /\ mode' = "atomic"
        /\ buckets' = IF Accepts(frames) THEN buckets + 1 ELSE buckets
        /\ Put(w)
    BY <1>4 DEF SubmitBatch, SelectMode
  <2>2. attempts' \in Nat /\ buckets' \in Nat /\ Accepts(frames) \in BOOLEAN
    BY <2>1 DEF Accepts
  <2>3. w \in Work
    BY <2>2, NewWorkType, AnySourceType
  <2>4. snapshot.gens = gens
    BY DEF SnapshotNeverStale
  <2>5. Follows(SubmitMark, w) /\ SubmitMark' = Mark(w)
    BY <2>1, <2>2, <2>4 DEF NewWork, Follows, SubmitMark, Mark
  <2>6. SameMode(mode', w)
    BY <2>1 DEF NewWork, SameMode
  <2>. QED  BY <2>1, <2>3, <2>5, <2>6
<1>5. CASE AdvanceLiveness
  <2>. DEFINE w == NewWork("liveness", AnySource, "complete", FALSE, attempts', buckets,
                           snapshot.gens)
  <2>1. /\ attempts' = attempts + 1 /\ UNCHANGED <<buckets, gens>> /\ mode' = "atomic"
        /\ Put(w)
    BY <1>5 DEF AdvanceLiveness, SelectMode
  <2>2. w \in Work
    <3>1. attempts' \in Nat
      BY <2>1
    <3>. QED  BY <3>1, NewWorkType, AnySourceType DEF Frames
  <2>3. snapshot.gens = gens
    BY DEF SnapshotNeverStale
  <2>4. Follows(SubmitMark, w) /\ SubmitMark' = Mark(w)
    BY <2>1, <2>3 DEF NewWork, Follows, SubmitMark, Mark
  <2>5. SameMode(mode', w)
    BY <2>1 DEF NewWork, SameMode
  <2>. QED  BY <2>1, <2>2, <2>4, <2>5
<1>6. ASSUME NEW s \in Source, BumpGeneration(s)
      PROVE  \E w \in Work : /\ Put(w)
                             /\ Follows(SubmitMark, w)
                             /\ SubmitMark' = Mark(w)
                             /\ SameMode(mode', w)
  <2>. DEFINE w == NewWork("bump", s, "complete", FALSE, attempts, buckets, gens')
  <2>1. /\ gens' = [gens EXCEPT ![s] = @ + 1]
        /\ UNCHANGED <<attempts, buckets, mode>>
        /\ Put(w)
    BY <1>6 DEF BumpGeneration
  <2>2. w \in Work
    <3>1. gens' \in [Source -> Nat]
      BY <2>1
    <3>. QED  BY <3>1, NewWorkType DEF Frames
  <2>3. Follows(SubmitMark, w) /\ SubmitMark' = Mark(w)
    BY <2>1 DEF NewWork, Follows, SubmitMark, Mark
  <2>4. SameMode(mode', w)
    BY DEF NewWork, SameMode
  <2>. QED  BY <2>1, <2>2, <2>3, <2>4
<1>. QED  BY <1>1, <1>2, <1>3, <1>4, <1>5, <1>6 DEF FinishCall

\* The line and the interface after a call, a stop marker, and each worker step.
LEMMA OneInterfaceStep ==
  ASSUME IInv, [Next]_vars
  PROVE  OneInterface'
<1>. USE DEF IInv, TypeOK, CallerTypes, WorkerTypes, LineInv
<1>a. ASSUME NEW w \in Work, Put(w), SameMode(mode', w), UNCHANGED <<wpc, work, fuserMode>>,
             mode = "none" \/ mode' = mode, mode' \in {"none", "legacy", "atomic"}
      PROVE  OneInterface'
  <2>1. ASSUME NEW v \in Work, SameMode(mode, v) PROVE SameMode(mode', v)
    BY <1>a, <2>1 DEF SameMode
  <2>2. /\ Len(queue') = Len(queue) + 1
        /\ \A i \in 1..Len(queue) : queue'[i] = queue[i] /\ queue[i] \in Work
        /\ queue'[Len(queue) + 1] = w
        /\ Len(queue) \in Nat
    BY <1>a, AppendProperties, LenProperties, ElementOfSeq DEF Put
  <2>3. ASSUME NEW i \in 1..Len(queue') PROVE SameMode(mode', queue'[i])
    <3>1. CASE i \in 1..Len(queue)
      BY <2>1, <2>2, <3>1 DEF OneInterface
    <3>2. CASE i = Len(queue) + 1
      BY <1>a, <2>2, <3>2
    <3>. QED  BY <2>2, <3>1, <3>2
  <2>4. fuserMode' \in {"none", mode'}
    BY <1>a DEF OneInterface
  <2>5. wpc' = "work" => SameMode(mode', work')
    BY <1>a, <2>1 DEF OneInterface
  <2>. QED  BY <2>3, <2>4, <2>5 DEF OneInterface
<1>b. ASSUME UNCHANGED <<mode, queue>>, fuserMode' \in {"none", mode},
             wpc' = "work" => wpc = "work" /\ work' = work
      PROVE  OneInterface'
  BY <1>b DEF OneInterface
<1>c. ASSUME UNCHANGED <<mode, fuserMode>>, queue # <<>>, queue' = Tail(queue),
             wpc' = "work" => work' = Head(queue)
      PROVE  OneInterface'
  <2>1. /\ Len(queue) \in Nat \ {0} /\ Head(queue) = queue[1]
        /\ Len(queue') = Len(queue) - 1
        /\ \A i \in 1..Len(queue') : queue'[i] = queue[i + 1]
    BY <1>c, HeadTailProperties, EmptySeq
  <2>2. SameMode(mode, Head(queue))
    BY <2>1 DEF OneInterface
  <2>3. ASSUME NEW i \in 1..Len(queue') PROVE SameMode(mode, queue'[i])
    <3>1. i + 1 \in 1..Len(queue)
      BY <2>1
    <3>. QED  BY <2>1, <3>1 DEF OneInterface
  <2>. QED  BY <1>c, <2>2, <2>3 DEF OneInterface
<1>1. CASE FinishCall
  <2>1. UNCHANGED <<wpc, work, fuserMode>>
    BY <1>1 DEF FinishCall, EndCall, MixedMode, Submit, SubmitBatch, AdvanceLiveness,
      RejectedReceipt, BumpGeneration, fuserVars
  <2>2. mode = "none" \/ mode' = mode
    BY <1>1 DEF FinishCall, SelectMode, MixedMode, Submit, SubmitBatch, AdvanceLiveness,
      RejectedReceipt, BumpGeneration, submitVars
  <2>3. mode' \in {"none", "legacy", "atomic"}
    BY CallerTypesStep DEF CallerTypes
  <2>4. CASE \E w \in Work : Put(w) /\ SameMode(mode', w)
    BY <1>a, <2>1, <2>2, <2>3, <2>4
  <2>5. CASE UNCHANGED queue
    <3>1. ASSUME NEW v \in Work, SameMode(mode, v) PROVE SameMode(mode', v)
      BY <2>2, <2>3, <3>1 DEF SameMode
    <3>2. \A i \in 1..Len(queue) : queue[i] \in Work
      BY ElementOfSeq
    <3>. QED  BY <2>1, <2>2, <2>5, <3>1, <3>2 DEF OneInterface
  <2>. QED  BY <1>1, <2>4, <2>5, CallFollows
<1>2. CASE ShutdownPut
  <2>1. StopWork \in Work /\ SameMode(mode, StopWork)
    BY StopWorkType DEF StopWork, NewWork, SameMode
  <2>2. Put(StopWork) /\ UNCHANGED <<mode, wpc, work, fuserMode>>
    BY <1>2 DEF ShutdownPut, MainUnchanged, submitVars, fuserVars
  <2>. QED  BY <1>a, <2>1, <2>2
<1>3. CASE Get
  BY <1>3, <1>c DEF Get, WorkerUnchanged, submitVars, fuserVars
<1>4. CASE FuseWork
  <2>1. UNCHANGED <<mode, queue>> /\ wpc' = "publish" /\ wpc = "work"
    BY <1>4 DEF FuseWork, Fuse, FuseBump, FuseLiveness, FuseRejectedBatch,
      FuseAcceptedBatch, FuseObservations, FuseStop, WorkerUnchanged, submitVars
  <2>2. SameMode(mode, work) /\ fuserMode \in {"none", mode}
    BY <2>1 DEF OneInterface
  <2>3. fuserMode' \in {"none", mode}
    BY <1>4, <2>2 DEF FuseWork, Fuse, FuseBump, FuseLiveness, FuseRejectedBatch,
      FuseAcceptedBatch, FuseObservations, FuseStop, SameMode
  <2>. QED  BY <1>b, <2>1, <2>3
<1>5. CASE Discard
  BY <1>5, <1>c DEF Discard, WorkerUnchanged, submitVars, fuserVars
<1>6. CASE Publish \/ TaskDone \/ Raise \/ RaiseTaskDone \/ RecordFailure \/ DiscardEmpty
  <2>1. UNCHANGED <<mode, queue, fuserMode>> /\ wpc' # "work"
    BY <1>6 DEF Publish, TaskDone, Raise, RaiseTaskDone, RecordFailure, DiscardEmpty,
      WorkerUnchanged, submitVars, fuserVars
  <2>. QED  BY <1>b, <2>1 DEF OneInterface
<1>7. CASE Call \/ CallRaises \/ (Main /\ ~ShutdownPut) \/ UNCHANGED vars
  <2>1. UNCHANGED <<mode, queue, fuserMode, work>> /\ (wpc' = wpc \/ wpc' = "get")
    BY <1>7 DEF Call, CallRaises, Main, MainProceeds, MainUnchanged, Start, Quiesce,
      IdleJoin, IdleJoined, IdleRaises, IdleReturns, ShutdownUnstarted, ShutdownCheck,
      ShutdownJoined, ShutdownClose, vars, submitVars, fuserVars
  <2>. QED  BY <1>b, <2>1 DEF OneInterface
<1>. QED  BY <1>1, <1>2, <1>3, <1>4, <1>5, <1>6, <1>7 DEF Next, Worker

\* An item the fuser accepts moves it to exactly the mark of the item.
LEMMA FuseReachesMark ==
  ASSUME IInv, FuseWork
  PROVE  Follows(FuserMark, work) /\ FuserMark' = Mark(work)
<1>. USE DEF IInv, TypeOK, WorkerTypes, FuserTypes
<1>1. wpc = "work" /\ Healthy
  BY DEF FuseWork, Fuse, FuseBump, FuseLiveness, FuseRejectedBatch, FuseAcceptedBatch,
    FuseObservations, FuseStop, Healthy
<1>2. Follows(FuserMark, work) /\ SameMode(mode, work)
  BY <1>1 DEF LineInv, UnbrokenLine, OneInterface
<1>3. /\ work.attempt = IF work.kind \in {"batch", "liveness"} THEN attempted + 1
                                                              ELSE attempted
      /\ work.bucket = IF work.kind = "batch" /\ work.accepted THEN processed + 1
                                                              ELSE processed
      /\ work.gens = IF work.kind = "bump"
                       THEN [fuserGens EXCEPT ![work.source] = @ + 1] ELSE fuserGens
  BY <1>2 DEF Follows, FuserMark
<1>4. work.kind = "batch" => work.accepted = Accepts(work.frames)
  BY <1>2 DEF SameMode
<1>5. attempted' = work.attempt /\ processed' = work.bucket /\ fuserGens' = work.gens
  <2>1. CASE FuseBump
    BY <1>3, <2>1 DEF FuseBump, Fuse
  <2>2. CASE FuseLiveness
    BY <1>3, <2>2 DEF FuseLiveness, Fuse
  <2>3. CASE FuseRejectedBatch
    BY <1>3, <1>4, <2>3 DEF FuseRejectedBatch, Fuse
  <2>4. CASE FuseAcceptedBatch
    BY <1>3, <1>4, <2>4 DEF FuseAcceptedBatch, Fuse
  <2>5. CASE FuseObservations
    BY <1>3, <2>5 DEF FuseObservations, Fuse
  <2>6. CASE FuseStop
    BY <1>3, <2>6 DEF FuseStop, Fuse
  <2>. QED  BY <2>1, <2>2, <2>3, <2>4, <2>5, <2>6 DEF FuseWork
<1>. QED  BY <1>2, <1>5 DEF FuserMark, Mark

LEMMA UnbrokenLineStep ==
  ASSUME IInv, NotStarted, [Next]_vars
  PROVE  UnbrokenLine'
<1>. USE DEF IInv, TypeOK, WorkerTypes
<1>a. ASSUME UNCHANGED <<wpc, work, FuserMark>>,
             NEW w \in Work, Put(w), Follows(SubmitMark, w), SubmitMark' = Mark(w)
      PROVE  UnbrokenLine'
  <2>. SUFFICES ASSUME Healthy' PROVE UnbrokenLine'
    BY DEF UnbrokenLine
  <2>1. Healthy /\ HandMark' = HandMark
    BY <1>a DEF Healthy, HandMark
  <2>2. Line(HandMark, queue, SubmitMark)
    BY <2>1 DEF LineInv, UnbrokenLine
  <2>3. Line(HandMark, Append(queue, w), Mark(w))
    BY <1>a, <2>2, LineAppend
  <2>4. Line(HandMark, queue, SubmitMark)'
    BY <1>a, <2>1, <2>3 DEF Put, Line
  <2>5. (wpc = "work" => Follows(FuserMark, work))'
    BY <1>a, <2>1 DEF LineInv, UnbrokenLine, Follows
  <2>. QED  BY <2>4, <2>5 DEF UnbrokenLine
<1>b. ASSUME UNCHANGED <<queue, FuserMark, SubmitMark>>, Healthy' => Healthy,
             \/ wpc' = wpc /\ work' = work
             \/ wpc # "work" /\ wpc' # "work"
      PROVE  UnbrokenLine'
  <2>. SUFFICES ASSUME Healthy' PROVE UnbrokenLine'
    BY DEF UnbrokenLine
  <2>1. Healthy /\ HandMark' = HandMark
    BY <1>b DEF HandMark, Mark
  <2>2. Line(HandMark, queue, SubmitMark)
    BY <2>1 DEF LineInv, UnbrokenLine
  <2>3. Line(HandMark, queue, SubmitMark)'
    BY <1>b, <2>1, <2>2 DEF Line
  <2>4. (wpc = "work" => Follows(FuserMark, work))'
    BY <1>b, <2>1 DEF LineInv, UnbrokenLine, Follows
  <2>. QED  BY <2>3, <2>4 DEF UnbrokenLine
<1>1. CASE FinishCall
  <2>1. UNCHANGED <<wpc, work, FuserMark>>
    BY <1>1 DEF FinishCall, EndCall, MixedMode, Submit, SubmitBatch, AdvanceLiveness,
      RejectedReceipt, BumpGeneration, fuserVars, FuserMark
  <2>2. CASE UNCHANGED <<queue, attempts, buckets, gens>>
    <3>1. UNCHANGED <<queue, FuserMark, SubmitMark>>
      BY <2>1, <2>2 DEF SubmitMark
    <3>2. CASE Healthy
      <4>1. wpc' = wpc /\ work' = work
        BY <2>1
      <4>. QED  BY <1>b, <3>1, <3>2, <4>1
    <3>3. CASE ~Healthy
      BY <2>1, <3>3 DEF Healthy, UnbrokenLine
    <3>. QED  BY <3>2, <3>3
  <2>. QED  BY <1>1, <1>a, <2>1, <2>2, CallFollows
<1>2. CASE ShutdownPut
  <2>1. StopWork \in Work
    BY StopWorkType
  <2>2. Put(StopWork) /\ UNCHANGED <<wpc, work, FuserMark, SubmitMark>>
    BY <1>2 DEF ShutdownPut, MainUnchanged, submitVars, fuserVars, FuserMark, SubmitMark
  <2>3. Follows(SubmitMark, StopWork) /\ Mark(StopWork) = SubmitMark
    BY DEF StopWork, NewWork, Follows, Mark, SubmitMark
  <2>. QED  BY <1>a, <2>1, <2>2, <2>3
<1>3. CASE Get
  <2>1. Healthy /\ HandMark = FuserMark
    BY <1>3 DEF Get, Healthy, HandMark
  <2>2. Line(FuserMark, queue, SubmitMark)
    BY <2>1 DEF LineInv, UnbrokenLine
  <2>3. Follows(FuserMark, Head(queue)) /\ Line(Mark(Head(queue)), Tail(queue), SubmitMark)
    BY <1>3, <2>2, LineTail DEF Get
  <2>4. /\ work' = Head(queue) /\ queue' = Tail(queue) /\ wpc' = "work"
        /\ FuserMark' = FuserMark /\ SubmitMark' = SubmitMark
    BY <1>3 DEF Get, WorkerUnchanged, fuserVars, submitVars, FuserMark, SubmitMark
  <2>5. HandMark' = Mark(Head(queue))
    BY <2>4 DEF HandMark, Mark
  <2>6. Line(HandMark, queue, SubmitMark)'
    BY <2>3, <2>4, <2>5 DEF Line
  <2>7. Follows(FuserMark, work)'
    BY <2>3, <2>4 DEF Follows
  <2>. QED  BY <2>6, <2>7 DEF UnbrokenLine
<1>4. CASE FuseWork
  <2>1. /\ wpc = "work" /\ wpc' = "publish"
        /\ UNCHANGED <<queue, SubmitMark>>
    BY <1>4 DEF FuseWork, Fuse, FuseBump, FuseLiveness, FuseRejectedBatch,
      FuseAcceptedBatch, FuseObservations, FuseStop, WorkerUnchanged, submitVars, SubmitMark
  <2>2. HandMark' = HandMark
    BY <1>4, <2>1, FuseReachesMark DEF HandMark
  <2>3. Line(HandMark, queue, SubmitMark)
    BY <2>1 DEF LineInv, UnbrokenLine, Healthy
  <2>4. Line(HandMark, queue, SubmitMark)'
    BY <2>1, <2>2, <2>3 DEF Line
  <2>. QED  BY <2>1, <2>4 DEF UnbrokenLine
<1>5. CASE Publish \/ TaskDone
  <2>1. /\ Healthy /\ wpc # "work" /\ wpc' # "work"
        /\ UNCHANGED <<queue, FuserMark, SubmitMark>>
    BY <1>5 DEF Publish, TaskDone, WorkerUnchanged, submitVars, fuserVars, SubmitMark,
      FuserMark, Healthy
  <2>. QED  BY <1>b, <2>1
<1>6. CASE Raise \/ RaiseTaskDone \/ RecordFailure \/ Discard \/ DiscardEmpty
  BY <1>6 DEF Raise, RaiseTaskDone, RecordFailure, Discard, DiscardEmpty, Healthy,
    UnbrokenLine
<1>7. CASE Start
  <2>1. /\ Healthy /\ wpc # "work" /\ wpc' # "work"
        /\ UNCHANGED <<queue, FuserMark, SubmitMark>>
    BY <1>7 DEF Start, NotStarted, MainUnchanged, submitVars, fuserVars, SubmitMark,
      FuserMark, Healthy
  <2>. QED  BY <1>b, <2>1
<1>8. CASE Call \/ CallRaises \/ (Main /\ ~Start /\ ~ShutdownPut) \/ UNCHANGED vars
  <2>1. UNCHANGED <<wpc, work, queue, FuserMark, SubmitMark>>
    BY <1>8 DEF Call, CallRaises, Main, MainProceeds, MainUnchanged, Quiesce, IdleJoin,
      IdleJoined, IdleRaises, IdleReturns, ShutdownUnstarted, ShutdownCheck,
      ShutdownJoined, ShutdownClose, vars, submitVars, fuserVars, SubmitMark, FuserMark
  <2>2. CASE Healthy
    <3>1. UNCHANGED <<queue, FuserMark, SubmitMark>> /\ wpc' = wpc /\ work' = work
      BY <2>1
    <3>. QED  BY <1>b, <2>2, <3>1
  <2>3. CASE ~Healthy
    BY <2>1, <2>3 DEF Healthy, UnbrokenLine
  <2>. QED  BY <2>2, <2>3
<1>. QED  BY <1>1, <1>2, <1>3, <1>4, <1>5, <1>6, <1>7, <1>8 DEF Next, Worker

LEMMA SnapshotStep ==
  ASSUME IInv, [Next]_vars
  PROVE  SnapshotNeverStale'
<1>. USE DEF IInv, TypeOK, CallerTypes
<1>1. ASSUME NEW s \in Source, BumpGeneration(s) PROVE SnapshotNeverStale'
  <2>1. /\ gens' = [gens EXCEPT ![s] = @ + 1]
        /\ snapshot'.ids = {t \in snapshot.ids : t[1] # s}
        /\ snapshot'.gens = gens'
    BY <1>1 DEF BumpGeneration
  <2>2. ASSUME NEW t \in snapshot'.ids PROVE t[2] = gens'[t[1]]
    <3>1. t \in snapshot.ids /\ t[1] # s /\ t[1] \in Source
      BY <2>1, <2>2 DEF Tracklet
    <3>2. t[2] = gens[t[1]]
      BY <3>1 DEF SnapshotNeverStale, CurrentOnly
    <3>. QED  BY <2>1, <3>1, <3>2
  <2>. QED  BY <2>1, <2>2 DEF SnapshotNeverStale, CurrentOnly
<1>2. CASE Publish
  BY <1>2 DEF Publish, WorkerUnchanged, submitVars, SnapshotNeverStale, CurrentOnly
<1>3. CASE ~Publish /\ ~\E s \in Source : BumpGeneration(s)
  <2>1. UNCHANGED <<gens, snapshot>>
    BY <1>3 DEF Next, vars, submitVars, Call, CallRaises, FinishCall, MixedMode, Submit,
      SubmitBatch, AdvanceLiveness, RejectedReceipt, Worker, WorkerUnchanged, Get,
      FuseWork, Fuse, FuseBump, FuseLiveness, FuseRejectedBatch, FuseAcceptedBatch,
      FuseObservations, FuseStop, TaskDone, Raise, RaiseTaskDone, RecordFailure, Discard,
      DiscardEmpty, Main, MainProceeds, MainUnchanged, Start, Quiesce, IdleJoin,
      IdleJoined, IdleRaises, IdleReturns, ShutdownUnstarted, ShutdownCheck,
      ShutdownPut, ShutdownJoined, ShutdownClose
  <2>. QED  BY <2>1 DEF SnapshotNeverStale, CurrentOnly
<1>. QED  BY <1>1, <1>2, <1>3

-----------------------------------------------------------------------------
\* From the submission counters through the queue and the item in hand to the
\* fuser's counters nothing is ever skipped, repeated or overtaken, and the
\* published snapshot always belongs to the callers' generations.
THEOREM Inductive == Spec => []IInv
<1>1. ASSUME Init, Accounted PROVE IInv
  <2>1. queue = <<>> /\ Len(queue) = 0 /\ wpc = "absent" /\ fuserMode = "none"
    BY <1>1, EmptySeq DEF Init
  <2>2. FuserMark = SubmitMark
    BY <1>1 DEF Init, FuserMark, SubmitMark
  <2>3. HandMark = FuserMark
    BY <2>1 DEF HandMark
  <2>4. Line(HandMark, queue, SubmitMark)
    BY <2>1, <2>2, <2>3 DEF Line
  <2>5. UnbrokenLine
    BY <2>1, <2>4 DEF UnbrokenLine
  <2>6. OneInterface
    BY <2>1 DEF OneInterface
  <2>7. SnapshotNeverStale
    BY <1>1 DEF Init, SnapshotNeverStale, CurrentOnly
  <2>. QED  BY <1>1, <2>5, <2>6, <2>7 DEF IInv, LineInv, Accounted
<1>2. ASSUME IInv, Accounted, Accounted', [Next]_vars PROVE IInv'
  BY <1>2, OneInterfaceStep, UnbrokenLineStep, SnapshotStep DEF IInv, LineInv, Accounted
<1>. QED  BY <1>1, <1>2, Accounting, PTL DEF Spec

\* The line is unbroken and the interfaces are never mixed, in every state.
THEOREM LineUnbroken == Spec => []LineInv
BY Inductive, PTL DEF IInv

\* The fuser's checks of epochs, buckets, generations, acceptance and mode
\* never fire, for any number of callers' steps, reconnects and sources.
THEOREM NeverRefused == Spec => []SequencingNeverRefused
<1>1. IInv => SequencingNeverRefused
  <2>. SUFFICES ASSUME IInv, wpc = "work" PROVE ~Refused(work)
    BY DEF SequencingNeverRefused
  <2>1. Follows(FuserMark, work) /\ SameMode(mode, work) /\ fuserMode \in {"none", mode}
    BY DEF IInv, LineInv, UnbrokenLine, OneInterface, Healthy
  <2>2. work.source \in Source /\ fuserGens \in [Source -> Nat]
    BY DEF IInv, TypeOK, WorkerTypes, FuserTypes, Work
  <2>. QED  BY <2>1, <2>2 DEF Follows, FuserMark, SameMode, Refused
<1>. QED  BY <1>1, Inductive, PTL

\* A batch is fused under the generations its receipt reports.
THEOREM ReceiptGenerations == Spec => []FusedUnderReceiptGenerations
<1>1. IInv => FusedUnderReceiptGenerations
  BY DEF IInv, LineInv, UnbrokenLine, Healthy, Follows, FuserMark,
    FusedUnderReceiptGenerations
<1>. QED  BY <1>1, Inductive, PTL

\* No published snapshot names a tracklet of an earlier generation.
THEOREM SnapshotCurrent == Spec => []SnapshotNeverStale
BY Inductive, PTL DEF IInv

-----------------------------------------------------------------------------
(* What a step does to the queue and the item in hand.                      *)

LEMMA QueueStep ==
  ASSUME IInv, [Next]_vars
  PROVE  \/ /\ UNCHANGED <<queue, attempts, buckets, gens>>
            /\ wpc' = "work" => wpc = "work" /\ work' = work
         \/ \E w \in Work : /\ queue' = Append(queue, w)
                            /\ Follows(SubmitMark, w) /\ SubmitMark' = Mark(w)
                            /\ wpc' = wpc /\ work' = work
         \/ /\ queue # <<>> /\ queue' = Tail(queue)
            /\ UNCHANGED <<attempts, buckets, gens>>
            /\ wpc' = "work" => work' = Head(queue)
<1>1. CASE FinishCall
  <2>1. wpc' = wpc /\ work' = work
    BY <1>1 DEF FinishCall, EndCall, MixedMode, Submit, SubmitBatch, AdvanceLiveness,
      RejectedReceipt, BumpGeneration
  <2>. QED  BY <1>1, <2>1, CallFollows DEF Put
<1>2. CASE ShutdownPut
  <2>1. StopWork \in Work
    BY StopWorkType DEF IInv, TypeOK
  <2>2. queue' = Append(queue, StopWork) /\ UNCHANGED <<wpc, work, SubmitMark>>
    BY <1>2 DEF ShutdownPut, Put, MainUnchanged, submitVars, SubmitMark
  <2>3. Follows(SubmitMark, StopWork) /\ Mark(StopWork) = SubmitMark
    BY DEF StopWork, NewWork, Follows, Mark, SubmitMark
  <2>. QED  BY <2>1, <2>2, <2>3
<1>3. CASE Get \/ Discard
  BY <1>3 DEF Get, Discard, WorkerUnchanged, submitVars
<1>4. CASE FuseWork
  BY <1>4 DEF FuseWork, Fuse, FuseBump, FuseLiveness, FuseRejectedBatch, FuseAcceptedBatch,
    FuseObservations, FuseStop, WorkerUnchanged, submitVars
<1>5. CASE Publish \/ TaskDone \/ Raise \/ RaiseTaskDone \/ RecordFailure \/ DiscardEmpty
  BY <1>5 DEF Publish, TaskDone, Raise, RaiseTaskDone, RecordFailure, DiscardEmpty,
    WorkerUnchanged, submitVars
<1>6. CASE Call \/ CallRaises \/ UNCHANGED vars
  BY <1>6 DEF Call, CallRaises, vars, submitVars
<1>7. CASE Main /\ ~ShutdownPut
  BY <1>7 DEF Main, MainProceeds, MainUnchanged, Start, Quiesce, IdleJoin, IdleJoined,
    IdleRaises, IdleReturns, ShutdownUnstarted, ShutdownCheck, ShutdownJoined,
    ShutdownClose, submitVars
<1>. QED  BY <1>1, <1>2, <1>3, <1>4, <1>5, <1>6, <1>7 DEF Next, Worker

-----------------------------------------------------------------------------
(* Numbers only grow along the queue.  The line says so from one item to the *)
(* next; that it holds between any two has to be carried as an invariant.    *)

\* No item of q is ahead of the submission counters, and every attempt in q is
\* later than `hand` and than the items before it.
Ascending(q, hand, last, g) ==
  /\ \A i \in 1..Len(q) : /\ q[i].attempt <= last
                          /\ \A s \in Source : q[i].gens[s] <= g[s]
                          /\ Attempt(q[i]) => q[i].attempt > hand
  /\ \A i, j \in 1..Len(q) : i < j /\ Attempt(q[j]) => q[j].attempt > q[i].attempt

HandAttempt == IF wpc = "work" THEN work.attempt ELSE 0

NumbersGrow ==
  /\ Ascending(queue, HandAttempt, attempts, gens)
  /\ HandAttempt <= attempts
  /\ wpc = "work" => \A s \in Source : work.gens[s] <= gens[s]
  /\ \A s \in Source : fuserGens[s] <= gens[s]

LEMMA AscendingAppend ==
  ASSUME NEW q \in Seq(Work), NEW hand \in Nat, NEW last \in Nat, NEW g \in [Source -> Nat],
         Ascending(q, hand, last, g), hand <= last,
         NEW w \in Work, NEW new \in Nat, NEW h \in [Source -> Nat],
         w.attempt = new, w.gens = h, new >= last, \A s \in Source : h[s] >= g[s],
         Attempt(w) => new > last
  PROVE  Ascending(Append(q, w), hand, new, h)
<1>. DEFINE r == Append(q, w)  n == Len(q)
<1>1. /\ n \in Nat /\ Len(r) = n + 1 /\ r[n + 1] = w
      /\ \A i \in 1..n : r[i] = q[i] /\ q[i] \in Work
  BY AppendProperties, LenProperties, ElementOfSeq
<1>. HIDE DEF r, n
<1>2. \A i \in 1..n : /\ r[i] = q[i] /\ q[i].attempt \in Nat /\ q[i].gens \in [Source -> Nat]
                      /\ q[i].attempt <= last
                      /\ \A s \in Source : q[i].gens[s] <= g[s]
                      /\ Attempt(q[i]) => q[i].attempt > hand
  BY <1>1 DEF Ascending, Work, n
<1>3. ASSUME NEW i \in 1..n + 1
      PROVE  /\ r[i].attempt <= new
             /\ \A s \in Source : r[i].gens[s] <= h[s]
             /\ Attempt(r[i]) => r[i].attempt > hand
  <2>1. CASE i \in 1..n
    BY <1>2, <2>1
  <2>2. CASE i = n + 1
    BY <1>1, <2>2
  <2>. QED  BY <1>1, <2>1, <2>2
<1>4. ASSUME NEW i \in 1..n + 1, NEW j \in 1..n + 1, i < j, Attempt(r[j])
      PROVE  r[j].attempt > r[i].attempt
  <2>1. i \in 1..n
    BY <1>1, <1>4
  <2>2. CASE j \in 1..n
    BY <1>2, <1>4, <2>1, <2>2 DEF Ascending, n
  <2>3. CASE j = n + 1
    BY <1>1, <1>2, <1>4, <2>1, <2>3
  <2>. QED  BY <1>1, <2>2, <2>3
<1>. QED  BY <1>1, <1>3, <1>4 DEF Ascending, r

LEMMA AscendingWeaker ==
  ASSUME NEW q \in Seq(Work), NEW hand \in Nat, NEW last, NEW g, Ascending(q, hand, last, g)
  PROVE  Ascending(q, 0, last, g)
<1>1. \A i \in 1..Len(q) : q[i].attempt \in Nat
  <2>1. \A i \in 1..Len(q) : q[i] \in Work
    BY ElementOfSeq
  <2>. QED  BY <2>1 DEF Work
<1>. QED  BY <1>1 DEF Ascending

LEMMA AscendingTail ==
  ASSUME NEW q \in Seq(Work), NEW hand \in Nat, NEW last \in Nat, NEW g \in [Source -> Nat],
         Ascending(q, hand, last, g), q # <<>>
  PROVE  /\ Ascending(Tail(q), hand, last, g) /\ Ascending(Tail(q), Head(q).attempt, last, g)
         /\ Head(q).attempt <= last /\ \A s \in Source : Head(q).gens[s] <= g[s]
<1>. DEFINE r == Tail(q)  n == Len(q)
<1>1. /\ n \in Nat \ {0} /\ Len(r) = n - 1 /\ Head(q) = q[1] /\ 1 \in 1..n
      /\ \A i \in 1..n - 1 : r[i] = q[i + 1] /\ i + 1 \in 1..n
  BY HeadTailProperties, LenProperties, EmptySeq
<1>2. \A i, j \in 1..n - 1 : i < j => i + 1 < j + 1
  BY <1>1
<1>3. \A i \in 1..n - 1 : 1 < i + 1
  BY <1>1
<1>4. \A i \in 1..n : /\ q[i].attempt <= last
                      /\ \A s \in Source : q[i].gens[s] <= g[s]
                      /\ Attempt(q[i]) => q[i].attempt > hand
  BY DEF Ascending
<1>5. \A i, j \in 1..n : i < j /\ Attempt(q[j]) => q[j].attempt > q[i].attempt
  BY DEF Ascending
<1>. HIDE DEF r, n
<1>6. \A i, j \in 1..n - 1 : i < j /\ Attempt(r[j]) => r[j].attempt > r[i].attempt
  BY <1>1, <1>2, <1>5
<1>7. Ascending(r, hand, last, g)
  BY <1>1, <1>4, <1>6 DEF Ascending
<1>8. Ascending(r, Head(q).attempt, last, g)
  BY <1>1, <1>3, <1>4, <1>5, <1>6 DEF Ascending
<1>. QED  BY <1>1, <1>4, <1>7, <1>8 DEF r

\* The counters, the item in hand and the queue keep their order; the first two
\* cases of QueueStep leave the hand alone or empty it.
LEMMA NumbersGrowStep ==
  ASSUME IInv, NumbersGrow, [Next]_vars
  PROVE  NumbersGrow'
<1>. USE DEF NumbersGrow
<1>1. /\ queue \in Seq(Work) /\ work \in Work /\ attempts \in Nat /\ gens \in [Source -> Nat]
      /\ work.attempt \in Nat /\ work.gens \in [Source -> Nat]
      /\ HandAttempt \in Nat /\ fuserGens \in [Source -> Nat]
  BY DEF IInv, TypeOK, WorkerTypes, CallerTypes, FuserTypes, Work, HandAttempt
<1>2. fuserGens' = fuserGens \/ (wpc = "work" /\ fuserGens' = work.gens)
  <2>1. CASE FuseWork
    BY <2>1, FuseReachesMark DEF FuserMark, Mark, FuseWork, Fuse, FuseBump, FuseLiveness,
      FuseRejectedBatch, FuseAcceptedBatch, FuseObservations, FuseStop
  <2>2. CASE ~FuseWork
    BY <2>2 DEF Next, vars, Call, CallRaises, FinishCall, MixedMode, Submit, SubmitBatch,
      AdvanceLiveness, RejectedReceipt, BumpGeneration, EndCall, Worker, Get, Publish,
      TaskDone, Raise, RaiseTaskDone, RecordFailure, Discard, DiscardEmpty, Main,
      MainProceeds, MainUnchanged, Start, Quiesce, IdleJoin, IdleJoined, IdleRaises,
      IdleReturns, ShutdownUnstarted, ShutdownCheck, ShutdownPut, ShutdownJoined,
      ShutdownClose, fuserVars
  <2>. QED  BY <2>1, <2>2
<1>3. \A s \in Source : fuserGens'[s] <= gens[s]
  BY <1>2
<1>4. CASE /\ UNCHANGED <<queue, attempts, buckets, gens>>
           /\ wpc' = "work" => wpc = "work" /\ work' = work
  <2>1. Ascending(queue, 0, attempts, gens)
    BY <1>1, AscendingWeaker
  <2>. QED  BY <1>1, <1>3, <1>4, <2>1 DEF HandAttempt
<1>5. CASE \E w \in Work : /\ queue' = Append(queue, w)
                           /\ Follows(SubmitMark, w) /\ SubmitMark' = Mark(w)
                           /\ wpc' = wpc /\ work' = work
  <2>. PICK w \in Work : /\ queue' = Append(queue, w)
                         /\ Follows(SubmitMark, w) /\ SubmitMark' = Mark(w)
                         /\ wpc' = wpc /\ work' = work
    BY <1>5
  <2>1. attempts' = w.attempt /\ gens' = w.gens
    BY DEF SubmitMark, Mark
  <2>2. /\ w.attempt \in Nat /\ w.gens \in [Source -> Nat] /\ w.source \in Source
        /\ w.attempt >= attempts /\ (Attempt(w) => w.attempt > attempts)
        /\ \A s \in Source : w.gens[s] >= gens[s]
    <3>1. w.attempt \in Nat /\ w.gens \in [Source -> Nat] /\ w.source \in Source
      BY DEF Work
    <3>2. w.attempt >= attempts /\ (Attempt(w) => w.attempt > attempts)
      BY <1>1 DEF Follows, SubmitMark, Attempt
    <3>3. w.gens = gens \/ w.gens = [gens EXCEPT ![w.source] = @ + 1]
      BY DEF Follows, SubmitMark
    <3>4. ASSUME NEW s \in Source PROVE w.gens[s] >= gens[s]
      <4>1. gens[s] \in Nat
        BY <1>1
      <4>2. CASE w.gens = gens
        BY <4>1, <4>2
      <4>3. CASE w.gens = [gens EXCEPT ![w.source] = @ + 1]
        <5>1. w.gens[s] = IF s = w.source THEN gens[s] + 1 ELSE gens[s]
          BY <1>1, <4>3
        <5>. QED  BY <4>1, <5>1
      <4>. QED  BY <3>3, <4>2, <4>3
    <3>. QED  BY <3>1, <3>2, <3>4
  <2>3. Ascending(queue', HandAttempt, attempts', gens')
    BY <1>1, <2>1, <2>2, AscendingAppend
  <2>4. HandAttempt' = HandAttempt
    BY DEF HandAttempt
  <2>5. HandAttempt <= w.attempt
    BY <1>1, <2>2
  <2>6. \A s \in Source : /\ fuserGens'[s] \in Nat /\ fuserGens'[s] <= w.gens[s]
                          /\ wpc = "work" => work.gens[s] <= w.gens[s]
    <3>1. fuserGens' \in [Source -> Nat]
      BY <1>1, <1>2
    <3>. QED  BY <1>1, <1>3, <2>2, <3>1
  <2>. QED  BY <2>1, <2>3, <2>4, <2>5, <2>6
<1>6. CASE /\ queue # <<>> /\ queue' = Tail(queue)
           /\ UNCHANGED <<attempts, buckets, gens>>
           /\ wpc' = "work" => work' = Head(queue)
  <2>1. /\ Ascending(Tail(queue), 0, attempts, gens)
        /\ Ascending(Tail(queue), Head(queue).attempt, attempts, gens)
        /\ Head(queue).attempt <= attempts /\ \A s \in Source : Head(queue).gens[s] <= gens[s]
    <3>1. Ascending(queue, 0, attempts, gens)
      BY <1>1, AscendingWeaker
    <3>. QED  BY <1>1, <1>6, <3>1, AscendingTail
  <2>. QED  BY <1>1, <1>3, <1>6, <2>1 DEF HandAttempt
<1>. QED  BY <1>4, <1>5, <1>6, QueueStep

-----------------------------------------------------------------------------
(* Tracklets.  The worker makes them under its own generations, which may   *)
(* lag behind the callers'.                                                 *)

MadeByFuser ==
  /\ \A t \in observed \cup pending : t[2] <= fuserGens[t[1]]
  /\ assigned \subseteq observed

\* Only a step of the fuser changes what it knows.
LEMMA FuserRests ==
  ASSUME [Next]_vars, ~FuseWork
  PROVE  UNCHANGED fuserVars
BY DEF Next, vars, Call, CallRaises, FinishCall, MixedMode, Submit, SubmitBatch,
  AdvanceLiveness, RejectedReceipt, BumpGeneration, EndCall, Worker, Get, Publish,
  TaskDone, Raise, RaiseTaskDone, RecordFailure, Discard, DiscardEmpty, Main,
  MainProceeds, MainUnchanged, Start, Quiesce, IdleJoin, IdleJoined, IdleRaises,
  IdleReturns, ShutdownUnstarted, ShutdownCheck, ShutdownPut, ShutdownJoined,
  ShutdownClose

\* What a step of the fuser adds to what it knows are tracklets of its own
\* generations, and of the batch's sources; it assigns only tracklets it keeps.
LEMMA FuserLearns ==
  ASSUME TypeOK, MadeByFuser, FuseWork
  PROVE  /\ assigned' \subseteq observed'
         /\ \/ observed' \cup pending' \subseteq observed \cup pending
            \/ /\ FuseAcceptedBatch
               /\ observed' \cup pending' \subseteq
                    observed \cup pending \cup TrackletsNow(Source)
            \/ /\ FuseObservations
               /\ observed' \cup pending' \subseteq
                    observed \cup pending \cup TrackletsNow({work.source})
<1>. USE DEF MadeByFuser
<1>1. CASE FuseBump
  BY <1>1 DEF FuseBump
<1>2. CASE FuseLiveness
  BY <1>2 DEF FuseLiveness, Retain
<1>3. CASE FuseRejectedBatch
  BY <1>3 DEF FuseRejectedBatch, Retain
<1>4. CASE FuseAcceptedBatch
  BY <1>4 DEF FuseAcceptedBatch, Retain
<1>5. CASE FuseObservations
  BY <1>5 DEF FuseObservations
<1>6. CASE FuseStop
  BY <1>6 DEF FuseStop, Retain
<1>. QED  BY <1>1, <1>2, <1>3, <1>4, <1>5, <1>6 DEF FuseWork

LEMMA TrackletsNowType ==
  ASSUME TypeOK, NEW sources \in SUBSET Source, NEW t \in TrackletsNow(sources)
  PROVE  /\ t \in Tracklet /\ t[1] \in sources /\ t[2] = fuserGens[t[1]]
         /\ t = <<t[1], fuserGens[t[1]], t[3]>> /\ t[3] \in Object
BY DEF TrackletsNow, Tracklet, TypeOK, FuserTypes

LEMMA FuserGensGrow ==
  ASSUME TypeOK, FuseWork
  PROVE  \A s \in Source : fuserGens'[s] \in Nat /\ fuserGens'[s] >= fuserGens[s]
<1>1. fuserGens \in [Source -> Nat]
  BY DEF TypeOK, FuserTypes
<1>2. fuserGens' = fuserGens \/ fuserGens' = [fuserGens EXCEPT ![work.source] = @ + 1]
  BY DEF FuseWork, FuseBump, FuseLiveness, FuseRejectedBatch, FuseAcceptedBatch,
    FuseObservations, FuseStop
<1>3. CASE fuserGens' = [fuserGens EXCEPT ![work.source] = @ + 1]
  <2>1. \A s \in Source :
          fuserGens'[s] = IF s = work.source THEN fuserGens[s] + 1 ELSE fuserGens[s]
    BY <1>1, <1>3
  <2>. QED  BY <1>1, <2>1
<1>4. CASE fuserGens' = fuserGens
  BY <1>1, <1>4
<1>. QED  BY <1>2, <1>3, <1>4

LEMMA MadeByFuserStep ==
  ASSUME IInv, MadeByFuser, [Next]_vars
  PROVE  MadeByFuser'
<1>1. /\ TypeOK /\ fuserGens \in [Source -> Nat]
      /\ \A t \in observed \cup pending : t[1] \in Source /\ t[2] \in Nat
  BY DEF IInv, TypeOK, FuserTypes, Tracklet
<1>2. CASE ~FuseWork
  BY <1>2, FuserRests DEF fuserVars, MadeByFuser
<1>3. CASE FuseWork
  <2>1. \A s \in Source : fuserGens'[s] \in Nat /\ fuserGens'[s] >= fuserGens[s]
    BY <1>1, <1>3, FuserGensGrow
  <2>2. ASSUME NEW t \in observed \cup pending PROVE t[2] <= fuserGens'[t[1]]
    BY <1>1, <2>1 DEF MadeByFuser
  <2>3. ASSUME NEW sources \in SUBSET Source, NEW t \in TrackletsNow(sources)
        PROVE  t[2] <= fuserGens'[t[1]]
    <3>1. t[1] \in Source /\ t[2] = fuserGens[t[1]]
      BY <1>1, TrackletsNowType
    <3>. QED  BY <1>1, <2>1, <3>1
  <2>4. {work.source} \in SUBSET Source
    BY <1>1 DEF TypeOK, WorkerTypes, Work
  <2>. QED  BY <1>1, <1>3, <2>2, <2>3, <2>4, FuserLearns DEF MadeByFuser
<1>. QED  BY <1>2, <1>3

\* The published snapshot after a step.
LEMMA SnapshotMoves ==
  ASSUME [Next]_vars
  PROVE  \/ UNCHANGED <<gens, snapshot>>
         \/ Publish
         \/ \E s \in Source : BumpGeneration(s)
BY DEF Next, vars, submitVars, Call, CallRaises, FinishCall, MixedMode, Submit,
  SubmitBatch, AdvanceLiveness, RejectedReceipt, Worker, WorkerUnchanged, Get,
  FuseWork, Fuse, FuseBump, FuseLiveness, FuseRejectedBatch, FuseAcceptedBatch,
  FuseObservations, FuseStop, TaskDone, Raise, RaiseTaskDone, RecordFailure, Discard,
  DiscardEmpty, Main, MainProceeds, MainUnchanged, Start, Quiesce, IdleJoin,
  IdleJoined, IdleRaises, IdleReturns, ShutdownUnstarted, ShutdownCheck,
  ShutdownPut, ShutdownJoined, ShutdownClose

LEMMA IdsWaitStep ==
  ASSUME IInv, MadeByFuser, NoIdBeforeBumpApplied, [Next]_vars
  PROVE  NoIdBeforeBumpApplied'
<1>. USE DEF NoIdBeforeBumpApplied
<1>1. /\ TypeOK /\ fuserGens \in [Source -> Nat] /\ gens \in [Source -> Nat]
      /\ \A t \in assigned : t[1] \in Source /\ t[2] \in Nat /\ t[2] <= fuserGens[t[1]]
  BY DEF IInv, TypeOK, FuserTypes, CallerTypes, Tracklet, MadeByFuser
<1>2. CASE FuseWork
  <2>1. UNCHANGED <<gens, snapshot>>
    BY <1>2 DEF FuseWork, Fuse, FuseBump, FuseLiveness, FuseRejectedBatch, FuseAcceptedBatch,
      FuseObservations, FuseStop, WorkerUnchanged, submitVars
  <2>2. \A s \in Source : fuserGens'[s] \in Nat /\ fuserGens'[s] >= fuserGens[s]
    BY <1>1, <1>2, FuserGensGrow
  <2>. QED  BY <1>1, <2>1, <2>2
<1>3. CASE ~FuseWork
  <2>1. fuserGens' = fuserGens /\ assigned' = assigned
    BY <1>3, FuserRests DEF fuserVars
  <2>2. CASE UNCHANGED <<gens, snapshot>>
    BY <2>1, <2>2
  <2>3. CASE Publish
    <3>1. snapshot'.ids = CurrentOnly(assigned, gens) /\ gens' = gens
      BY <2>3 DEF Publish, WorkerUnchanged, submitVars
    <3>. QED  BY <1>1, <2>1, <3>1 DEF CurrentOnly
  <2>4. ASSUME NEW s \in Source, BumpGeneration(s) PROVE NoIdBeforeBumpApplied'
    <3>1. /\ gens' = [gens EXCEPT ![s] = @ + 1]
          /\ snapshot'.ids = {t \in snapshot.ids : t[1] # s}
      BY <2>4 DEF BumpGeneration
    <3>2. \A r \in Source : gens'[r] = IF r = s THEN gens[r] + 1 ELSE gens[r]
      BY <1>1, <3>1
    <3>. QED  BY <2>1, <3>1, <3>2
  <2>. QED  BY <2>2, <2>3, <2>4, SnapshotMoves
<1>. QED  BY <1>2, <1>3

\* A source whose reconnect the worker has not applied yet has no published
\* identity, whatever the worker publishes in between.
THEOREM NoIdEarly == Spec => []NoIdBeforeBumpApplied
<1>1. Init => MadeByFuser /\ NoIdBeforeBumpApplied
  BY DEF Init, MadeByFuser, NoIdBeforeBumpApplied
<1>2. IInv /\ MadeByFuser /\ NoIdBeforeBumpApplied /\ [Next]_vars
        => MadeByFuser' /\ NoIdBeforeBumpApplied'
  BY MadeByFuserStep, IdsWaitStep
<1>. QED  BY <1>1, <1>2, Inductive, PTL DEF Spec

-----------------------------------------------------------------------------
(* Shutdown.                                                                *)

\* The worker returned on the stop marker.
LeftLoop == wpc = "exited" /\ ~failure

StopInHand == wpc \in {"work", "publish", "task_done"} /\ work.kind = "stop"

\* The stop marker is the last item ever queued once the pipeline is NULL.
StopComesLast ==
  /\ \A i \in 1..Len(queue) : queue[i].kind = "stop" => i = Len(queue)
  /\ StopInHand \/ LeftLoop => queue = <<>>

Stopping == LeftLoop \/ StopInHand \/ \E i \in 1..Len(queue) : queue[i].kind = "stop"

ShutdownInv ==
  /\ quiesced => ~inCall /\ mpc # "new"
  /\ wpc = "draining" => failure
  /\ failure => wpc \in {"draining", "exited"}
  /\ Stopping => mpc \in {"stop_join", "thread_join", "stopped"}
  /\ quiesced => StopComesLast
  /\ quiesced /\ LeftLoop => processed = buckets
  /\ mpc # "stopped" => json = {}
  /\ mpc = "stopped" /\ quiesced => wpc = "exited"
  /\ ShutdownMapComplete

\* Where the last item of a queue that gets one more stands.
LEMMA StopAppended ==
  ASSUME NEW q \in Seq(Work), NEW w \in Work
  PROVE  /\ Append(q, w) # <<>> /\ Len(Append(q, w)) = Len(q) + 1 /\ Len(q) \in Nat
         /\ \A i \in 1..Len(q) + 1 : Append(q, w)[i] = IF i = Len(q) + 1 THEN w ELSE q[i]
         /\ \A i \in 1..Len(q) + 1 : i = Len(q) + 1 \/ i \in 1..Len(q)
<1>1. Len(q) \in Nat
  BY LenProperties
<1>2. \A i \in 1..Len(q) + 1 : i = Len(q) + 1 \/ i \in 1..Len(q)
  BY <1>1
<1>. QED  BY <1>1, <1>2, AppendProperties

LEMMA StopTaken ==
  ASSUME NEW q \in Seq(Work), q # <<>>
  PROVE  /\ Head(q) = q[1] /\ 1 \in 1..Len(q) /\ Len(q) \in Nat
         /\ Len(Tail(q)) = Len(q) - 1
         /\ \A i \in 1..Len(q) - 1 : Tail(q)[i] = q[i + 1] /\ i + 1 \in 1..Len(q)
         /\ Len(q) = 1 => Tail(q) = <<>>
<1>0. Tail(q) \in Seq(Work)
  BY HeadTailProperties
<1>1. Len(q) \in Nat /\ Len(q) # 0
  BY LenProperties, EmptySeq
<1>2. \A i \in 1..Len(q) - 1 : i + 1 \in 1..Len(q)
  BY <1>1
<1>3. 1 \in 1..Len(q)
  BY <1>1
<1>4. /\ Head(q) = q[1] /\ Len(Tail(q)) = Len(q) - 1
      /\ \A i \in 1..Len(q) - 1 : Tail(q)[i] = q[i + 1]
  BY HeadTailProperties
<1>5. Len(q) = 1 => Tail(q) = <<>>
  <2>1. Tail(q) = <<>> <=> Len(Tail(q)) = 0
    BY <1>0, EmptySeq
  <2>2. Len(q) = 1 => Len(Tail(q)) = 0
    BY <1>1, <1>4
  <2>. QED  BY <2>1, <2>2
<1>. QED  BY <1>1, <1>2, <1>3, <1>4, <1>5

LEMMA ShutdownCallStep ==
  ASSUME IInv, ShutdownInv, Call \/ CallRaises \/ FinishCall
  PROVE  ShutdownInv'
<1>. USE DEF ShutdownInv, Stopping, LeftLoop, StopInHand, StopComesLast, ShutdownMapComplete
<1>1. CASE Call \/ CallRaises
  BY <1>1 DEF Call, CallRaises, submitVars, fuserVars, mainVars
<1>2. CASE FinishCall
  <2>1. inCall /\ ~quiesced /\ UNCHANGED <<failure, wpc, work, processed, mainVars, surfaced>>
    BY <1>2 DEF FinishCall, EndCall, MixedMode, Submit, SubmitBatch, AdvanceLiveness,
      RejectedReceipt, BumpGeneration, fuserVars
  <2>2. Stopping' => Stopping
    <3>1. CASE queue' = queue
      BY <2>1, <3>1
    <3>2. ASSUME NEW w \in Work, Put(w), w.kind # "stop" PROVE Stopping' => Stopping
      <4>1. queue \in Seq(Work) /\ queue' = Append(queue, w)
        BY <3>2 DEF Put, IInv, TypeOK, WorkerTypes
      <4>. QED  BY <2>1, <3>2, <4>1, StopAppended
    <3>. QED  BY <1>2, <3>1, <3>2, PutType DEF IInv
  <2>. QED  BY <2>1, <2>2 DEF mainVars
<1>. QED  BY <1>1, <1>2

LEMMA ShutdownWorkerStep ==
  ASSUME IInv, ShutdownInv, Worker
  PROVE  ShutdownInv'
<1>. USE DEF ShutdownInv, Stopping, LeftLoop, StopInHand, StopComesLast, ShutdownMapComplete
<1>0. UNCHANGED <<inCall, mpc, quiesced, json, buckets, surfaced>> /\ queue \in Seq(Work)
  BY DEF Worker, WorkerUnchanged, Get, FuseWork, Fuse, FuseBump, FuseLiveness,
    FuseRejectedBatch, FuseAcceptedBatch, FuseObservations, FuseStop, Publish, TaskDone,
    Raise, RaiseTaskDone, RecordFailure, Discard, DiscardEmpty, submitVars, mainVars,
    IInv, TypeOK, WorkerTypes
<1>1. CASE Get
  <2>1. /\ wpc = "get" /\ queue # <<>> /\ wpc' = "work" /\ work' = Head(queue)
        /\ queue' = Tail(queue) /\ failure' = failure
    BY <1>1 DEF Get, WorkerUnchanged
  <2>. QED  BY <1>0, <2>1, StopTaken
<1>2. CASE FuseWork
  <2>1. wpc = "work" /\ wpc' = "publish" /\ UNCHANGED <<queue, work, failure>>
    BY <1>2 DEF FuseWork, Fuse, FuseBump, FuseLiveness, FuseRejectedBatch, FuseAcceptedBatch,
      FuseObservations, FuseStop, WorkerUnchanged
  <2>. QED  BY <1>0, <2>1
<1>3. CASE Publish
  <2>1. wpc = "publish" /\ wpc' = "task_done" /\ UNCHANGED <<queue, work, failure>>
    BY <1>3 DEF Publish, WorkerUnchanged
  <2>. QED  BY <1>0, <2>1
<1>4. CASE TaskDone
  <2>1. /\ wpc = "task_done" /\ UNCHANGED <<queue, failure, processed>>
        /\ wpc' = IF work.kind = "stop" THEN "exited" ELSE "get"
    BY <1>4 DEF TaskDone, WorkerUnchanged, fuserVars
  <2>2. ASSUME quiesced, work.kind = "stop" PROVE queue = <<>> /\ processed = buckets
    <3>1. queue = <<>>
      BY <2>1, <2>2
    <3>2. Line(FuserMark, queue, SubmitMark)
      BY <2>1 DEF IInv, LineInv, UnbrokenLine, HandMark, Healthy
    <3>3. SubmitMark = FuserMark
      BY <3>1, <3>2 DEF Line
    <3>. QED  BY <3>1, <3>3 DEF SubmitMark, FuserMark
  <2>. QED  BY <1>0, <2>1, <2>2
<1>5. CASE Raise \/ RaiseTaskDone
  <2>1. /\ wpc \in {"work", "publish", "raising"} /\ wpc' \in {"raising", "unwinding"}
        /\ UNCHANGED <<queue, failure>>
    BY <1>5 DEF Raise, RaiseTaskDone, WorkerUnchanged
  <2>. QED  BY <1>0, <2>1
<1>6. CASE RecordFailure
  <2>1. wpc = "unwinding" /\ wpc' = "draining" /\ failure' = TRUE /\ queue' = queue
    BY <1>6 DEF RecordFailure
  <2>. QED  BY <1>0, <2>1
<1>7. CASE Discard
  <2>1. /\ wpc = "draining" /\ wpc' = wpc /\ failure' = failure
        /\ queue # <<>> /\ queue' = Tail(queue)
    BY <1>7 DEF Discard, WorkerUnchanged
  <2>. QED  BY <1>0, <2>1, StopTaken
<1>8. CASE DiscardEmpty
  <2>1. wpc = "draining" /\ wpc' = "exited" /\ UNCHANGED <<queue, failure>>
    BY <1>8 DEF DiscardEmpty, WorkerUnchanged
  <2>. QED  BY <1>0, <2>1
<1>. QED  BY <1>1, <1>2, <1>3, <1>4, <1>5, <1>6, <1>7, <1>8 DEF Worker

LEMMA ShutdownMainStep ==
  ASSUME IInv, NotStarted, ShutdownInv, Main
  PROVE  ShutdownInv'
<1>. USE DEF ShutdownInv, Stopping, LeftLoop, StopInHand, StopComesLast, ShutdownMapComplete
<1>0. UNCHANGED <<inCall, failure, work, processed, buckets>> /\ queue \in Seq(Work)
  BY DEF Main, MainProceeds, MainUnchanged, Start, Quiesce, IdleJoin, IdleJoined,
    IdleRaises, IdleReturns, ShutdownUnstarted, ShutdownCheck, ShutdownPut, ShutdownJoined,
    ShutdownClose, submitVars, fuserVars, IInv, TypeOK, WorkerTypes
<1>1. CASE Start
  BY <1>0, <1>1 DEF Start, NotStarted
<1>2. CASE Quiesce
  BY <1>0, <1>2 DEF Quiesce
<1>3. CASE IdleJoin \/ IdleJoined \/ IdleRaises \/ IdleReturns
  BY <1>0, <1>3 DEF IdleJoin, IdleJoined, IdleRaises, IdleReturns
<1>4. CASE ShutdownUnstarted
  BY <1>0, <1>4 DEF ShutdownUnstarted
<1>5. CASE ShutdownCheck
  BY <1>0, <1>5 DEF ShutdownCheck
<1>6. CASE ShutdownPut
  <2>1. StopWork \in Work
    BY StopWorkType DEF IInv, TypeOK
  <2>2. /\ mpc = "stop_put" /\ mpc' = "stop_join" /\ queue' = Append(queue, StopWork)
        /\ UNCHANGED <<wpc, quiesced, json, surfaced>>
    BY <1>6 DEF ShutdownPut, Put
  <2>. QED  BY <1>0, <2>1, <2>2, StopAppended
<1>7. CASE ShutdownJoined
  BY <1>0, <1>7 DEF ShutdownJoined
<1>8. CASE ShutdownClose
  BY <1>0, <1>8 DEF ShutdownClose
<1>. QED  BY <1>1, <1>2, <1>3, <1>4, <1>5, <1>6, <1>7, <1>8 DEF Main, MainProceeds

LEMMA ShutdownInvariant == Spec => []ShutdownInv
<1>1. Init => ShutdownInv
  <2>1. Len(<<>>) = 0
    BY EmptySeq
  <2>. QED  BY <2>1 DEF Init, ShutdownInv, Stopping, LeftLoop, StopInHand, StopComesLast,
              ShutdownMapComplete
<1>2. ASSUME IInv, NotStarted, ShutdownInv, [Next]_vars PROVE ShutdownInv'
  <2>1. CASE UNCHANGED vars
    BY <1>2, <2>1 DEF vars, submitVars, fuserVars, mainVars, ShutdownInv, Stopping, LeftLoop,
      StopInHand, StopComesLast, ShutdownMapComplete
  <2>. QED  BY <1>2, <2>1, ShutdownCallStep, ShutdownWorkerStep, ShutdownMainStep DEF Next
<1>3. Accounted => NotStarted
  BY DEF Accounted
<1>. QED  BY <1>1, <1>2, <1>3, Accounting, Inductive, PTL DEF Spec

\* A shutdown after the pipeline went to NULL either raises the worker's failure
\* and writes nothing, or writes a map that covers every batch a caller was told
\* is accepted: the stop marker is the last item, and the worker applied all
\* the others before it.
THEOREM ShutdownComplete == Spec => []ShutdownMapComplete
BY ShutdownInvariant, PTL DEF ShutdownInv

-----------------------------------------------------------------------------
(* The runtime implements MtmcService.                                      *)

ServiceInv == IInv /\ NotStarted /\ NumbersGrow /\ MadeByFuser /\ ShutdownInv

LEMMA ServiceInvariant == Spec => []ServiceInv
<1>1. Init => NumbersGrow /\ MadeByFuser
  <2>1. Len(<<>>) = 0
    BY EmptySeq
  <2>. QED  BY <2>1 DEF Init, NumbersGrow, Ascending, HandAttempt, MadeByFuser
<1>2. IInv /\ NumbersGrow /\ MadeByFuser /\ [Next]_vars => NumbersGrow' /\ MadeByFuser'
  BY NumbersGrowStep, MadeByFuserStep
<1>3. Accounted => NotStarted
  BY DEF Accounted
<1>. QED  BY <1>1, <1>2, <1>3, Accounting, Inductive, ShutdownInvariant, PTL DEF Spec, ServiceInv

\* The receipts of the attempts in a queue.
Receipts(q) == {Receipt(q[i]) : i \in {j \in 1..Len(q) : Attempt(q[j])}}

LEMMA ReceiptsAppend ==
  ASSUME NEW q \in Seq(Work), NEW w \in Work
  PROVE  Receipts(Append(q, w)) = Receipts(q) \cup (IF Attempt(w) THEN {Receipt(w)} ELSE {})
<1>. DEFINE r == Append(q, w)  n == Len(q)
<1>1. /\ n \in Nat /\ Len(r) = n + 1 /\ r[n + 1] = w /\ \A i \in 1..n : r[i] = q[i]
  BY AppendProperties, LenProperties
<1>2. Receipts(r) = {Receipt(r[i]) : i \in {j \in 1..n + 1 : Attempt(r[j])}}
  BY <1>1 DEF Receipts
<1>3. Receipts(q) = {Receipt(q[i]) : i \in {j \in 1..n : Attempt(q[j])}}
  BY DEF Receipts
<1>. HIDE DEF r, n
<1>4. \A i \in 1..n + 1 : i \in 1..n \/ i = n + 1
  BY <1>1
<1>5. n + 1 \in 1..n + 1 /\ \A i \in 1..n : i \in 1..n + 1
  BY <1>1
<1>6. Receipts(r) = Receipts(q) \cup (IF Attempt(w) THEN {Receipt(w)} ELSE {})
  BY <1>1, <1>2, <1>3, <1>4, <1>5
<1>. QED  BY <1>6 DEF r

LEMMA ReceiptsTail ==
  ASSUME NEW q \in Seq(Work), q # <<>>
  PROVE  Receipts(q) = Receipts(Tail(q))
                         \cup (IF Attempt(Head(q)) THEN {Receipt(Head(q))} ELSE {})
<1>. DEFINE r == Tail(q)  n == Len(q)
<1>1. /\ n \in Nat /\ 1 \in 1..n /\ Head(q) = q[1] /\ Len(r) = n - 1
      /\ \A i \in 1..n - 1 : r[i] = q[i + 1] /\ i + 1 \in 1..n
  BY StopTaken
<1>2. Receipts(r) = {Receipt(r[i]) : i \in {j \in 1..n - 1 : Attempt(r[j])}}
  BY <1>1 DEF Receipts
<1>3. Receipts(q) = {Receipt(q[i]) : i \in {j \in 1..n : Attempt(q[j])}}
  BY DEF Receipts
<1>. HIDE DEF r, n
<1>4. ASSUME NEW i \in 1..n, i # 1 PROVE i - 1 \in 1..n - 1 /\ q[i] = r[i - 1]
  <2>1. i - 1 \in 1..n - 1 /\ i = (i - 1) + 1
    BY <1>1, <1>4
  <2>. QED  BY <1>1, <2>1
<1>5. Receipts(q) \subseteq Receipts(r) \cup (IF Attempt(q[1]) THEN {Receipt(q[1])} ELSE {})
  BY <1>2, <1>3, <1>4
<1>6. Receipts(r) \subseteq Receipts(q)
  BY <1>1, <1>2, <1>3
<1>7. Attempt(q[1]) => Receipt(q[1]) \in Receipts(q)
  BY <1>1, <1>3
<1>. QED  BY <1>1, <1>5, <1>6, <1>7 DEF r

Over == mpc = "stopped" /\ quiesced

\* What the service's status and outstanding receipts are, before and after a step.
LEMMA StatusIs ==
  /\ Status = IF Failed THEN "failed" ELSE IF Over THEN "stopped" ELSE "running"
  /\ Status' = IF Failed' THEN "failed" ELSE IF Over' THEN "stopped" ELSE "running"
BY DEF Status, Over

LEMMA OutstandingIs ==
  /\ Outstanding =
       IF Failed THEN {}
       ELSE Receipts(queue)
              \cup IF wpc = "work" /\ Attempt(work) THEN {Receipt(work)} ELSE {}
  /\ Outstanding' =
       IF Failed' THEN {}
       ELSE Receipts(queue')
              \cup IF wpc' = "work" /\ Attempt(work') THEN {Receipt(work')} ELSE {}
BY DEF Outstanding, Receipts

\* Seven things make up what callers see of the service.
LEMMA ServiceStutter ==
  ASSUME UNCHANGED <<attempts, attempted, gens, observed, pending, snapshot>>,
         Outstanding' = Outstanding, Status' = Status
  PROVE  UNCHANGED Service!vars
BY DEF Service!vars

\* A caller inside the lock: the service has not stopped, and no step of a call
\* changes where the worker and the main thread stand.
LEMMA CallContext ==
  ASSUME ServiceInv, Call \/ CallRaises \/ FinishCall
  PROVE  /\ UNCHANGED <<failure, wpc, work, mpc, quiesced, Failed, Over, Status>>
         /\ UNCHANGED <<attempted, observed, pending>>
         /\ FinishCall => Status # "stopped"
<1>1. UNCHANGED <<failure, wpc, work, mpc, quiesced, attempted, observed, pending>>
  BY DEF Call, CallRaises, FinishCall, MixedMode, Submit, SubmitBatch, AdvanceLiveness,
    RejectedReceipt, BumpGeneration, EndCall, fuserVars, mainVars
<1>2. Failed' = Failed /\ Over' = Over
  BY <1>1 DEF Failed, Over
<1>3. FinishCall => ~quiesced
  BY DEF FinishCall, MixedMode, Submit, SubmitBatch, AdvanceLiveness,
    RejectedReceipt, BumpGeneration, EndCall, ServiceInv, ShutdownInv
<1>. QED  BY <1>1, <1>2, <1>3, StatusIs DEF Over

LEMMA CallServes ==
  ASSUME ServiceInv, Call \/ CallRaises \/ FinishCall
  PROVE  Service!Next \/ UNCHANGED Service!vars
<1>0. TypeOK /\ SnapshotNeverStale /\ queue \in Seq(Work)
  BY DEF ServiceInv, IInv, TypeOK, WorkerTypes
<1>1. CASE Call \/ CallRaises \/ MixedMode \/ RejectedReceipt
  <2>1. UNCHANGED <<attempts, gens, snapshot, queue>>
    BY <1>1 DEF Call, CallRaises, MixedMode, RejectedReceipt, submitVars
  <2>. QED  BY <1>1, <2>1, CallContext, OutstandingIs, ServiceStutter
<1>2. CASE Submit
  <2>. PICK s \in Source :
         Put(NewWork("observations", s, "complete", FALSE, attempts, buckets, gens))
    BY <1>2 DEF Submit
  <2>. DEFINE w == NewWork("observations", s, "complete", FALSE, attempts, buckets, gens)
  <2>1. w \in Work
    BY <1>0, NewWorkType DEF TypeOK, CallerTypes, Frames
  <2>2. ~Attempt(w)
    BY DEF NewWork, Attempt
  <2>3. queue' = Append(queue, w) /\ UNCHANGED <<attempts, gens, snapshot>>
    BY <1>2 DEF Submit, Put
  <2>. HIDE DEF w
  <2>4. Receipts(queue') = Receipts(queue)
    BY <1>0, <2>1, <2>2, <2>3, ReceiptsAppend
  <2>. QED  BY <1>2, <2>3, <2>4, CallContext, OutstandingIs, ServiceStutter DEF FinishCall
<1>3. ASSUME NEW w \in Work, NEW accepted \in BOOLEAN, queue' = Append(queue, w), Attempt(w),
             Receipt(w) = [attempt |-> attempts + 1, accepted |-> accepted, gens |-> gens],
             attempts' = attempts + 1, UNCHANGED <<gens, snapshot>>, FinishCall
      PROVE  Service!Issue(accepted)
  <2>1. Receipts(queue') = Receipts(queue) \cup {Receipt(w)}
    BY <1>0, <1>3, ReceiptsAppend
  <2>2. Outstanding' = IF Status = "failed" THEN Outstanding
                       ELSE Outstanding \cup {Receipt(w)}
    BY <1>3, <2>1, CallContext, OutstandingIs, StatusIs
  <2>. QED  BY <1>3, <2>2, CallContext DEF Service!Issue
<1>4. ASSUME NEW frames \in Frames, SubmitBatch(frames) PROVE Service!Next
  <2>. DEFINE w == NewWork("batch", AnySource, frames, Accepts(frames), attempts', buckets',
                           snapshot.gens)
  <2>1. /\ attempts' = attempts + 1 /\ queue' = Append(queue, w) /\ UNCHANGED <<gens, snapshot>>
        /\ snapshot.gens = gens
    BY <1>0, <1>4 DEF SubmitBatch, Put, SnapshotNeverStale
  <2>2. w \in Work
    <3>1. /\ attempts' \in Nat /\ buckets' \in Nat /\ snapshot.gens \in [Source -> Nat]
          /\ Accepts(frames) \in BOOLEAN
      BY <1>0, <1>4 DEF SubmitBatch, TypeOK, CallerTypes, Accepts
    <3>. QED  BY <3>1, NewWorkType, AnySourceType
  <2>3. /\ Attempt(w)
        /\ Receipt(w) = [attempt |-> attempts + 1, accepted |-> Accepts(frames), gens |-> gens]
    BY <2>1 DEF NewWork, Attempt, Receipt
  <2>4. Accepts(frames) \in BOOLEAN
    BY DEF Accepts
  <2>. HIDE DEF w
  <2>5. Service!Issue(Accepts(frames))
    BY <1>3, <1>4, <2>1, <2>2, <2>3, <2>4 DEF FinishCall
  <2>. QED  BY <2>4, <2>5 DEF Service!Next
<1>5. ASSUME AdvanceLiveness PROVE Service!Next
  <2>. DEFINE w == NewWork("liveness", AnySource, "complete", FALSE, attempts', buckets,
                           snapshot.gens)
  <2>1. /\ attempts' = attempts + 1 /\ queue' = Append(queue, w) /\ UNCHANGED <<gens, snapshot>>
        /\ snapshot.gens = gens
    BY <1>0, <1>5 DEF AdvanceLiveness, Put, SnapshotNeverStale
  <2>2. w \in Work
    <3>1. /\ attempts' \in Nat /\ buckets \in Nat /\ snapshot.gens \in [Source -> Nat]
          /\ "complete" \in Frames
      BY <1>0, <1>5 DEF AdvanceLiveness, TypeOK, CallerTypes, Frames
    <3>. QED  BY <3>1, NewWorkType, AnySourceType
  <2>3. /\ Attempt(w)
        /\ Receipt(w) = [attempt |-> attempts + 1, accepted |-> FALSE, gens |-> gens]
    BY <2>1 DEF NewWork, Attempt, Receipt
  <2>. HIDE DEF w
  <2>4. Service!Issue(FALSE)
    BY <1>3, <1>5, <2>1, <2>2, <2>3 DEF FinishCall
  <2>. QED  BY <2>4 DEF Service!Next
<1>6. ASSUME NEW s \in Source, BumpGeneration(s) PROVE Service!Next
  <2>. DEFINE w == NewWork("bump", s, "complete", FALSE, attempts, buckets, gens')
  <2>1. /\ attempts' = attempts /\ queue' = Append(queue, w)
        /\ gens' = [gens EXCEPT ![s] = @ + 1]
        /\ snapshot'.ids = {t \in snapshot.ids : t[1] # s}
    BY <1>6 DEF BumpGeneration, Put
  <2>2. w \in Work
    <3>1. gens' \in [Source -> Nat] /\ "complete" \in Frames
      BY <1>0, <2>1 DEF TypeOK, CallerTypes, Frames
    <3>. QED  BY <1>0, <3>1, NewWorkType DEF TypeOK, CallerTypes
  <2>3. ~Attempt(w)
    BY DEF NewWork, Attempt
  <2>. HIDE DEF w
  <2>4. Receipts(queue') = Receipts(queue)
    BY <1>0, <2>1, <2>2, <2>3, ReceiptsAppend
  <2>5. Outstanding' = Outstanding
    BY <1>6, <2>4, CallContext, OutstandingIs DEF FinishCall
  <2>6. Service!Bump(s)
    BY <1>6, <2>1, <2>5, CallContext DEF FinishCall, Service!Bump
  <2>. QED  BY <2>6 DEF Service!Next
<1>. QED  BY <1>1, <1>2, <1>4, <1>5, <1>6 DEF FinishCall

\* The steps of the main thread: only a shutdown that returns without raising,
\* after the pipeline went to NULL, is seen as the end of the service.
LEMMA MainServes ==
  ASSUME ServiceInv, Main
  PROVE  Service!Next \/ UNCHANGED Service!vars
<1>1. /\ UNCHANGED <<attempts, attempted, gens, observed, pending, snapshot, failure, work>>
      /\ queue \in Seq(Work)
  BY DEF Main, MainProceeds, MainUnchanged, Start, Quiesce, IdleJoin, IdleJoined,
    IdleRaises, IdleReturns, ShutdownUnstarted, ShutdownCheck, ShutdownPut, ShutdownJoined,
    ShutdownClose, submitVars, fuserVars, ServiceInv, IInv, TypeOK, WorkerTypes
<1>2. /\ wpc' = wpc \/ (wpc = "absent" /\ wpc' = "get")
      /\ Failed' = Failed
  BY <1>1 DEF Main, MainProceeds, MainUnchanged, Start, Quiesce, IdleJoin, IdleJoined,
    IdleRaises, IdleReturns, ShutdownUnstarted, ShutdownCheck, ShutdownPut, ShutdownJoined,
    ShutdownClose, ServiceInv, NotStarted, Failed
<1>3. Receipts(queue') = Receipts(queue)
  <2>1. CASE ShutdownPut
    <3>1. StopWork \in Work /\ queue' = Append(queue, StopWork)
      BY <2>1, StopWorkType DEF ShutdownPut, Put, ServiceInv, IInv, TypeOK
    <3>2. ~Attempt(StopWork)
      BY DEF StopWork, NewWork, Attempt
    <3>. QED  BY <1>1, <3>1, <3>2, ReceiptsAppend
  <2>2. CASE ~ShutdownPut
    BY <2>2 DEF Main, MainProceeds, MainUnchanged, Start, Quiesce, IdleJoin, IdleJoined,
      IdleRaises, IdleReturns, ShutdownUnstarted, ShutdownCheck, ShutdownJoined,
      ShutdownClose
  <2>. QED  BY <2>1, <2>2
<1>4. Outstanding' = Outstanding
  BY <1>1, <1>2, <1>3, OutstandingIs
<1>5. CASE ShutdownClose /\ quiesced /\ ~failure
  <2>1. wpc = "exited" /\ mpc = "thread_join" /\ mpc' = "stopped" /\ quiesced'
    BY <1>5 DEF ShutdownClose
  <2>2. queue = <<>>
    BY <1>5, <2>1 DEF ServiceInv, ShutdownInv, StopComesLast, LeftLoop
  <2>3. ~Failed /\ ~Over /\ Over'
    BY <1>5, <2>1 DEF Failed, Over
  <2>4. Receipts(queue) = {}
    <3>1. Len(<<>>) = 0
      BY EmptySeq
    <3>. QED  BY <2>2, <3>1 DEF Receipts
  <2>5. Outstanding = {}
    BY <2>1, <2>3, <2>4, OutstandingIs
  <2>6. Service!Stop
    BY <1>1, <1>2, <1>4, <2>3, <2>5, StatusIs DEF Service!Stop
  <2>. QED  BY <2>6 DEF Service!Next
<1>6. CASE ~(ShutdownClose /\ quiesced /\ ~failure)
  <2>1. Failed \/ Over' = Over
    BY <1>1, <1>6 DEF Main, MainProceeds, Start, Quiesce, IdleJoin, IdleJoined,
      IdleRaises, IdleReturns, ShutdownUnstarted, ShutdownCheck, ShutdownPut, ShutdownJoined,
      ShutdownClose, ServiceInv, ShutdownInv, Failed, Over
  <2>2. Status' = Status
    BY <1>2, <2>1, StatusIs
  <2>. QED  BY <1>1, <1>4, <2>2, ServiceStutter
<1>. QED  BY <1>5, <1>6

\* The worker before it has raised: the service runs.
LEMMA WorkerContext ==
  ASSUME ServiceInv, Worker
  PROVE  /\ UNCHANGED <<attempts, gens, mpc, quiesced, Over>> /\ queue \in Seq(Work)
         /\ Healthy => ~Failed /\ ~Over /\ Status = "running"
<1>1. UNCHANGED <<attempts, gens, mpc, quiesced>> /\ queue \in Seq(Work) /\ wpc # "absent"
  BY DEF Worker, WorkerUnchanged, Get, FuseWork, Fuse, FuseBump, FuseLiveness,
    FuseRejectedBatch, FuseAcceptedBatch, FuseObservations, FuseStop, Publish, TaskDone,
    Raise, RaiseTaskDone, RecordFailure, Discard, DiscardEmpty, submitVars, mainVars,
    ServiceInv, IInv, TypeOK, WorkerTypes
<1>2. Over' = Over
  BY <1>1 DEF Over
<1>3. Healthy => ~Failed /\ ~Over
  BY <1>1 DEF Healthy, Failed, Over, ServiceInv, ShutdownInv
<1>. QED  BY <1>1, <1>2, <1>3, StatusIs

LEMMA QuietWorkerServes ==
  ASSUME ServiceInv, Worker,
         Get \/ TaskDone \/ RaiseTaskDone \/ RecordFailure \/ Discard \/ DiscardEmpty
  PROVE  UNCHANGED Service!vars
<1>0. UNCHANGED <<attempts, attempted, gens, observed, pending, snapshot>>
  BY DEF Get, TaskDone, RaiseTaskDone, RecordFailure, Discard, DiscardEmpty,
    WorkerUnchanged, submitVars, fuserVars
<1>1. Failed' = Failed /\ (Get \/ TaskDone \/ Failed)
  BY DEF Get, TaskDone, RaiseTaskDone, RecordFailure, Discard, DiscardEmpty,
    WorkerUnchanged, Failed, ServiceInv, ShutdownInv
<1>2. Outstanding' = Outstanding
  <2>1. CASE Get
    <3>1. /\ wpc = "get" /\ wpc' = "work" /\ work' = Head(queue)
          /\ queue # <<>> /\ queue' = Tail(queue)
      BY <2>1 DEF Get
    <3>2. Receipts(queue) = Receipts(queue')
                              \cup (IF Attempt(work') THEN {Receipt(work')} ELSE {})
      BY <3>1, WorkerContext, ReceiptsTail
    <3>. QED  BY <1>1, <3>1, <3>2, OutstandingIs
  <2>2. CASE TaskDone
    <3>1. wpc = "task_done" /\ wpc' # "work" /\ queue' = queue
      BY <2>2 DEF TaskDone
    <3>. QED  BY <1>1, <3>1, OutstandingIs
  <2>3. CASE Failed
    BY <1>1, <2>3, OutstandingIs
  <2>. QED  BY <1>1, <2>1, <2>2, <2>3
<1>. QED  BY <1>0, <1>1, <1>2, WorkerContext, StatusIs, ServiceStutter

LEMMA PublishServes ==
  ASSUME ServiceInv, Worker, Publish
  PROVE  Service!Publish
<1>1. /\ wpc = "publish" /\ wpc' = "task_done" /\ snapshot'.ids = CurrentOnly(assigned, gens)
      /\ UNCHANGED <<queue, failure, attempted, observed, pending>>
  BY DEF Publish, WorkerUnchanged, fuserVars
<1>2. Healthy /\ Failed' = Failed
  BY <1>1 DEF Healthy, Failed
<1>3. Outstanding' = Outstanding /\ Status' = Status
  BY <1>1, <1>2, WorkerContext, OutstandingIs, StatusIs
<1>4. snapshot'.ids \in SUBSET Service!Current(observed \cup pending)
  BY <1>1 DEF Service!Current, CurrentOnly, ServiceInv, MadeByFuser
<1>. QED  BY <1>1, <1>2, <1>3, <1>4, WorkerContext DEF Service!Publish

LEMMA RaiseServes ==
  ASSUME ServiceInv, Worker, Raise
  PROVE  Service!Fail
<1>1. /\ Healthy /\ wpc' = "raising"
      /\ UNCHANGED <<attempted, observed, pending, snapshot>>
  BY DEF Raise, Healthy, WorkerUnchanged, fuserVars
<1>2. Failed'
  BY <1>1 DEF Failed
<1>3. Outstanding' = {} /\ Status' = "failed"
  BY <1>2, OutstandingIs, StatusIs
<1>. QED  BY <1>1, <1>3, WorkerContext DEF Service!Fail

\* The receipt in hand is none of those still queued: their numbers are larger.
LEMMA HandIsNext ==
  ASSUME ServiceInv, wpc = "work", Attempt(work)
  PROVE  Receipt(work) \notin Receipts(queue)
<1>1. queue \in Seq(Work) /\ work.attempt \in Nat
  BY DEF ServiceInv, IInv, TypeOK, WorkerTypes, Work
<1>2. \A i \in 1..Len(queue) : Attempt(queue[i]) => queue[i].attempt > work.attempt
  BY DEF ServiceInv, NumbersGrow, Ascending, HandAttempt
<1>3. ASSUME NEW i \in 1..Len(queue), Attempt(queue[i]), Receipt(queue[i]) = Receipt(work)
      PROVE  FALSE
  <2>1. Receipt(queue[i]).attempt = Receipt(work).attempt
    BY <1>3
  <2>2. queue[i].attempt = work.attempt
    BY <2>1 DEF Receipt
  <2>. QED  BY <1>1, <1>2, <1>3, <2>2
<1>. QED  BY <1>3 DEF Receipts

LEMMA FuseServes ==
  ASSUME ServiceInv, Worker, FuseWork
  PROVE  Service!Next \/ UNCHANGED Service!vars
<1>0. /\ wpc = "work" /\ wpc' = "publish" /\ UNCHANGED <<queue, failure, snapshot>>
      /\ ~Refused(work) /\ TypeOK /\ MadeByFuser /\ work.source \in Source
  BY DEF FuseWork, Fuse, FuseBump, FuseLiveness, FuseRejectedBatch, FuseAcceptedBatch,
    FuseObservations, FuseStop, WorkerUnchanged, ServiceInv, IInv, TypeOK, WorkerTypes, Work
<1>1. Healthy /\ Failed' = Failed
  BY <1>0 DEF Healthy, Failed
<1>2. /\ Status = "running" /\ Status' = Status
      /\ Outstanding = Receipts(queue) \cup (IF Attempt(work) THEN {Receipt(work)} ELSE {})
      /\ Outstanding' = Receipts(queue)
  BY <1>0, <1>1, WorkerContext, OutstandingIs, StatusIs
<1>3. /\ fuserGens \in [Source -> Nat] /\ gens \in [Source -> Nat]
      /\ \A s \in Source : fuserGens[s] <= gens[s]
  BY DEF ServiceInv, NumbersGrow, IInv, TypeOK, CallerTypes, FuserTypes
<1>4. CASE FuseLiveness \/ FuseRejectedBatch \/ FuseAcceptedBatch
  <2>. DEFINE r == Receipt(work)
  <2>1. /\ Attempt(work) /\ r.attempt = attempted + 1 /\ attempted' = r.attempt
        /\ r.gens = work.gens /\ r.accepted = work.accepted
    BY <1>0, <1>4 DEF FuseLiveness, FuseRejectedBatch, FuseAcceptedBatch, Fuse, Refused,
      Attempt, Receipt
  <2>2. work.gens = fuserGens
    BY <1>0, <1>1, <1>4 DEF FuseLiveness, FuseRejectedBatch, FuseAcceptedBatch, Fuse,
      ServiceInv, IInv, LineInv, UnbrokenLine, Follows, FuserMark
  <2>3. r \in Outstanding /\ Outstanding' = Outstanding \ {r}
    BY <1>0, <1>2, <2>1, HandIsNext
  <2>4. observed' \cup pending' \in SUBSET (observed \cup pending \cup
          IF r.accepted THEN {<<s, r.gens[s], o>> : s \in Source, o \in Object} ELSE {})
    <3>1. CASE FuseAcceptedBatch
      <4>1. r.accepted
        BY <1>0, <2>1, <3>1 DEF FuseAcceptedBatch, Fuse, Refused
      <4>2. observed' \cup pending' \subseteq observed \cup pending \cup TrackletsNow(Source)
        BY <1>0, <3>1, FuserLearns DEF FuseObservations, Fuse, FuseAcceptedBatch, FuseWork
      <4>. QED  BY <2>1, <2>2, <4>1, <4>2 DEF TrackletsNow
    <3>2. CASE FuseLiveness \/ FuseRejectedBatch
      BY <3>2 DEF FuseLiveness, FuseRejectedBatch, Retain
    <3>. QED  BY <1>4, <3>1, <3>2
  <2>. HIDE DEF r
  <2>5. Service!Fuse(r)
    BY <1>0, <1>2, <2>1, <2>3, <2>4, WorkerContext DEF Service!Fuse
  <2>. QED  BY <2>3, <2>5 DEF Service!Next
<1>5. CASE FuseBump \/ FuseObservations \/ FuseStop
  <2>1. ~Attempt(work) /\ attempted' = attempted
    BY <1>5 DEF FuseBump, FuseObservations, FuseStop, Fuse, Attempt
  <2>2. Outstanding' = Outstanding
    BY <1>2, <2>1
  <2>3. CASE FuseBump
    <3>1. UNCHANGED <<observed, pending>>
      BY <2>3 DEF FuseBump
    <3>. QED  BY <1>0, <1>2, <2>1, <2>2, <3>1, WorkerContext, ServiceStutter
  <2>4. ASSUME NEW s \in Source,
               \A t \in observed' \cup pending' :
                 t \in observed \cup pending \/ \E g \in 0..gens[s], o \in Object : t = <<s, g, o>>
        PROVE  Service!Next
    <3>1. Service!Learn(s)
      BY <1>0, <1>2, <2>1, <2>2, <2>4, WorkerContext DEF Service!Learn
    <3>. QED  BY <3>1 DEF Service!Next
  <2>5. CASE FuseObservations
    <3>1. observed' \cup pending' \subseteq
            observed \cup pending \cup TrackletsNow({work.source})
      BY <2>5 DEF FuseObservations
    <3>2. fuserGens[work.source] \in 0..gens[work.source]
      BY <1>0, <1>3
    <3>3. \A t \in TrackletsNow({work.source}) :
            \E g \in 0..gens[work.source], o \in Object : t = <<work.source, g, o>>
      BY <3>2 DEF TrackletsNow
    <3>. QED  BY <1>0, <2>4, <3>1, <3>3
  <2>6. CASE FuseStop
    <3>1. observed' \cup pending' \subseteq observed \cup pending
      BY <2>6 DEF FuseStop, Retain
    <3>. QED  BY <2>4, <3>1, AnySourceType
  <2>. QED  BY <1>5, <2>3, <2>5, <2>6
<1>. QED  BY <1>4, <1>5 DEF FuseWork

LEMMA WorkerServes ==
  ASSUME ServiceInv, Worker
  PROVE  Service!Next \/ UNCHANGED Service!vars
<1>1. CASE FuseWork
  BY <1>1, FuseServes
<1>2. CASE Publish
  BY <1>2, PublishServes DEF Service!Next
<1>3. CASE Raise
  BY <1>3, RaiseServes DEF Service!Next
<1>4. CASE Get \/ TaskDone \/ RaiseTaskDone \/ RecordFailure \/ Discard \/ DiscardEmpty
  BY <1>4, QuietWorkerServes
<1>. QED  BY <1>1, <1>2, <1>3, <1>4 DEF Worker

\* Every step of the callers, the worker and the main thread is a step of
\* MtmcService or invisible in it: receipts are fused exactly once, in issue
\* order and under their own generations, visible ids are current ones, and the
\* service stops only when nothing it accepted is left.
THEOREM Implementation == Spec => ImplementsService
<1>1. Init => Service!Init
  <2>1. SUFFICES ASSUME Init PROVE Service!Init
    OBVIOUS
  <2>2. ~Failed /\ ~Over /\ wpc # "work" /\ queue = <<>>
    BY <2>1 DEF Init, Failed, Over
  <2>3. Receipts(queue) = {}
    <3>1. Len(<<>>) = 0
      BY EmptySeq
    <3>. QED  BY <2>2, <3>1 DEF Receipts
  <2>4. Outstanding = {} /\ Status = "running"
    BY <2>2, <2>3, OutstandingIs, StatusIs
  <2>. QED  BY <2>1, <2>4 DEF Init, Service!Init
<1>2. ServiceInv /\ [Next]_vars => [Service!Next]_(Service!vars)
  <2>1. SUFFICES ASSUME ServiceInv, [Next]_vars
                 PROVE  Service!Next \/ UNCHANGED Service!vars
    OBVIOUS
  <2>2. CASE UNCHANGED vars
    <3>1. /\ UNCHANGED <<attempts, attempted, gens, observed, pending, snapshot>>
          /\ UNCHANGED <<queue, work, wpc, failure, mpc, quiesced>>
      BY <2>2 DEF vars, submitVars, fuserVars, mainVars
    <3>2. Failed' = Failed /\ Over' = Over
      BY <3>1 DEF Failed, Over
    <3>. QED  BY <3>1, <3>2, OutstandingIs, StatusIs, ServiceStutter
  <2>. QED  BY <2>1, <2>2, CallServes, WorkerServes, MainServes DEF Next
<1>. QED  BY <1>1, <1>2, ServiceInvariant, PTL DEF Spec, ImplementsService, Service!Spec

=============================================================================

-------------------------- MODULE MtmcRuntimeProps --------------------------
(***************************************************************************)
(* What MtmcRuntime must guarantee to the threads that share it.           *)
(***************************************************************************)
EXTENDS MtmcRuntime

\* The worker has not raised.
Healthy == wpc \in {"absent", "get", "work", "publish", "task_done"}

\* The counters an item was submitted with, and those the fuser has reached.
Mark(w) == [attempt |-> w.attempt, bucket |-> w.bucket, gens |-> w.gens]
FuserMark == [attempt |-> attempted, bucket |-> processed, gens |-> fuserGens]
SubmitMark == [attempt |-> attempts, bucket |-> buckets, gens |-> gens]

\* w was submitted as the very next item after one marked m.
Follows(m, w) ==
  /\ w.attempt = IF w.kind \in {"batch", "liveness"} THEN m.attempt + 1 ELSE m.attempt
  /\ w.bucket = IF w.kind = "batch" /\ w.accepted THEN m.bucket + 1 ELSE m.bucket
  /\ w.gens = IF w.kind = "bump" THEN [m.gens EXCEPT ![w.source] = @ + 1] ELSE m.gens

\* The items of q were submitted one after the other, the first of them right
\* after the mark hand, the last of them reaching the mark last.
Line(hand, q, last) ==
  /\ \A i \in 1..Len(q) : Follows(IF i = 1 THEN hand ELSE Mark(q[i - 1]), q[i])
  /\ last = IF q = <<>> THEN hand ELSE Mark(q[Len(q)])

\* The mark the fuser will have reached once the item in hand is applied.
HandMark == IF wpc = "work" THEN Mark(work) ELSE FuserMark

\* The fuser, the item in hand, the queue and the submission counters form one
\* unbroken line: nothing is skipped, repeated or overtaken between the
\* counters the callers advance under the lock and those the worker checks.
UnbrokenLine ==
  Healthy =>
    /\ wpc = "work" => Follows(FuserMark, work)
    /\ Line(HandMark, queue, SubmitMark)

\* The two decisions about a batch, the submitter's and the fuser's, agree,
\* and a queue never mixes the two interfaces.
SameMode(m, w) ==
  /\ w.kind \in {"batch", "liveness"} => m = "atomic"
  /\ w.kind = "observations" => m = "legacy"
  /\ w.kind = "batch" => w.accepted = Accepts(w.frames)

OneInterface ==
  /\ fuserMode \in {"none", mode}
  /\ wpc = "work" => SameMode(mode, work)
  /\ \A i \in 1..Len(queue) : SameMode(mode, queue[i])

-----------------------------------------------------------------------------
(* Safety. *)

\* The fuser's order checks never fire: whatever the interleaving of callers,
\* reconnects and the worker, the epoch, association bucket and generation an
\* item carries are the next ones when the worker applies it
\* (mtmc.py:184-188 and 229-233, mtmc_runtime.py:259-263 and 277-280).
SequencingNeverRefused == wpc = "work" => ~Refused(work)

\* A batch is fused under the source generations of its receipt, although the
\* fuser reads its own generations when the worker gets to it: the CSV rows
\* written from the receipt and the tracklets of the map use the same keys.
FusedUnderReceiptGenerations ==
  wpc = "work" /\ work.kind \in {"batch", "liveness"} => fuserGens = work.gens

\* The published view never names a tracklet of an earlier generation and
\* always carries the callers' generations, although the worker publishes maps
\* computed before a reconnect and bump_generation publishes before the worker
\* knows of it.
SnapshotNeverStale ==
  /\ snapshot.gens = gens
  /\ snapshot.ids = CurrentOnly(snapshot.ids, gens)

\* unfinished_tasks counts exactly the queued items and the one in hand, on
\* the failure path too: a join() returns when, and only when, all are done.
UnfinishedMatchesWork ==
  unfinished = Len(queue)
                 + IF wpc \in {"work", "publish", "task_done", "raising"} THEN 1 ELSE 0

\* The line and the interface hold at every step (the strengthening that makes
\* the invariants above inductive).
LineInv == UnbrokenLine /\ OneInterface

\* A shutdown that returns without raising wrote a map that covers every batch
\* a caller was told is accepted, provided the streaming threads were stopped
\* first, as run() does; and it never returns so after a worker failure.
ShutdownMapComplete ==
  mpc = "stopped" /\ quiesced =>
    IF failure THEN json = {} /\ surfaced ELSE json = {buckets}

\* A generation bump removes the source's IDs at once, and no later
\* publication brings an ID of the source back before the worker has applied
\* that bump.
NoIdBeforeBumpApplied ==
  \A s \in Source : fuserGens[s] < gens[s] => \A t \in snapshot.ids : t[1] # s

-----------------------------------------------------------------------------
(* Liveness, under FairSpec. *)

\* Every attempt a caller holds a receipt for, if submitted before shutdown()
\* queued its stop marker, reaches the fuser.
AttemptsReachFuser ==
  \A n \in 1..MaxAttempts :
    attempts = n /\ mpc \notin {"stop_join", "thread_join", "stopped"} ~> attempted >= n

\* shutdown() returns or raises when the streaming threads were stopped first.
ShutdownReturns == mpc = "stop_put" /\ quiesced ~> mpc = "stopped"

\* wait_until_idle() returns or raises when nobody submits any more.
IdleReturnsOrRaises == mpc = "idle_join" /\ quiesced ~> mpc # "idle_join"

\* mtmc_runtime.py:296, "surface worker failures to caller": once the main
\* thread is shutting the runtime down, a recorded failure gets raised.
FailureSurfaces == failure /\ mpc \in {"stop_put", "stop_join", "thread_join"} ~> surfaced

\* mtmc_runtime.py:296, again: wait_until_idle() does not return normally when
\* the worker it waited for has raised (nobody submits any more, so all the
\* work was there when the wait began).
IdleReportsFailure == [][IdleReturns /\ quiesced => Healthy]_vars

-----------------------------------------------------------------------------
(* The runtime implements MtmcService. *)

Failed == failure \/ wpc \in {"raising", "unwinding", "draining"}

\* What the abstract service sees of a queued attempt.
Receipt(w) == [attempt |-> w.attempt, accepted |-> w.accepted, gens |-> w.gens]

Attempt(w) == w.kind \in {"batch", "liveness"}

Outstanding ==
  IF Failed THEN {}
  ELSE {Receipt(queue[i]) : i \in {j \in 1..Len(queue) : Attempt(queue[j])}}
         \cup IF wpc = "work" /\ Attempt(work) THEN {Receipt(work)} ELSE {}

Status ==
  CASE Failed -> "failed"
    [] ~Failed /\ mpc = "stopped" /\ quiesced -> "stopped"
    [] OTHER -> "running"

Service == INSTANCE MtmcService WITH
  issued <- attempts, outstanding <- Outstanding, fused <- attempted,
  generation <- gens, known <- observed \cup pending, ids <- snapshot.ids,
  status <- Status

\* Whatever the threads do, callers see the service of MtmcService: receipts
\* fused once, in order, under their own generations, and only current ids.
ImplementsService == Service!Spec

=============================================================================

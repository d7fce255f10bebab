---------------------------- MODULE MtmcService ----------------------------
(***************************************************************************)
(* What MtmcRuntime promises the streaming threads, without locks, queue   *)
(* or worker: receipts are issued one after the other, each is fused       *)
(* exactly once, in issue order, and under the generations it was issued   *)
(* with; the ids anybody can see name only fused tracklets of the current  *)
(* generations, from the instant a reconnect is reported; the service      *)
(* stops only when nothing it accepted is left, or it fails as a whole.    *)
(***************************************************************************)
EXTENDS Naturals

CONSTANTS Source, Object

VARIABLES
  issued,      \* attempts a receipt was issued for
  outstanding, \* receipts issued and not yet fused
  fused,       \* attempts fused
  generation,  \* reconnects of each source
  known,       \* tracklets with live evidence
  ids,         \* tracklets whose global ID is visible
  status       \* "running", "failed" or "stopped"

vars == <<issued, outstanding, fused, generation, known, ids, status>>

Current(tracklets) == {t \in tracklets : t[2] = generation[t[1]]}

Init ==
  /\ issued = 0
  /\ outstanding = {}
  /\ fused = 0
  /\ generation = [s \in Source |-> 0]
  /\ known = {}
  /\ ids = {}
  /\ status = "running"

\* A caller gets the receipt of attempt issued + 1.  A service that has failed
\* may still hand one out to a caller that was already past its check.
Issue(accepted) ==
  /\ status # "stopped"
  /\ issued' = issued + 1
  /\ outstanding' =
       IF status = "failed" THEN outstanding
       ELSE outstanding \cup {[attempt |-> issued + 1, accepted |-> accepted,
                               gens |-> generation]}
  /\ UNCHANGED <<fused, generation, known, ids, status>>

\* A source reconnected: its ids are gone at once.
Bump(s) ==
  /\ status # "stopped"
  /\ generation' = [generation EXCEPT ![s] = @ + 1]
  /\ ids' = {t \in ids : t[1] # s}
  /\ UNCHANGED <<issued, outstanding, fused, known, status>>

\* The next receipt is fused; evidence may also expire.
Fuse(r) ==
  /\ status = "running"
  /\ r.attempt = fused + 1
  /\ fused' = r.attempt
  /\ outstanding' = outstanding \ {r}
  /\ known' \in SUBSET (known \cup
       IF r.accepted THEN {<<s, r.gens[s], o>> : s \in Source, o \in Object} ELSE {})
  /\ UNCHANGED <<issued, generation, ids, status>>

\* A frame of the interface without receipts.
Learn(s) ==
  /\ status = "running"
  /\ known' \in SUBSET (known \cup {<<s, g, o>> : g \in 0..generation[s], o \in Object})
  /\ UNCHANGED <<issued, outstanding, fused, generation, ids, status>>

Publish ==
  /\ status = "running"
  /\ ids' \in SUBSET Current(known)
  /\ UNCHANGED <<issued, outstanding, fused, generation, known, status>>

\* Everything accepted and not fused is lost together.
Fail ==
  /\ status = "running"
  /\ status' = "failed"
  /\ outstanding' = {}
  /\ UNCHANGED <<issued, fused, generation, known, ids>>

Stop ==
  /\ status = "running"
  /\ outstanding = {}
  /\ status' = "stopped"
  /\ UNCHANGED <<issued, outstanding, fused, generation, known, ids>>

Next ==
  \/ \E accepted \in BOOLEAN : Issue(accepted)
  \/ \E s \in Source : Bump(s) \/ Learn(s)
  \/ \E r \in outstanding : Fuse(r)
  \/ Publish \/ Fail \/ Stop

Spec == Init /\ [][Next]_vars

=============================================================================

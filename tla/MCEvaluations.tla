---------------------------- MODULE MCEvaluations ----------------------------
EXTENDS Evaluations, TLC

Seen(s, g, o, p) == [source |-> s, generation |-> g, object |-> o, person |-> p]

\* Two people: one camera sees both, the other sees the first one before and
\* after a reconnect that gave out the same tracker ID again.
FourTracklets == <<Seen(0, 0, 0, 1), Seen(0, 0, 1, 2), Seen(1, 0, 0, 1), Seen(1, 1, 0, 1)>>

\* Global IDs are only compared.
Renamings == Permutations(OfflineIds) \cup Permutations(OnlineIds)

\* Two frames, the second with two people in it.
ThreeBoxes == {<<0, 1>>, <<1, 1>>, <<1, 2>>}

=============================================================================

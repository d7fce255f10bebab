---------------------------- MODULE MCMtmcFusion ----------------------------
(* The fuser, and beside it the operators of association it is built from  *)
(* on all small inputs: a behaviour does one or the other.                 *)
EXTENDS MCMtmcFuser, MtmcAssociationProps

\* Three tracklets of camera 1 and two of camera 2.
LeftKeys == {<<1, 0, 1>>, <<1, 0, 2>>, <<1, 1, 1>>}
RightKeys == {<<2, 0, 1>>, <<2, 0, 2>>}

\* Two tracklets in each of two cameras, or two of one camera that two other
\* cameras may bridge.
TwoAndThreeCameras ==
  { {<<1, 0, 1>>, <<1, 0, 2>>, <<2, 0, 1>>, <<2, 0, 2>>},
    {<<1, 0, 1>>, <<1, 0, 2>>, <<2, 0, 1>>, <<3, 0, 1>>} }

EarlyLateBoth == {<<1, 1>>, <<2, 2>>, <<1, 2>>}

NoInput == [kind |-> "none"]

FusionInit ==
  /\ Init
  /\ \/ input = NoInput /\ output = {} /\ done = TRUE
     \/ AssociationInit

FusionNext ==
  \/ input = NoInput /\ Next /\ UNCHANGED associationVars
  \/ AssociationNext /\ UNCHANGED vars

FusionSpec == FusionInit /\ [][FusionNext]_<<vars, associationVars>>

=============================================================================

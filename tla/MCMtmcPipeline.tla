--------------------------- MODULE MCMtmcPipeline ---------------------------
EXTENDS MtmcPipelineProps, TLC

CONSTANTS s1, s2

Cameras == {s1, s2}
Flaky == {s1}
FramesDecoded == (s1 :> 3) @@ (s2 :> 2)

Symmetry == Permutations(PadName)

=============================================================================

--------------------------- MODULE MCMtmcRuntime ---------------------------
EXTENDS MtmcRuntimeProps

=============================================================================

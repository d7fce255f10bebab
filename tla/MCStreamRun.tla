---------------------------- MODULE MCStreamRun ----------------------------
EXTENDS StreamRunProps

=============================================================================

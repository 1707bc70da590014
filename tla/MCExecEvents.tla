---------------------------- MODULE MCExecEvents ----------------------------
EXTENDS ExecEvents
=============================================================================

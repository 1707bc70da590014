--------------------------- MODULE MCExecSessions ---------------------------
EXTENDS ExecSessions
=============================================================================

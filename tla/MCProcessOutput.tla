-------------------------- MODULE MCProcessOutput --------------------------
EXTENDS ProcessOutput
=============================================================================

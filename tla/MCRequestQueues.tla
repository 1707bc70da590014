--------------------------- MODULE MCRequestQueues ---------------------------
EXTENDS RequestQueues
==============================================================================

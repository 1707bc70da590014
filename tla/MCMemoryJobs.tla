---------------------------- MODULE MCMemoryJobs ----------------------------
EXTENDS MemoryJobs
=============================================================================

------------------------- MODULE MCRolloutRecorder -------------------------
EXTENDS RolloutRecorder
=============================================================================

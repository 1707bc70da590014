-------------------------- MODULE MCTurnLifecycle --------------------------
EXTENDS TurnProperties
=============================================================================

------------------------------ MODULE MCEvent ------------------------------
EXTENDS Event, TLC

Symmetry == Permutations(Procs) \cup Permutations(Values)
MCWaitStates == {"WT_EVENT_SEND", "WT_EVENT_RECV"}
MCNoTimer == -1
=============================================================================

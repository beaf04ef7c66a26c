----------------------------- MODULE MCProcLife -----------------------------
EXTENDS ProcLife, TLC

ProcSymmetry == Permutations(Procs \ {InitProc})

MCWaitStates == {"WT_CHILD"}
=============================================================================

------------------------------- MODULE MCMlfq -------------------------------
EXTENDS Mlfq

MCWaitStates == {"WT_TIMER"}
=============================================================================

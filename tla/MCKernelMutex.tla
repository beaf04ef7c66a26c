--------------------------- MODULE MCKernelMutex ---------------------------
EXTENDS KernelMutex

MCWaitStates == {"WT_KSEM"}
=============================================================================

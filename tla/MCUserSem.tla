----------------------------- MODULE MCUserSem -----------------------------
EXTENDS UserSem

MCNoTimer == -1
MCWaitStates == {"WT_USEM"}
=============================================================================

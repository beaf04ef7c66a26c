------------------------------ MODULE MCSleep ------------------------------
EXTENDS Sleep, Integers

\* The wait states of message boxes and of do_sleep(), as for the other of the two.
MCWaitStates == {"WT_MBOX_SEND", "WT_MBOX_RECV", "WT_TIMER"}
MCOff == -1
=============================================================================

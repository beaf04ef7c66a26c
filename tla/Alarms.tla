------------------------------- MODULE Alarms -------------------------------
(***************************************************************************)
(* What the kernel timers promise: every armed timer counts its own ticks  *)
(* and goes off at the tick that brings it to 0.                           *)
(***************************************************************************)
EXTENDS Naturals

CONSTANTS Procs,    \* the owners of the timers, one timer each
          Off       \* the timer is not armed

VARIABLE due        \* the ticks left of each timer, or Off

Init == due = [p \in Procs |-> Off]

Add(p) ==
    /\ due[p] = Off
    /\ due'[p] \in Nat \ {0}
    /\ due' = [due EXCEPT ![p] = due'[p]]

Delete(p) == due' = [due EXCEPT ![p] = Off]

\* All that are due at this tick go off, no other does.
Tick ==
    due' = [p \in Procs |-> IF due[p] \in {Off, 1} THEN Off ELSE due[p] - 1]

Next ==
    \/ \E p \in Procs : Add(p) \/ Delete(p)
    \/ Tick

Spec == Init /\ [][Next]_due
=============================================================================

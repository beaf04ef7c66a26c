------------------------------ MODULE FifoLock ------------------------------
(***************************************************************************)
(* What a kernel semaphore initialised to 1 promises to the code between   *)
(* down() and up(): a lock with one owner that passes from the owner to    *)
(* the first waiter without ever being free in between.                    *)
(***************************************************************************)
EXTENDS Sequences

CONSTANT Procs

VARIABLES owner,    \* the set of owners: empty or a singleton
          waiting   \* the processes that asked, in order

lock_vars == <<owner, waiting>>

Init == owner = {} /\ waiting = <<>>

Acquire(p) == owner = {} /\ waiting = <<>> /\ owner' = {p} /\ UNCHANGED waiting

Enqueue(p) ==
    /\ owner # {} /\ p \notin owner
    /\ waiting' = Append(waiting, p)
    /\ UNCHANGED owner

Release ==
    /\ owner # {}
    /\ \/ waiting = <<>> /\ owner' = {} /\ UNCHANGED waiting
       \/ waiting # <<>> /\ owner' = {Head(waiting)} /\ waiting' = Tail(waiting)

Next == Release \/ \E p \in Procs : Acquire(p) \/ Enqueue(p)

Spec == Init /\ [][Next]_lock_vars
=============================================================================

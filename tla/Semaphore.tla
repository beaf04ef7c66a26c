----------------------------- MODULE Semaphore -----------------------------
(***************************************************************************)
(* One semaphore (kern/sync/sem.c) with its wait queue (kern/sync/wait.c): *)
(* the P and V operations, as steps of the processes that call them.       *)
(* UserSem and KernelMutex supply the callers.                             *)
(*                                                                         *)
(* A blocked P operation is spread over three steps: DownBlock (the        *)
(* section with interrupts off, lines 80-89 of sem.c), DownSchedule (the   *)
(* call of schedule()) and DownResume (lines 93-102, when the process runs *)
(* again).  Timer interrupts and other processes act in between.           *)
(***************************************************************************)
EXTENDS Scheduler, Integers, Lists

CONSTANT WaitState     \* WT_KSEM or WT_USEM, the wait_state of the waiters

ASSUME SemAssumption == /\ WaitState \in WaitStates
                        /\ WaitState # "WT_INTERRUPTED"

VARIABLES value,         \* sem->value
          wait_queue,    \* sem->wait_queue, the processes in FIFO order
          wakeup_flags,  \* wait->wakeup_flags of the last wait of a process
          pc             \* where the process is in the code

sem_vars == <<value, wait_queue, wakeup_flags>>

Queued == Elements(wait_queue)

sem_init(initial) ==
    /\ value = initial
    /\ wait_queue = <<>>
    /\ wakeup_flags = [p \in Procs |-> "WT_INTERRUPTED"]

-----------------------------------------------------------------------------
(* P: __down() *)

\* Faulty variant of DownFast: the value is not decremented.
DownFastKeepsValue(p, then) ==
    /\ value > 0
    /\ pc' = [pc EXCEPT ![p] = then]
    /\ UNCHANGED <<value, wait_queue, wakeup_flags, sched_vars>>

\* The semaphore is free: take it.
DownFast(p, then) ==
    /\ value > 0
    /\ value' = value - 1
    /\ pc' = [pc EXCEPT ![p] = then]
    /\ UNCHANGED <<wait_queue, wakeup_flags, sched_vars>>

\* Faulty variant of DownBlock: the waiter goes to the head of the queue.
DownBlockAtHead(p) ==
    /\ value <= 0
    /\ wait_queue' = AddFirst(wait_queue, p)
    /\ wakeup_flags' = [wakeup_flags EXCEPT ![p] = "WT_INTERRUPTED"]
    /\ pc' = [pc EXCEPT ![p] = "schedule"]
    /\ Block(WaitState)
    /\ UNCHANGED value

\* It is not: go to sleep at the end of the wait queue (wait_current_set()).
DownBlock(p) ==
    /\ value <= 0
    /\ wait_queue' = AddLast(wait_queue, p)
    /\ wakeup_flags' = [wakeup_flags EXCEPT ![p] = "WT_INTERRUPTED"]
    /\ pc' = [pc EXCEPT ![p] = "schedule"]
    /\ Block(WaitState)
    /\ UNCHANGED value

\* The sleeper, or a zombie, calls schedule().
DownSchedule(p) ==
    /\ pc[p] = "schedule"
    /\ pc' = [pc EXCEPT ![p] = "resume"]
    /\ Reschedule
    /\ UNCHANGED sem_vars

\* Faulty variant of DownResume: no wait_current_del().
DownResumeStaysQueued(p, success, failure) ==
    /\ pc[p] = "resume"
    /\ pc' = [pc EXCEPT ![p] = IF wakeup_flags[p] = WaitState THEN success ELSE failure]
    /\ UNCHANGED <<value, wait_queue, wakeup_flags, sched_vars>>

\* Back from schedule(): leave the wait queue if still in it.  The operation
\* succeeds when the wakeup was a V (flags == wait_state), not an interruption.
DownResume(p, success, failure) ==
    /\ pc[p] = "resume"
    /\ wait_queue' = Unlink(wait_queue, p)
    /\ pc' = [pc EXCEPT ![p] = IF wakeup_flags[p] = WaitState THEN success ELSE failure]
    /\ UNCHANGED <<value, wakeup_flags, sched_vars>>

-----------------------------------------------------------------------------
(* V: __up() *)

\* Faulty variant of UpIncrement: the wait queue is not looked at.
UpIncrementAlways(p, then) ==
    /\ value' = value + 1
    /\ pc' = [pc EXCEPT ![p] = then]
    /\ UNCHANGED <<wait_queue, wakeup_flags, sched_vars>>

\* Nobody waits: the value counts the V.
UpIncrement(p, then) ==
    /\ wait_queue = <<>>
    /\ value' = value + 1
    /\ pc' = [pc EXCEPT ![p] = then]
    /\ UNCHANGED <<wait_queue, wakeup_flags, sched_vars>>

\* Faulty variant of UpHandOff: the value is incremented as well.
UpHandOffCounts(p, then) ==
    /\ wait_queue # <<>>
    /\ wait_state[Head(wait_queue)] = WaitState
    /\ wait_queue' = Tail(wait_queue)
    /\ wakeup_flags' = [wakeup_flags EXCEPT ![Head(wait_queue)] = WaitState]
    /\ pc' = [pc EXCEPT ![p] = then]
    /\ Wakeup({Head(wait_queue)})
    /\ value' = value + 1

\* The first waiter is still asleep: it gets the token, value is not touched.
UpHandOff(p, then) ==
    /\ wait_queue # <<>>
    /\ wait_state[Head(wait_queue)] = WaitState
    /\ wait_queue' = Tail(wait_queue)
    /\ wakeup_flags' = [wakeup_flags EXCEPT ![Head(wait_queue)] = WaitState]
    /\ pc' = [pc EXCEPT ![p] = then]
    /\ Wakeup({Head(wait_queue)})
    /\ UNCHANGED value

\* The first waiter is in the queue but awake: assert(wait->proc->wait_state
\* == wait_state) fails.
UpPanic ==
    /\ wait_queue # <<>>
    /\ wait_state[Head(wait_queue)] # WaitState
    /\ panic' = "__up"
    /\ UNCHANGED <<current, state, wait_state, runq, sem_vars, pc>>

Up(p, then) == UpIncrement(p, then) \/ UpHandOff(p, then) \/ UpPanic

-----------------------------------------------------------------------------
(* Properties *)

\* A V never increments past a sleeper and a P never sleeps on a free
\* semaphore: a positive value and a waiter never coexist.
NoTokenWithWaiters == value > 0 => wait_queue = <<>>

\* No lost wakeup: whoever sleeps is still in the queue, once, and has not
\* been handed a token.
SleepersWait ==
    \A p \in Procs : state[p] = "SLEEPING" =>
        p \in Queued /\ wakeup_flags[p] = "WT_INTERRUPTED"

\* The queue holds processes inside a P only, each at one place, none holding
\* a token: the wait_t of a queued process is on its kernel stack, so an entry
\* that outlives the call is a dangling link.
QueueIsCallers ==
    /\ Distinct(wait_queue)
    /\ \A p \in Queued : /\ pc[p] \in {"schedule", "resume"}
                         /\ state[p] # "ZOMBIE"
                         /\ wakeup_flags[p] = "WT_INTERRUPTED"

\* The assertion in __up() never fails.
UpAssertHolds == panic # "__up"
=============================================================================

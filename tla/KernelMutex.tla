---------------------------- MODULE KernelMutex ----------------------------
(***************************************************************************)
(* A kernel semaphore used as a lock: sem_init(sem, 1), down(sem), a       *)
(* critical section that may give the CPU away, up(sem).  sem_queue->sem   *)
(* (around the list of semaphores of a process, where copy_sem() allocates *)
(* memory), sem_mbox_map and the mutex of a monitor are used in this way.  *)
(* The waiters sleep with WT_KSEM, which neither a timer nor a kill        *)
(* interrupts.                                                             *)
(*                                                                         *)
(* pc: "out" outside, "cs" in the critical section, "leave" there after    *)
(* an optional sleep, "failed" in the failed assertion of down().          *)
(***************************************************************************)
EXTENDS Semaphore

mutex_vars == <<sched_vars, sem_vars, pc>>

MutexTypeOK ==
    /\ SchedTypeOK
    /\ value \in {0, 1}
    /\ wait_queue \in Seq(Procs)
    /\ wakeup_flags \in [Procs -> {"WT_INTERRUPTED", WaitState}]
    /\ pc \in [Procs -> {"out", "schedule", "resume", "cs", "leave", "failed"}]

MutexInit ==
    /\ SchedInit(Procs)
    /\ sem_init(1)
    /\ pc = [p \in Procs |-> "out"]

\* down(): either path of __down(), from outside the lock.
Down(p) ==
    /\ pc[p] = "out"
    /\ DownFast(p, "cs") \/ DownBlock(p)

\* down() asserts that __down() returned 0: "failed" is that panic.
Resume(p) == DownResume(p, "cs", "failed")

ReleaseLock(p) == pc[p] \in {"cs", "leave"} /\ Up(p, "out")

\* Outside the lock a process does what it likes for as long as it likes: each
\* time its slice is used up, or it yields or polls, it goes through schedule().
Outside(p) ==
    /\ pc[p] = "out"
    /\ Reschedule
    /\ UNCHANGED <<sem_vars, pc>>

\* Inside it may give the CPU away (kmalloc() in copy_sem() may wait for free
\* pages; that it sleeps there with another wait_state is of no concern to
\* this semaphore).  Critical sections have an end.
Yield(p) ==
    /\ pc[p] = "cs"
    /\ Reschedule
    /\ pc' = [pc EXCEPT ![p] = "leave"]
    /\ UNCHANGED sem_vars

MutexRunning(p) == Down(p) \/ DownSchedule(p) \/ Resume(p) \/ ReleaseLock(p) \/ Yield(p) \/ Outside(p)

MutexIdleLoop == current = Idle /\ Reschedule /\ UNCHANGED <<sem_vars, pc>>

MutexNext ==
    \/ panic = "none" /\ \E p \in Procs : current = p /\ MutexRunning(p)
    \/ panic = "none" /\ MutexIdleLoop

MutexSpec == MutexInit /\ [][MutexNext]_mutex_vars

\* The CPU executes: whoever is inside down(), up() or between them goes on
\* while it is current.  Nothing is assumed of the scheduler, nor of those outside.
FairMutexSpec ==
    /\ MutexSpec
    /\ \A p \in Procs :
          WF_mutex_vars(current = p /\ (DownSchedule(p) \/ Resume(p) \/ ReleaseLock(p)))

-----------------------------------------------------------------------------
(* Properties *)

\* Who has the lock: inside, or woken with the token and not yet inside.
Owners == {p \in Procs : \/ pc[p] \in {"cs", "leave"}
                         \/ pc[p] \in {"schedule", "resume"} /\ wakeup_flags[p] = WaitState}

\* At most one process is between down() and up(), counting the one that a
\* hand-off has already chosen.
MutualExclusion == \A p, q \in Owners : p = q

\* The token is somewhere: either the value is 1 or exactly one owner has it.
TokenConserved == value = 1 <=> Owners = {}

\* Neither down()'s nor __up()'s nor wakeup_proc()'s assertion can fail for a
\* kernel semaphore.
NoPanic == panic = "none" /\ \A p \in Procs : pc[p] # "failed"

\* The scheduler does not starve whoever has the lock.  (The feedback queues may:
\* an owner in a low queue does not run while pollers fill the upper ones.)
OwnersRun == \A p \in Procs : []<>(p \notin Owners \/ current = p)

\* The lock adds no starvation of its own: unless an owner is starved of the
\* CPU, every waiter gets the lock, though nothing is said about when waiters
\* run, and others may compute, yield or ask for the lock again and again.
NoStarvation ==
    OwnersRun => \A p \in Procs : pc[p] = "schedule" ~> pc[p] = "cs"

-----------------------------------------------------------------------------
(* The lock as its users see it. *)

\* down(), critical section, up() behave like a lock that is handed over in the
\* order of the requests, and that a running process cannot take while others
\* wait for it.
Lock == INSTANCE FifoLock WITH
            owner <- Owners,
            waiting <- wait_queue

ImplementsFifoLock == Lock!Spec
=============================================================================

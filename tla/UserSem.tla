------------------------------ MODULE UserSem ------------------------------
(***************************************************************************)
(* A user semaphore: the system calls ipc_sem_wait (with or without a      *)
(* timeout), ipc_sem_post and ipc_sem_free, together with what can         *)
(* interrupt a waiter, the timer interrupt and do_kill.  Its waiters sleep *)
(* with WT_USEM, which carries the WT_INTERRUPTED bit.                     *)
(*                                                                         *)
(* pc: "user" in user mode, "return" in trap() on the way back to it, and  *)
(* the phases of Semaphore.  The list of semaphores of a process (which    *)
(* finds the semaphore, or fails once it is freed) is not part of this     *)
(* module: `valid` is what its search tests.                               *)
(***************************************************************************)
EXTENDS Semaphore

CONSTANTS InitValue,   \* the value that ipc_sem_init() is called with
          Timeouts,    \* the timeouts a caller may give, in ticks
          NoTimer,     \* timeout 0: no timer
          MaxPosts     \* bound on the posts, for finite models

ASSUME UserSemAssumption == /\ InitValue \in Int
                            /\ Timeouts \subseteq Nat \ {0}
                            /\ NoTimer \notin Nat
                            /\ MaxPosts \in Nat
                            /\ IsFiniteSet(Procs)     \* MAX_PROCESS

VARIABLES valid,   \* sem->valid
          timer,   \* ticks until the waiter's timer fires, 0 once it has
          killed,  \* the processes with PF_EXITING in proc->flags
          posts,   \* history: the number of completed posts
          grants   \* history: the number of waits that returned 0

hist_vars == <<posts, grants>>
vars == <<sched_vars, sem_vars, pc, valid, timer, killed, hist_vars>>

TypeOK ==
    /\ SchedTypeOK
    /\ value \in Int
    /\ wait_queue \in Seq(Procs)
    /\ wakeup_flags \in [Procs -> {"WT_INTERRUPTED", WaitState}]
    /\ pc \in [Procs -> {"user", "schedule", "resume", "failed", "return"}]
    /\ valid \in BOOLEAN
    /\ timer \in [Procs -> Nat \cup {NoTimer}]
    /\ killed \subseteq Procs
    /\ posts \in Nat /\ grants \in Nat

Init ==
    /\ SchedInit(Procs)
    /\ sem_init(InitValue)
    /\ pc = [p \in Procs |-> "user"]
    /\ valid = TRUE
    /\ timer = [p \in Procs |-> NoTimer]
    /\ killed = {}
    /\ posts = 0 /\ grants = 0

-----------------------------------------------------------------------------
(* System calls of the running process p *)

\* ipc_sem_wait() on a semaphore whose value is positive.
WaitFast(p) ==
    /\ pc[p] = "user" /\ valid
    /\ DownFast(p, "return")
    /\ grants' = grants + 1
    /\ UNCHANGED <<valid, timer, killed, posts>>

\* ipc_sem_wait() that blocks; a timeout arms a timer in the same section.
WaitBlock(p) ==
    /\ pc[p] = "user" /\ valid
    /\ DownBlock(p)
    /\ \E t \in Timeouts \cup {NoTimer} : timer' = [timer EXCEPT ![p] = t]
    /\ UNCHANGED <<valid, killed, hist_vars>>

\* The call of schedule() in __down(), or at the end of __do_exit().
Schedule(p) ==
    /\ DownSchedule(p)
    /\ UNCHANGED <<valid, timer, killed, hist_vars>>

\* Faulty variant of WaitResume: no ipc_del_timer().
WaitResumeKeepsTimer(p) ==
    /\ DownResume(p, "return", "return")
    /\ grants' = IF wakeup_flags[p] = WaitState THEN grants + 1 ELSE grants
    /\ UNCHANGED <<valid, timer, killed, posts>>

\* The waiter runs again: its timer and queue entry go, and the call returns 0
\* or what ipc_check_timeout() makes of the interruption.
WaitResume(p) ==
    /\ DownResume(p, "return", "return")
    /\ timer' = [timer EXCEPT ![p] = NoTimer]
    /\ grants' = IF wakeup_flags[p] = WaitState THEN grants + 1 ELSE grants
    /\ UNCHANGED <<valid, killed, posts>>

\* ipc_sem_post().
Post(p) ==
    /\ pc[p] = "user" /\ valid /\ posts < MaxPosts
    /\ Up(p, "return")
    /\ posts' = posts + 1
    /\ UNCHANGED <<valid, timer, killed, grants>>

\* ipc_sem_free(): no later call finds the semaphore, every waiter is woken
\* with WT_INTERRUPTED and removed.
Free(p) ==
    /\ pc[p] = "user" /\ valid
    /\ valid' = FALSE
    /\ wait_queue' = <<>>
    /\ Wakeup(Queued)
    /\ pc' = [pc EXCEPT ![p] = "return"]
    /\ UNCHANGED <<value, wakeup_flags, timer, killed, hist_vars>>

\* do_kill(): mark the target and, if its sleep is interruptible, wake it.
\* The target stays in the wait queue until it runs.
Kill(p, target) ==
    /\ pc[p] = "user" /\ target \notin killed
    /\ killed' = killed \cup {target}
    /\ Wakeup(IF wait_state[target] = WaitState THEN {target} ELSE {})
    /\ pc' = [pc EXCEPT ![p] = "return"]
    /\ UNCHANGED <<sem_vars, valid, timer, hist_vars>>

\* __do_exit(), by the exit system call or for a killed process in trap().
Leave(p) ==
    /\ pc[p] = "user" \/ (pc[p] = "return" /\ p \in killed)
    /\ Exit
    /\ pc' = [pc EXCEPT ![p] = "schedule"]
    /\ UNCHANGED <<sem_vars, valid, timer, killed, hist_vars>>

\* The end of trap(): PF_EXITING is tested first, then need_resched, so that
\* a process killed while it waits for the CPU here goes on in user mode.
Return(p) ==
    /\ pc[p] = "return" /\ p \notin killed
    /\ pc' = [pc EXCEPT ![p] = "user"]
    /\ Reschedule \/ UNCHANGED sched_vars
    /\ UNCHANGED <<sem_vars, valid, timer, killed, hist_vars>>

-----------------------------------------------------------------------------
(* The timer interrupt and idleproc *)

\* One tick of a timer.
CountDown(p) == IF timer[p] \in {NoTimer, 0} THEN timer[p] ELSE timer[p] - 1

\* Faulty variant of Tick: only one of the expired timers is served.
TickWakesOne ==
    \E one \in {p \in Procs : timer[p] = 1} \cup {Idle} :
        /\ one = Idle => \A p \in Procs : timer[p] # 1
        /\ timer' = [p \in Procs |-> CountDown(p)]
        /\ Wakeup({one} \ {Idle})
        /\ pc' = [p \in Procs |-> IF p = current /\ pc[p] = "user" THEN "return" ELSE pc[p]]
        /\ UNCHANGED <<sem_vars, valid, killed, hist_vars>>

\* run_timer_list(), seen as one countdown per timer (module TimerList models
\* the list).  The waiter of a timer that fires is woken but stays in the wait
\* queue.  An interrupt from user mode also runs the end of trap().
Tick ==
    LET expired == {p \in Procs : timer[p] = 1} IN
    /\ timer' = [p \in Procs |-> CountDown(p)]
    /\ Wakeup(expired)
    /\ pc' = [p \in Procs |-> IF p = current /\ pc[p] = "user" THEN "return" ELSE pc[p]]
    /\ UNCHANGED <<sem_vars, valid, killed, hist_vars>>

IdleLoop ==
    /\ current = Idle
    /\ Reschedule
    /\ UNCHANGED <<sem_vars, pc, valid, timer, killed, hist_vars>>

-----------------------------------------------------------------------------

Running(p) ==
    \/ WaitFast(p) \/ WaitBlock(p) \/ Schedule(p) \/ WaitResume(p)
    \/ Post(p) \/ Free(p) \/ Leave(p) \/ Return(p)
    \/ \E target \in Procs : Kill(p, target)

Next ==
    \/ panic = "none" /\ \E p \in Procs : current = p /\ Running(p)
    \/ panic = "none" /\ (Tick \/ IdleLoop)
    \/ Halted /\ UNCHANGED vars

Spec == Init /\ [][Next]_vars

\* Timer interrupts keep coming.  Nothing is assumed of the scheduler.
FairSpec == Spec /\ WF_vars(panic = "none" /\ Tick)

-----------------------------------------------------------------------------
(* Properties *)

\* No wakeup is lost and nothing dangles: a positive value and a waiter never
\* coexist; whoever sleeps is in the queue and has not been handed a token; whoever
\* is in the queue is there once and inside its wait, although timers, kills, posts
\* and the free of the semaphore find waiters that are awake but still queued.
WaitQueueExact == NoTokenWithWaiters /\ SleepersWait /\ QueueIsCallers

\* Waits that have been given a token and have not returned yet.
InFlight == {p \in Procs : /\ pc[p] \in {"schedule", "resume"}
                           /\ state[p] # "ZOMBIE"
                           /\ wakeup_flags[p] = WaitState}

\* A V is never lost and never counted twice, whatever timeouts, kills and
\* hand-offs happen between it and the return of the wait that it satisfies.
TokensConserved ==
    panic = "none" => value + grants + Cardinality(InFlight) = InitValue + posts

\* Nothing points to a call that is over: a timer is pending only for a process
\* still inside its wait (timer_t lives on the kernel stack, and an expired
\* timer wakes whatever the process does), and a freed semaphore has no
\* waiters, not even those that a timer or a kill had already woken.  The state is well typed.
NothingOutlivesTheCall ==
    /\ TypeOK
    /\ \A p \in Procs : timer[p] # NoTimer =>
          pc[p] \in {"schedule", "resume"} /\ state[p] # "ZOMBIE"
    /\ ~valid => wait_queue = <<>>

\* A wait with a timeout ends, even if nobody posts.
TimedWaitsEnd ==
    \A p \in Procs :
        (state[p] = "SLEEPING" /\ timer[p] # NoTimer)
            ~> (state[p] # "SLEEPING" \/ panic # "none")
=============================================================================

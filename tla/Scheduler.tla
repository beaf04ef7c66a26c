----------------------------- MODULE Scheduler -----------------------------
(***************************************************************************)
(* The process states and the scheduler core of kern/schedule/sched.c, as  *)
(* the blocking primitives see them: wakeup_proc() and schedule() on one   *)
(* CPU.  The scheduling class (sched_MLFQ.c) is abstracted to the SET of   *)
(* queued processes, from which schedule() may pick any element; module    *)
(* Mlfq models the four queues and implements SchedSpec below.             *)
(*                                                                         *)
(* The kernel is not preemptible: `current` changes only in schedule().    *)
(* Timer interrupts, however, run wherever interrupts are enabled, in      *)
(* particular between the step that puts the running process to sleep and  *)
(* its call of schedule(); that is why Block and Reschedule are two steps. *)
(***************************************************************************)
EXTENDS Naturals, FiniteSets

CONSTANTS Procs,       \* the process structures, idleproc excepted
          Idle,        \* idleproc
          WaitStates   \* the values of proc->wait_state that are not 0

ASSUME SchedAssumption == /\ Idle \notin Procs
                          /\ "none" \notin WaitStates

VARIABLES current,     \* the running process
          state,       \* proc->state
          wait_state,  \* proc->wait_state ("none" is 0)
          runq,        \* the processes linked into a run queue
          panic        \* the assertion that stopped the kernel, or "none"

sched_vars == <<current, state, wait_state, runq, panic>>

\* The functions whose assert() or panic() the models track.
Assertions == {"wakeup_proc", "add_timer", "run_timer_list", "__up", "__do_exit"}

ProcStates == {"UNINIT", "SLEEPING", "RUNNABLE", "ZOMBIE"}

SchedTypeOK ==
    /\ current \in Procs \cup {Idle}
    /\ state \in [Procs -> ProcStates]
    /\ wait_state \in [Procs -> WaitStates \cup {"none"}]
    /\ runq \subseteq Procs
    /\ panic \in Assertions \cup {"none"}

\* Before the first schedule(): idleproc runs, the processes of live have
\* been forked, the other structures are free.
SchedInit(live) ==
    /\ current = Idle
    /\ state = [p \in Procs |-> IF p \in live THEN "RUNNABLE" ELSE "UNINIT"]
    /\ wait_state = [p \in Procs |-> "none"]
    /\ runq = live
    /\ panic = "none"

-----------------------------------------------------------------------------
(* Operations *)

\* Faulty variant of Wakeup: the running process is queued as well.
WakeupQueuesCurrent(W) ==
    LET woken == {p \in W : state[p] # "RUNNABLE"} IN
    /\ state' = [p \in Procs |-> IF p \in woken THEN "RUNNABLE" ELSE state[p]]
    /\ wait_state' = [p \in Procs |-> IF p \in woken THEN "none" ELSE wait_state[p]]
    /\ runq' = runq \cup woken
    /\ UNCHANGED <<current, panic>>

\* What wakeup_proc() changes when it is called on every process of W:
\* runnable processes are left alone, and the running process is not queued
\* (it has gone to sleep but not yet called schedule(), which queues it).
Wakeup(W) ==
    LET woken == {p \in W : state[p] # "RUNNABLE"} IN
    /\ state' = [p \in Procs |-> IF p \in woken THEN "RUNNABLE" ELSE state[p]]
    /\ wait_state' = [p \in Procs |-> IF p \in woken THEN "none" ELSE wait_state[p]]
    /\ runq' = runq \cup (woken \ {current})
    /\ panic' = IF \E p \in W : state[p] = "ZOMBIE" THEN "wakeup_proc" ELSE panic
    /\ UNCHANGED current

\* The running process goes to sleep for the reason ws.
Block(ws) ==
    /\ current \in Procs
    /\ state' = [state EXCEPT ![current] = "SLEEPING"]
    /\ wait_state' = [wait_state EXCEPT ![current] = ws]
    /\ UNCHANGED <<current, runq, panic>>

\* The running process becomes a zombie.
Exit ==
    /\ current \in Procs
    /\ state' = [state EXCEPT ![current] = "ZOMBIE"]
    /\ UNCHANGED <<current, wait_state, runq, panic>>

\* schedule(): queue the running process if it is runnable, then take one
\* from the queue, or idleproc when there is none.
Reschedule ==
    LET queued == {p \in Procs : p \in runq \/ (p = current /\ state[p] = "RUNNABLE")}
    IN
    /\ \/ \E next \in queued : current' = next /\ runq' = queued \ {next}
       \/ queued = {} /\ current' = Idle /\ runq' = {}
    /\ UNCHANGED <<state, wait_state, panic>>

\* The structure of a dead process is freed by its parent's do_wait().
Reap(p) ==
    /\ state[p] = "ZOMBIE" /\ p # current
    /\ state' = [state EXCEPT ![p] = "UNINIT"]
    /\ UNCHANGED <<current, wait_state, runq, panic>>

\* panic() never returns: the kernel stays in the monitor for ever.
Halted == panic # "none" /\ UNCHANGED sched_vars

-----------------------------------------------------------------------------
(* What the clients of the scheduler may do: wake whoever is not a zombie,  *)
(* put the running process to sleep, end it, call schedule(), fail.        *)

ClientPanic ==
    /\ panic' \in Assertions \ {"wakeup_proc"}
    /\ UNCHANGED <<current, state, wait_state, runq>>

SchedNext ==
    \/ \E W \in SUBSET Procs : (\A p \in W : state[p] # "ZOMBIE") /\ Wakeup(W)
    \/ \E ws \in WaitStates : current \in Procs /\ state[current] = "RUNNABLE" /\ Block(ws)
    \/ current \in Procs /\ state[current] = "RUNNABLE" /\ Exit
    \/ Reschedule
    \/ \E p \in Procs : Reap(p)
    \/ ClientPanic

SchedSpec == (\E live \in SUBSET Procs : SchedInit(live)) /\ [][SchedNext]_sched_vars

-----------------------------------------------------------------------------
(* Properties *)

\* No process is lost and none is queued twice over: a process is in the run
\* queue exactly when it is runnable and not running (wakeup_proc() skips the
\* queue for `current`, schedule() queues `current` if it is still runnable).
OnRunQueue == runq = {p \in Procs : state[p] = "RUNNABLE"} \ {current}

\* wait_state is the reason a process sleeps: it is set exactly while the
\* process is PROC_SLEEPING (timers, kills and the V operations test it).
WaitStateWhileSleeping ==
    \A p \in Procs : wait_state[p] # "none" <=> state[p] = "SLEEPING"
=============================================================================

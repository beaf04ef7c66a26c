-------------------------- MODULE SchedulerProofs --------------------------
(***************************************************************************)
(* The scheduler core keeps every runnable process within reach of         *)
(* schedule(), for any set of processes and wait states.                   *)
(***************************************************************************)
EXTENDS Scheduler, TLAPS

SchedInv == SchedTypeOK /\ OnRunQueue /\ WaitStateWhileSleeping

\* wakeup_proc() keeps the run queue right, whoever it wakes and whenever: also
\* the running process in the window between its going to sleep and schedule().
LEMMA WakeupKeepsQueue ==
    ASSUME NEW W \in SUBSET Procs, SchedInv, Wakeup(W)
    PROVE  SchedInv'
<1> DEFINE woken == {p \in W : state[p] # "RUNNABLE"}
<1>1. /\ state' = [p \in Procs |-> IF p \in woken THEN "RUNNABLE" ELSE state[p]]
      /\ wait_state' = [p \in Procs |-> IF p \in woken THEN "none" ELSE wait_state[p]]
      /\ runq' = runq \cup (woken \ {current})
      /\ current' = current
      /\ panic' \in {"wakeup_proc", panic}
  BY DEF Wakeup
<1>2. SchedTypeOK'
  BY <1>1 DEF SchedInv, SchedTypeOK, ProcStates, Assertions
<1>3. OnRunQueue'
  BY <1>1, SchedAssumption DEF SchedInv, SchedTypeOK, OnRunQueue
<1>4. WaitStateWhileSleeping'
  BY <1>1, SchedAssumption DEF SchedInv, SchedTypeOK, WaitStateWhileSleeping
<1>5. QED
  BY <1>2, <1>3, <1>4 DEF SchedInv

\* schedule() loses nobody: the process that gives the CPU away is queued if it
\* is runnable, the one that gets it leaves the queue.
LEMMA RescheduleKeepsQueue ==
    ASSUME SchedInv, Reschedule
    PROVE  SchedInv'
<1> DEFINE queued == {p \in Procs : p \in runq \/ (p = current /\ state[p] = "RUNNABLE")}
<1>1. queued = {p \in Procs : state[p] = "RUNNABLE"}
  BY DEF SchedInv, OnRunQueue, SchedTypeOK
<1>2. \/ \E next \in queued : current' = next /\ runq' = queued \ {next}
      \/ queued = {} /\ current' = Idle /\ runq' = {}
  BY DEF Reschedule
<1>3. UNCHANGED <<state, wait_state, panic>>
  BY DEF Reschedule
<1> HIDE DEF queued
<1>4. CASE \E next \in queued : current' = next /\ runq' = queued \ {next}
  BY <1>1, <1>3, <1>4
  DEF SchedInv, SchedTypeOK, OnRunQueue, WaitStateWhileSleeping
<1>5. CASE queued = {} /\ current' = Idle /\ runq' = {}
  BY <1>1, <1>3, <1>5
  DEF SchedInv, SchedTypeOK, OnRunQueue, WaitStateWhileSleeping
<1>6. QED
  BY <1>2, <1>4, <1>5

\* Who gets the CPU from schedule() is runnable.
LEMMA RescheduledRuns ==
    ASSUME SchedInv, Reschedule
    PROVE  \A p \in Procs : p = current' => state[p] = "RUNNABLE"
  BY SchedAssumption DEF SchedInv, OnRunQueue, SchedTypeOK, Reschedule

LEMMA SchedInvInductive ==
    /\ (\E live \in SUBSET Procs : SchedInit(live)) => SchedInv
    /\ SchedInv /\ [SchedNext]_sched_vars => SchedInv'
<1>1. ASSUME NEW live \in SUBSET Procs, SchedInit(live) PROVE SchedInv
  BY <1>1, SchedAssumption
  DEF SchedInit, SchedInv, SchedTypeOK, OnRunQueue, WaitStateWhileSleeping, ProcStates
<1>2. ASSUME SchedInv, [SchedNext]_sched_vars PROVE SchedInv'
  <2>1. CASE \E W \in SUBSET Procs : (\A p \in W : state[p] # "ZOMBIE") /\ Wakeup(W)
    BY <1>2, <2>1, WakeupKeepsQueue
  <2>2. CASE \E ws \in WaitStates :
               current \in Procs /\ state[current] = "RUNNABLE" /\ Block(ws)
    BY <1>2, <2>2, SchedAssumption
    DEF Block, SchedInv, SchedTypeOK, OnRunQueue, WaitStateWhileSleeping, ProcStates
  <2>3. CASE current \in Procs /\ state[current] = "RUNNABLE" /\ Exit
    BY <1>2, <2>3
    DEF Exit, SchedInv, SchedTypeOK, OnRunQueue, WaitStateWhileSleeping, ProcStates
  <2>4. CASE Reschedule
    BY <1>2, <2>4, RescheduleKeepsQueue
  <2>5. CASE \E p \in Procs : Reap(p)
    BY <1>2, <2>5
    DEF Reap, SchedInv, SchedTypeOK, OnRunQueue, WaitStateWhileSleeping, ProcStates
  <2>6. CASE ClientPanic
    BY <1>2, <2>6
    DEF ClientPanic, SchedInv, SchedTypeOK, OnRunQueue, WaitStateWhileSleeping
  <2>7. CASE UNCHANGED sched_vars
    BY <1>2, <2>7
    DEF sched_vars, SchedInv, SchedTypeOK, OnRunQueue, WaitStateWhileSleeping
  <2>8. QED
    BY <1>2, <2>1, <2>2, <2>3, <2>4, <2>5, <2>6, <2>7 DEF SchedNext
<1>3. QED
  BY <1>1, <1>2

\* A process is in the run queue exactly when it is runnable and does not run,
\* and has a wait_state exactly while it sleeps: no interleaving of sleeping,
\* waking, exiting, forking and schedule() loses a process.
THEOREM SchedulerCorrect == SchedSpec => [](OnRunQueue /\ WaitStateWhileSleeping)
<1>1. SchedInv => OnRunQueue /\ WaitStateWhileSleeping
  BY DEF SchedInv
<1>2. QED
  BY <1>1, SchedInvInductive, PTL DEF SchedSpec
=============================================================================

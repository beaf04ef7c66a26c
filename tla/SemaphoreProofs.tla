-------------------------- MODULE SemaphoreProofs --------------------------
(***************************************************************************)
(* The two users of semaphores, for any number of processes.  A kernel     *)
(* semaphore used as a lock excludes, never fails an assertion and hands   *)
(* the lock over in the order of the requests.  A user semaphore loses no  *)
(* wakeup and no token and leaves nothing behind that points to a finished *)
(* call, whatever its timeouts, although timers, kills and the free of the *)
(* semaphore act on waiters in every phase of their wait.                  *)
(***************************************************************************)
EXTENDS KernelMutex, UserSem, SchedulerProofs, ListsProofs, FiniteSetTheorems

-----------------------------------------------------------------------------
(* KERNEL SEMAPHORES                                                       *)

(* The inductive invariant.  MutualExclusion is not inductive: that the     *)
(* hand-off chooses a process that does not own the lock yet, and that its *)
(* assertion holds, needs to know what the queue holds (WaitersSleep); that *)
(* a released lock was not free needs TokenConserved; that down() resumes  *)
(* only with the token needs that sleepers do not run (SleepersDoNotRun).  *)

\* In the queue, asleep, and in down() without the token are the same thing.
WaitersSleep ==
    \A p \in Procs :
        /\ state[p] \in {"RUNNABLE", "SLEEPING"}
        /\ wait_state[p] \in {"none", WaitState}
        /\ p \in Queued <=> state[p] = "SLEEPING"
        /\ p \in Queued <=> /\ pc[p] \in {"schedule", "resume"}
                            /\ wakeup_flags[p] = "WT_INTERRUPTED"

\* Only the running process is between going to sleep and schedule(), and a
\* sleeper runs nowhere else.
SleepersDoNotRun ==
    \A p \in Procs :
        /\ pc[p] = "schedule" => p = current
        /\ p = current /\ state[p] = "SLEEPING" => pc[p] = "schedule"

MutexInv ==
    /\ MutexTypeOK /\ SchedInv
    /\ Distinct(wait_queue)
    /\ WaitersSleep /\ SleepersDoNotRun
    /\ MutualExclusion /\ TokenConserved /\ NoPanic
    /\ wait_queue # <<>> => Owners # {}

\* down() on a free lock takes it, and nobody waits.
LEMMA TakesFreeLock ==
    ASSUME MutexInv, NEW p \in Procs, p = current, pc[p] = "out",
           DownFast(p, "cs")
    PROVE  MutexInv' /\ Lock!Acquire(p)
<1>1. /\ value = 1 /\ value' = 0 /\ pc' = [pc EXCEPT ![p] = "cs"]
      /\ UNCHANGED <<wait_queue, wakeup_flags, current, state, wait_state, runq, panic>>
  BY DEF DownFast, MutexInv, MutexTypeOK, sched_vars
<1>2. Owners = {} /\ wait_queue = <<>> /\ Owners' = {p}
  BY <1>1 DEF MutexInv, TokenConserved, MutexTypeOK, Owners
<1>3. MutexTypeOK' /\ SchedInv' /\ Distinct(wait_queue)'
  BY <1>1 DEF MutexInv, MutexTypeOK, SchedInv, SchedTypeOK, OnRunQueue, WaitStateWhileSleeping
<1>4. Queued' = Queued
  BY <1>1 DEF Queued
<1>5. WaitersSleep' /\ SleepersDoNotRun'
  BY <1>1, <1>4 DEF MutexInv, WaitersSleep, SleepersDoNotRun, MutexTypeOK
<1>6. MutualExclusion' /\ TokenConserved' /\ NoPanic'
  BY <1>1, <1>2 DEF MutexInv, MutualExclusion, TokenConserved, NoPanic, MutexTypeOK
<1>7. QED
  BY <1>1, <1>2, <1>3, <1>5, <1>6 DEF MutexInv, Lock!Acquire

\* down() on a taken lock puts the caller at the end of the queue.
LEMMA QueuesUp ==
    ASSUME MutexInv, NEW p \in Procs, p = current, pc[p] = "out",
           DownBlock(p)
    PROVE  MutexInv' /\ Lock!Enqueue(p)
<1>1. /\ value = 0 /\ value' = 0 /\ wait_queue' = AddLast(wait_queue, p)
      /\ wakeup_flags' = [wakeup_flags EXCEPT ![p] = "WT_INTERRUPTED"]
      /\ pc' = [pc EXCEPT ![p] = "schedule"]
      /\ state' = [state EXCEPT ![p] = "SLEEPING"]
      /\ wait_state' = [wait_state EXCEPT ![p] = WaitState]
      /\ UNCHANGED <<current, runq, panic>>
  BY DEF DownBlock, Block, MutexInv, MutexTypeOK
<1>2. p \notin Queued /\ p \notin Owners
  BY DEF MutexInv, WaitersSleep, Owners
<1>3. Owners # {} /\ Owners' = Owners
  BY <1>1, <1>2, SemAssumption DEF MutexInv, TokenConserved, MutexTypeOK, Owners
<1>4. wait_queue' \in Seq(Procs) /\ Queued' = Queued \cup {p} /\ Distinct(wait_queue)'
  BY <1>1, <1>2, AddLastFacts DEF MutexInv, MutexTypeOK, Queued
<1>5. MutexTypeOK' /\ SchedInv'
  BY <1>1, <1>4, SchedAssumption, SemAssumption
  DEF MutexInv, MutexTypeOK, SchedInv, SchedTypeOK, ProcStates, OnRunQueue, WaitStateWhileSleeping
<1>6. WaitersSleep' /\ SleepersDoNotRun'
  BY <1>1, <1>4 DEF MutexInv, WaitersSleep, SleepersDoNotRun, MutexTypeOK, SchedTypeOK
<1>7. MutualExclusion' /\ TokenConserved' /\ NoPanic'
  BY <1>1, <1>3 DEF MutexInv, MutualExclusion, TokenConserved, NoPanic, MutexTypeOK
<1>8. QED
  BY <1>1, <1>2, <1>3, <1>4, <1>5, <1>6, <1>7 DEF MutexInv, Lock!Enqueue, AddLast

\* up() without waiters frees the lock.
LEMMA FreesLock ==
    ASSUME MutexInv, NEW p \in Procs, p = current, pc[p] \in {"cs", "leave"},
           UpIncrement(p, "out")
    PROVE  MutexInv' /\ Lock!Release
<1>1. /\ wait_queue = <<>> /\ value' = value + 1 /\ pc' = [pc EXCEPT ![p] = "out"]
      /\ UNCHANGED <<wait_queue, wakeup_flags, current, state, wait_state, runq, panic>>
  BY DEF UpIncrement, sched_vars
<1>2. p \in Owners
  BY DEF Owners
<1>3. Owners' = Owners \ {p}
  BY <1>1 DEF Owners, MutexInv, MutexTypeOK
<1>4. Owners' = {} /\ value = 0
  BY <1>2, <1>3 DEF MutexInv, MutualExclusion, TokenConserved, MutexTypeOK
<1>5. MutexTypeOK' /\ SchedInv' /\ Distinct(wait_queue)'
  BY <1>1, <1>4 DEF MutexInv, MutexTypeOK, SchedInv, SchedTypeOK, OnRunQueue, WaitStateWhileSleeping
<1>6. Queued' = Queued
  BY <1>1 DEF Queued
<1>7. WaitersSleep' /\ SleepersDoNotRun'
  BY <1>1, <1>6 DEF MutexInv, WaitersSleep, SleepersDoNotRun, MutexTypeOK
<1>8. MutualExclusion' /\ TokenConserved' /\ NoPanic'
  BY <1>1, <1>4 DEF MutexInv, MutualExclusion, TokenConserved, NoPanic, MutexTypeOK
<1>9. QED
  BY <1>1, <1>2, <1>4, <1>5, <1>7, <1>8 DEF MutexInv, Lock!Release

\* up() with waiters hands the lock to the first of them.
LEMMA HandsOver ==
    ASSUME MutexInv, NEW p \in Procs, p = current, pc[p] \in {"cs", "leave"},
           UpHandOff(p, "out")
    PROVE  MutexInv' /\ Lock!Release
<1> DEFINE next == Head(wait_queue)
<1>1. /\ wait_queue # <<>> /\ wait_queue' = Tail(wait_queue)
      /\ wakeup_flags' = [wakeup_flags EXCEPT ![next] = WaitState]
      /\ pc' = [pc EXCEPT ![p] = "out"]
      /\ Wakeup({next}) /\ value' = value
  BY DEF UpHandOff
<1>2. /\ wait_queue' \in Seq(Procs) /\ Distinct(wait_queue)'
      /\ next \in Queued /\ next \in Procs /\ Queued' = Queued \ {next}
  <2>1. wait_queue \in Seq(Procs) /\ Distinct(wait_queue) /\ wait_queue # <<>>
    BY <1>1 DEF MutexInv, MutexTypeOK
  <2>2. /\ Tail(wait_queue) \in Seq(Procs) /\ Distinct(Tail(wait_queue))
        /\ next \in Queued /\ Elements(Tail(wait_queue)) = Queued \ {next}
    BY <2>1, TailFacts DEF Queued
  <2>3. next \in Procs
    BY <2>1
  <2>4. QED
    BY <1>1, <2>2, <2>3 DEF Queued
<1> HIDE DEF next
<1>3. /\ state[next] = "SLEEPING" /\ pc[next] \in {"schedule", "resume"}
      /\ wakeup_flags[next] = "WT_INTERRUPTED" /\ next # p
  BY <1>2 DEF MutexInv, WaitersSleep
<1>4. /\ state' = [state EXCEPT ![next] = "RUNNABLE"]
      /\ wait_state' = [wait_state EXCEPT ![next] = "none"]
      /\ current' = current /\ panic' = panic
  BY <1>1, <1>2, <1>3 DEF Wakeup, MutexInv, MutexTypeOK, SchedTypeOK
<1>5. p \in Owners /\ next \notin Owners /\ Owners' = {next}
  <2>1. p \in Owners /\ next \notin Owners
    BY <1>2, <1>3, SemAssumption DEF Owners
  <2>2. Owners = {p}
    BY <2>1 DEF MutexInv, MutualExclusion
  <2>3. Owners' = (Owners \ {p}) \cup {next}
    BY <1>1, <1>2, <1>3, SemAssumption DEF Owners, MutexInv, MutexTypeOK
  <2>4. QED
    BY <2>1, <2>2, <2>3
<1>6. SchedInv'
  BY <1>1, <1>2, WakeupKeepsQueue DEF MutexInv
<1>7. MutexTypeOK'
  BY <1>1, <1>2, <1>6 DEF MutexInv, MutexTypeOK, SchedInv
<1>8. WaitersSleep' /\ SleepersDoNotRun'
  BY <1>1, <1>2, <1>3, <1>4, SemAssumption
  DEF MutexInv, WaitersSleep, SleepersDoNotRun, MutexTypeOK, SchedTypeOK
<1>9. MutualExclusion' /\ TokenConserved' /\ NoPanic'
  BY <1>1, <1>4, <1>5 DEF MutexInv, MutualExclusion, TokenConserved, NoPanic, MutexTypeOK
<1>10. QED
  BY <1>1, <1>2, <1>5, <1>6, <1>7, <1>8, <1>9 DEF MutexInv, Lock!Release, next

\* The assertion of __up() holds: the first waiter sleeps.
LEMMA UpAssertion ==
    ASSUME MutexInv
    PROVE  ~UpPanic
<1>1. ASSUME wait_queue # <<>> PROVE Head(wait_queue) \in Queued \cap Procs
  BY <1>1 DEF MutexInv, MutexTypeOK, Queued, Elements
<1>2. QED
  BY <1>1 DEF UpPanic, MutexInv, WaitersSleep, SchedInv, WaitStateWhileSleeping

\* Who returns from schedule() in down() owns the lock and has left the queue.
LEMMA ReturnsWithLock ==
    ASSUME MutexInv, NEW p \in Procs, p = current, Resume(p)
    PROVE  MutexInv' /\ UNCHANGED <<Owners, wait_queue>>
<1>1. /\ pc[p] = "resume" /\ wait_queue' = Unlink(wait_queue, p)
      /\ pc' = [pc EXCEPT ![p] = IF wakeup_flags[p] = WaitState THEN "cs" ELSE "failed"]
      /\ UNCHANGED <<value, wakeup_flags, current, state, wait_state, runq, panic>>
  BY DEF Resume, DownResume, sched_vars
<1>2. p \notin Queued /\ wakeup_flags[p] = WaitState
  BY <1>1 DEF MutexInv, MutexTypeOK, WaitersSleep, SleepersDoNotRun
<1>3. UNCHANGED wait_queue
  BY <1>1, <1>2 DEF Unlink, Queued
<1>4. pc' = [pc EXCEPT ![p] = "cs"] /\ Owners' = Owners
  BY <1>1, <1>2 DEF Owners, MutexInv, MutexTypeOK
<1>5. MutexTypeOK' /\ SchedInv' /\ Distinct(wait_queue)' /\ Queued' = Queued
  BY <1>1, <1>3, <1>4
  DEF MutexInv, MutexTypeOK, SchedInv, SchedTypeOK, OnRunQueue, WaitStateWhileSleeping, Queued
<1>6. WaitersSleep' /\ SleepersDoNotRun'
  BY <1>1, <1>2, <1>4, <1>5, SemAssumption
  DEF MutexInv, WaitersSleep, SleepersDoNotRun, MutexTypeOK
<1>7. MutualExclusion' /\ TokenConserved' /\ NoPanic'
  BY <1>1, <1>4 DEF MutexInv, MutualExclusion, TokenConserved, NoPanic, MutexTypeOK
<1>8. QED
  BY <1>3, <1>4, <1>5, <1>6, <1>7 DEF MutexInv

\* schedule(), called by a sleeper, by a process that yields, or by idleproc.
LEMMA Reschedules ==
    ASSUME MutexInv, Reschedule, UNCHANGED sem_vars,
           \/ UNCHANGED pc /\ (current = Idle \/ \E p \in Procs : p = current /\ pc[p] = "out")
           \/ \E p \in Procs : p = current /\
                 \/ pc[p] = "schedule" /\ pc' = [pc EXCEPT ![p] = "resume"]
                 \/ pc[p] = "cs" /\ pc' = [pc EXCEPT ![p] = "leave"]
    PROVE  MutexInv' /\ UNCHANGED <<Owners, wait_queue>>
<1>1. UNCHANGED <<value, wait_queue, wakeup_flags, state, wait_state, panic, Queued>>
  BY DEF sem_vars, Reschedule, Queued
<1>2. SchedInv'
  BY RescheduleKeepsQueue DEF MutexInv
<1>3. MutexTypeOK' /\ UNCHANGED Owners
  BY <1>1, <1>2 DEF MutexInv, MutexTypeOK, SchedInv, Owners
<1>4. \A p \in Procs : p = current' => state'[p] = "RUNNABLE"
  BY <1>1, RescheduledRuns DEF MutexInv
<1>5. \A p \in Procs : pc'[p] # "schedule"
  BY SchedAssumption DEF MutexInv, MutexTypeOK, SleepersDoNotRun
<1>6. WaitersSleep' /\ SleepersDoNotRun'
  <2>1. \A p \in Procs : pc'[p] \in {"schedule", "resume"} <=> pc[p] \in {"schedule", "resume"}
    BY DEF MutexInv, MutexTypeOK
  <2>2. QED
    BY <1>1, <1>4, <1>5, <2>1 DEF MutexInv, WaitersSleep, SleepersDoNotRun
<1>7. MutualExclusion' /\ TokenConserved' /\ NoPanic'
  BY <1>1, <1>3 DEF MutexInv, MutualExclusion, TokenConserved, NoPanic, MutexTypeOK
<1>8. QED
  BY <1>1, <1>2, <1>3, <1>6, <1>7 DEF MutexInv

-----------------------------------------------------------------------------

LEMMA MutexStarts == MutexInit => MutexInv /\ Lock!Init
<1>1. ASSUME MutexInit PROVE MutexInv /\ Lock!Init
  <2> USE <1>1 DEF MutexInit, sem_init, SchedInit
  <2>1. MutexTypeOK /\ SchedInv
    BY SchedAssumption, SemAssumption
    DEF MutexTypeOK, SchedInv, SchedTypeOK, ProcStates, OnRunQueue, WaitStateWhileSleeping
  <2>2. Owners = {} /\ Queued = {} /\ Distinct(wait_queue)
    BY SchedAssumption DEF Owners, Queued, Elements, Distinct
  <2>3. WaitersSleep /\ SleepersDoNotRun
    BY <2>2, SchedAssumption DEF WaitersSleep, SleepersDoNotRun
  <2>4. MutualExclusion /\ TokenConserved /\ NoPanic
    BY <2>2 DEF MutualExclusion, TokenConserved, NoPanic
  <2>5. QED
    BY <2>1, <2>2, <2>3, <2>4 DEF MutexInv, Lock!Init
<1>2. QED
  BY <1>1

LEMMA MutexStep ==
    ASSUME MutexInv, [MutexNext]_mutex_vars
    PROVE  MutexInv' /\ [Lock!Next]_(Lock!lock_vars)
<1>1. ASSUME NEW p \in Procs, current = p, MutexRunning(p)
      PROVE  MutexInv' /\ [Lock!Next]_(Lock!lock_vars)
  <2>1. CASE Down(p)
    BY <1>1, <2>1, TakesFreeLock, QueuesUp DEF Down, Lock!Next
  <2>2. CASE DownSchedule(p)
    BY <1>1, <2>2, Reschedules DEF DownSchedule, Lock!lock_vars
  <2>3. CASE Resume(p)
    BY <1>1, <2>3, ReturnsWithLock DEF Lock!lock_vars
  <2>4. CASE ReleaseLock(p)
    BY <1>1, <2>4, FreesLock, HandsOver, UpAssertion DEF ReleaseLock, Up, Lock!Next
  <2>5. CASE Yield(p)
    BY <1>1, <2>5, Reschedules DEF Yield, Lock!lock_vars
  <2>6. CASE Outside(p)
    BY <1>1, <2>6, Reschedules DEF Outside, Lock!lock_vars
  <2>7. QED
    BY <1>1, <2>1, <2>2, <2>3, <2>4, <2>5, <2>6 DEF MutexRunning
<1>2. CASE MutexIdleLoop
  BY <1>2, Reschedules DEF MutexIdleLoop, Lock!lock_vars
<1>3. CASE UNCHANGED mutex_vars
  BY <1>3
  DEF mutex_vars, sched_vars, sem_vars, Lock!lock_vars, MutexInv, MutexTypeOK, SchedInv, SchedTypeOK,
      OnRunQueue, WaitStateWhileSleeping, WaitersSleep, SleepersDoNotRun, Queued,
      MutualExclusion, TokenConserved, NoPanic, Owners
<1>4. QED
  BY <1>1, <1>2, <1>3 DEF MutexNext

LEMMA MutexAlways == MutexSpec => []MutexInv
  BY MutexStarts, MutexStep, PTL DEF MutexSpec

\* At most one process is between down() and up(), the token is never lost or
\* doubled, and no assertion of down(), __up() or wakeup_proc() fails: for any
\* number of processes.
THEOREM LockCorrect == MutexSpec => [](MutexTypeOK /\ MutualExclusion /\ TokenConserved /\ NoPanic)
<1>1. MutexInv => MutexTypeOK /\ MutualExclusion /\ TokenConserved /\ NoPanic
  BY DEF MutexInv
<1>2. QED
  BY <1>1, MutexAlways, PTL

\* down() and up() implement the first-come first-served lock FifoLock, although
\* a P operation is three steps with other processes in between.
THEOREM LockIsFifo == MutexSpec => ImplementsFifoLock
  BY MutexStarts, MutexStep, MutexAlways, PTL DEF MutexSpec, ImplementsFifoLock, Lock!Spec
-----------------------------------------------------------------------------
(* USER SEMAPHORES                                                         *)

(* The inductive invariant.  The three properties are not inductive on     *)
(* their own: that a call of the running process starts outside the queue  *)
(* and without a timer needs to know where the running process may be.     *)

\* Whoever sleeps or is dead is on its way to schedule() or waits behind it;
\* only the running process is in front of it, and it runs nowhere else
\* unless it is runnable.
CurrentRuns ==
    \A p \in Procs :
        /\ state[p] # "RUNNABLE" => pc[p] \in {"schedule", "resume"}
        /\ pc[p] = "schedule" => p = current
        /\ p = current /\ state[p] # "RUNNABLE" => pc[p] = "schedule"

UserSemInv ==
    /\ SchedInv /\ CurrentRuns
    /\ WaitQueueExact /\ TokensConserved /\ NothingOutlivesTheCall

\* What everybody in the queue is.
LEMMA QueuedFacts ==
    ASSUME UserSemInv
    PROVE  /\ wait_queue \in Seq(Procs) /\ Distinct(wait_queue)
           /\ Queued \subseteq Procs
           /\ \A p \in Queued : /\ pc[p] \in {"schedule", "resume"}
                                /\ state[p] # "ZOMBIE"
                                /\ wakeup_flags[p] = "WT_INTERRUPTED"
           /\ wait_queue = <<>> <=> Queued = {}
<1>1. wait_queue \in Seq(Procs) /\ Distinct(wait_queue)
  BY DEF UserSemInv, NothingOutlivesTheCall, TypeOK, WaitQueueExact, QueueIsCallers
<1>2. Queued \subseteq Procs /\ (wait_queue = <<>> <=> Queued = {})
  BY <1>1 DEF Queued, Elements
<1>3. QED
  BY <1>1, <1>2 DEF UserSemInv, WaitQueueExact, QueueIsCallers

\* A step that leaves the tokens alone: the value, the two histories and who is
\* in flight stay.
LEMMA TokensStay ==
    ASSUME TokensConserved, UNCHANGED <<value, posts, grants, InFlight>>,
           panic' = "none" => panic = "none"
    PROVE  TokensConserved'
  BY DEF TokensConserved

LEMMA InFlightFinite == IsFiniteSet(InFlight) /\ Cardinality(InFlight) \in Nat
  BY UserSemAssumption, FS_Subset, FS_CardinalityType DEF InFlight

\* The running process may start a call: it is not in the queue, holds no
\* token and has no timer.
LEMMA CallerIsOutside ==
    ASSUME UserSemInv, NEW p \in Procs, pc[p] \in {"user", "return"}
    PROVE  /\ state[p] = "RUNNABLE" /\ p \notin Queued /\ p \notin InFlight
           /\ timer[p] = NoTimer
  BY QueuedFacts DEF UserSemInv, CurrentRuns, NothingOutlivesTheCall, InFlight

LEMMA UserSemInit == Init => UserSemInv
<1> SUFFICES ASSUME Init PROVE UserSemInv
  OBVIOUS
<1> USE DEF Init, SchedInit, sem_init
<1>1. SchedInv
  BY SchedAssumption
  DEF SchedInv, SchedTypeOK, ProcStates, OnRunQueue, WaitStateWhileSleeping
<1>2. CurrentRuns
  BY SchedAssumption DEF CurrentRuns
<1>3. Queued = {} /\ Distinct(wait_queue) /\ wait_queue \in Seq(Procs)
  BY DEF Queued, Elements, Distinct
<1>4. WaitQueueExact
  BY <1>3 DEF WaitQueueExact, NoTokenWithWaiters, SleepersWait, QueueIsCallers
<1>5. TokensConserved
  <2>1. InFlight = {}
    BY SemAssumption DEF InFlight
  <2>2. QED
    BY <2>1, FS_EmptySet, UserSemAssumption DEF TokensConserved
<1>6. NothingOutlivesTheCall
  BY <1>1, <1>3, SemAssumption, UserSemAssumption
  DEF NothingOutlivesTheCall, TypeOK, SchedInv
<1>7. QED
  BY <1>1, <1>2, <1>4, <1>5, <1>6 DEF UserSemInv

-----------------------------------------------------------------------------
(* System calls of the running process *)

\* A wait on a positive value takes a token and returns with it.
LEMMA WaitFastSafe ==
    ASSUME UserSemInv, NEW p \in Procs, current = p, WaitFast(p)
    PROVE  UserSemInv'
<1>1. /\ value > 0 /\ value' = value - 1 /\ grants' = grants + 1
      /\ pc[p] = "user" /\ pc' = [pc EXCEPT ![p] = "return"]
      /\ UNCHANGED <<wait_queue, wakeup_flags, current, state, wait_state, runq, panic,
                     valid, timer, killed, posts>>
  BY DEF WaitFast, DownFast, sched_vars
<1>2. /\ wait_queue = <<>> /\ Queued' = Queued /\ Queued = {}
  BY <1>1, QueuedFacts DEF UserSemInv, WaitQueueExact, NoTokenWithWaiters, Queued, NothingOutlivesTheCall, TypeOK
<1>3. InFlight' = InFlight
  BY <1>1 DEF InFlight, UserSemInv, NothingOutlivesTheCall, TypeOK
<1>4. SchedInv' /\ CurrentRuns'
  BY <1>1, CallerIsOutside
  DEF UserSemInv, NothingOutlivesTheCall, TypeOK, SchedInv, SchedTypeOK, OnRunQueue,
      WaitStateWhileSleeping, CurrentRuns
<1>5. NothingOutlivesTheCall'
  BY <1>1, <1>4, CallerIsOutside
  DEF UserSemInv, SchedInv, NothingOutlivesTheCall, TypeOK
<1>6. WaitQueueExact'
  BY <1>1, <1>2
  DEF UserSemInv, WaitQueueExact, NoTokenWithWaiters, SleepersWait, QueueIsCallers, Distinct
<1>7. TokensConserved'
  BY <1>1, <1>3, InFlightFinite, UserSemAssumption
  DEF UserSemInv, TokensConserved, NothingOutlivesTheCall, TypeOK
<1>8. QED
  BY <1>4, <1>5, <1>6, <1>7 DEF UserSemInv

\* A wait that blocks sleeps at the end of the queue, with or without a timer.
LEMMA WaitBlockSafe ==
    ASSUME UserSemInv, NEW p \in Procs, current = p, WaitBlock(p)
    PROVE  UserSemInv'
<1>1. /\ value <= 0 /\ wait_queue' = AddLast(wait_queue, p) /\ valid
      /\ wakeup_flags' = [wakeup_flags EXCEPT ![p] = "WT_INTERRUPTED"]
      /\ pc[p] = "user" /\ pc' = [pc EXCEPT ![p] = "schedule"]
      /\ state' = [state EXCEPT ![p] = "SLEEPING"]
      /\ wait_state' = [wait_state EXCEPT ![p] = WaitState]
      /\ UNCHANGED <<value, current, runq, panic, valid, killed, posts, grants>>
  BY DEF WaitBlock, DownBlock, Block, hist_vars
<1>2. \E t \in Timeouts \cup {NoTimer} : timer' = [timer EXCEPT ![p] = t]
  BY DEF WaitBlock
<1>3. p \notin Queued
  BY <1>1, CallerIsOutside
<1>4. /\ wait_queue' \in Seq(Procs) /\ Distinct(wait_queue)' /\ Queued' = Queued \cup {p}
  BY <1>1, <1>3, QueuedFacts, AddLastFacts DEF Queued
<1>5. InFlight' = InFlight
  BY <1>1, SemAssumption DEF InFlight, UserSemInv, NothingOutlivesTheCall, TypeOK
<1>6. SchedInv'
  BY <1>1, CallerIsOutside, SchedAssumption, SemAssumption
  DEF UserSemInv, SchedInv, SchedTypeOK, ProcStates, OnRunQueue, WaitStateWhileSleeping
<1>7. CurrentRuns'
  BY <1>1 DEF UserSemInv, CurrentRuns, NothingOutlivesTheCall, TypeOK, SchedTypeOK
<1>8. NothingOutlivesTheCall'
  <2>1. TypeOK'
    BY <1>1, <1>2, <1>4, <1>6, UserSemAssumption
    DEF UserSemInv, SchedInv, NothingOutlivesTheCall, TypeOK
  <2>2. \A q \in Procs : timer'[q] # NoTimer => pc'[q] \in {"schedule", "resume"} /\ state'[q] # "ZOMBIE"
    BY <1>1, <1>2 DEF UserSemInv, NothingOutlivesTheCall, TypeOK, SchedTypeOK
  <2>3. QED
    BY <1>1, <2>1, <2>2 DEF NothingOutlivesTheCall
<1>9. WaitQueueExact'
  <2>1. NoTokenWithWaiters'
    BY <1>1 DEF NoTokenWithWaiters, UserSemInv, NothingOutlivesTheCall, TypeOK
  <2>2. SleepersWait'
    BY <1>1, <1>4
    DEF UserSemInv, WaitQueueExact, SleepersWait, NothingOutlivesTheCall, TypeOK, SchedTypeOK
  <2>3. QueueIsCallers'
    BY <1>1, <1>4, QueuedFacts
    DEF UserSemInv, QueueIsCallers, NothingOutlivesTheCall, TypeOK, SchedTypeOK
  <2>4. QED
    BY <2>1, <2>2, <2>3 DEF WaitQueueExact
<1>10. TokensConserved'
  BY <1>1, <1>5 DEF UserSemInv, TokensConserved
<1>11. QED
  BY <1>6, <1>7, <1>8, <1>9, <1>10 DEF UserSemInv

\* The end of a wait: its timer and its entry in the queue are gone, whatever
\* woke the process, and a token that it was handed is its own.
LEMMA WaitResumeSafe ==
    ASSUME UserSemInv, NEW p \in Procs, current = p, WaitResume(p)
    PROVE  UserSemInv'
<1>1. /\ pc[p] = "resume" /\ wait_queue' = Unlink(wait_queue, p)
      /\ pc' = [pc EXCEPT ![p] = "return"]
      /\ timer' = [timer EXCEPT ![p] = NoTimer]
      /\ grants' = IF wakeup_flags[p] = WaitState THEN grants + 1 ELSE grants
      /\ UNCHANGED <<value, wakeup_flags, current, state, wait_state, runq, panic,
                     valid, killed, posts>>
  BY DEF WaitResume, DownResume, sched_vars
<1>2. state[p] = "RUNNABLE"
  BY <1>1 DEF UserSemInv, CurrentRuns
<1>3. wait_queue' \in Seq(Procs) /\ Distinct(wait_queue)' /\ Queued' = Queued \ {p}
  BY <1>1, QueuedFacts, UnlinkFacts DEF Queued
<1>4. SchedInv' /\ CurrentRuns'
  BY <1>1, <1>2
  DEF UserSemInv, NothingOutlivesTheCall, TypeOK, SchedInv, SchedTypeOK, OnRunQueue,
      WaitStateWhileSleeping, CurrentRuns
<1>5. NothingOutlivesTheCall'
  <2>1. TypeOK'
    BY <1>1, <1>3, <1>4 DEF UserSemInv, SchedInv, NothingOutlivesTheCall, TypeOK
  <2>2. wait_queue = <<>> => wait_queue' = <<>>
    BY <1>1 DEF Unlink, Elements
  <2>3. \A q \in Procs : timer'[q] # NoTimer => pc'[q] \in {"schedule", "resume"} /\ state'[q] # "ZOMBIE"
    BY <1>1 DEF UserSemInv, NothingOutlivesTheCall, TypeOK
  <2>4. QED
    BY <1>1, <2>1, <2>2, <2>3 DEF UserSemInv, NothingOutlivesTheCall
<1>6. WaitQueueExact'
  <2>1. NoTokenWithWaiters'
    BY <1>1 DEF UserSemInv, WaitQueueExact, NoTokenWithWaiters, Unlink, Elements
  <2>2. SleepersWait' /\ QueueIsCallers'
    BY <1>1, <1>2, <1>3
    DEF UserSemInv, WaitQueueExact, SleepersWait, QueueIsCallers, NothingOutlivesTheCall, TypeOK
  <2>3. QED
    BY <2>1, <2>2 DEF WaitQueueExact
<1>7. TokensConserved'
  <2>1. CASE wakeup_flags[p] = WaitState
    <3>1. p \in InFlight /\ InFlight' = InFlight \ {p}
      BY <1>1, <1>2, <2>1 DEF InFlight, UserSemInv, NothingOutlivesTheCall, TypeOK
    <3>2. Cardinality(InFlight') = Cardinality(InFlight) - 1
      BY <3>1, InFlightFinite, FS_RemoveElement
    <3>3. QED
      BY <1>1, <2>1, <3>2, InFlightFinite, UserSemAssumption
      DEF UserSemInv, TokensConserved, NothingOutlivesTheCall, TypeOK
  <2>2. CASE wakeup_flags[p] # WaitState
    <3>1. InFlight' = InFlight
      BY <1>1, <2>2 DEF InFlight, UserSemInv, NothingOutlivesTheCall, TypeOK
    <3>2. QED
      BY <1>1, <2>2, <3>1 DEF UserSemInv, TokensConserved
  <2>3. QED
    BY <2>1, <2>2
<1>8. QED
  BY <1>4, <1>5, <1>6, <1>7 DEF UserSemInv

\* A post that nobody waits for counts.
LEMMA PostIncrementSafe ==
    ASSUME UserSemInv, NEW p \in Procs, current = p, Post(p), UpIncrement(p, "return")
    PROVE  UserSemInv'
<1>1. /\ wait_queue = <<>> /\ value' = value + 1 /\ posts' = posts + 1
      /\ pc[p] = "user" /\ pc' = [pc EXCEPT ![p] = "return"]
      /\ UNCHANGED <<wait_queue, wakeup_flags, current, state, wait_state, runq, panic,
                     valid, timer, killed, grants>>
  BY DEF Post, UpIncrement, sched_vars
<1>2. Queued' = Queued /\ Queued = {} /\ Distinct(wait_queue)'
  BY <1>1, QueuedFacts DEF Queued, Distinct
<1>3. InFlight' = InFlight
  BY <1>1 DEF InFlight, UserSemInv, NothingOutlivesTheCall, TypeOK
<1>4. SchedInv' /\ CurrentRuns'
  BY <1>1, CallerIsOutside
  DEF UserSemInv, NothingOutlivesTheCall, TypeOK, SchedInv, SchedTypeOK, OnRunQueue,
      WaitStateWhileSleeping, CurrentRuns
<1>5. NothingOutlivesTheCall'
  BY <1>1, <1>4, CallerIsOutside
  DEF UserSemInv, SchedInv, NothingOutlivesTheCall, TypeOK
<1>6. WaitQueueExact'
  BY <1>1, <1>2
  DEF UserSemInv, WaitQueueExact, NoTokenWithWaiters, SleepersWait, QueueIsCallers
<1>7. TokensConserved'
  BY <1>1, <1>3, InFlightFinite, UserSemAssumption
  DEF UserSemInv, TokensConserved, NothingOutlivesTheCall, TypeOK
<1>8. QED
  BY <1>4, <1>5, <1>6, <1>7 DEF UserSemInv

\* A post with a sleeper at the head of the queue: the token is in flight.
LEMMA PostHandOffSafe ==
    ASSUME UserSemInv, NEW p \in Procs, current = p, Post(p), UpHandOff(p, "return")
    PROVE  UserSemInv'
<1> DEFINE next == Head(wait_queue)
<1>1. /\ wait_queue # <<>> /\ wait_queue' = Tail(wait_queue)
      /\ wait_state[next] = WaitState
      /\ wakeup_flags' = [wakeup_flags EXCEPT ![next] = WaitState]
      /\ pc[p] = "user" /\ pc' = [pc EXCEPT ![p] = "return"]
      /\ Wakeup({next}) /\ posts' = posts + 1
      /\ UNCHANGED <<value, valid, timer, killed, grants>>
  BY DEF Post, UpHandOff
<1>2. /\ wait_queue' \in Seq(Procs) /\ Distinct(wait_queue)'
      /\ next \in Queued /\ next \in Procs /\ Queued' = Queued \ {next}
  BY <1>1, QueuedFacts, TailFacts DEF Queued
<1> HIDE DEF next
<1>3. /\ state[next] = "SLEEPING" /\ pc[next] \in {"schedule", "resume"}
      /\ wakeup_flags[next] = "WT_INTERRUPTED" /\ next # p
  BY <1>1, <1>2, QueuedFacts, SchedAssumption, SemAssumption
  DEF UserSemInv, SchedInv, WaitStateWhileSleeping
<1>4. /\ state' = [state EXCEPT ![next] = "RUNNABLE"]
      /\ wait_state' = [wait_state EXCEPT ![next] = "none"]
      /\ current' = current /\ panic' = panic
  BY <1>1, <1>2, <1>3 DEF Wakeup, UserSemInv, SchedInv, SchedTypeOK
<1>5. SchedInv'
  BY <1>1, <1>2, WakeupKeepsQueue DEF UserSemInv
<1>6. CurrentRuns'
  BY <1>1, <1>2, <1>3, <1>4, CallerIsOutside
  DEF UserSemInv, CurrentRuns, NothingOutlivesTheCall, TypeOK, SchedTypeOK
<1>7. NothingOutlivesTheCall'
  <2>1. TypeOK'
    BY <1>1, <1>2, <1>5 DEF UserSemInv, SchedInv, NothingOutlivesTheCall, TypeOK
  <2>2. \A q \in Procs : timer'[q] # NoTimer => pc'[q] \in {"schedule", "resume"} /\ state'[q] # "ZOMBIE"
    BY <1>1, <1>2, <1>4, CallerIsOutside
    DEF UserSemInv, NothingOutlivesTheCall, TypeOK, SchedTypeOK
  <2>3. valid'
    BY <1>1 DEF Post
  <2>4. QED
    BY <2>1, <2>2, <2>3 DEF NothingOutlivesTheCall
<1>8. WaitQueueExact'
  <2>1. NoTokenWithWaiters'
    BY <1>1 DEF UserSemInv, WaitQueueExact, NoTokenWithWaiters
  <2>2. SleepersWait' /\ QueueIsCallers'
    BY <1>1, <1>2, <1>3, <1>4, QueuedFacts, CallerIsOutside
    DEF UserSemInv, WaitQueueExact, SleepersWait, QueueIsCallers, NothingOutlivesTheCall,
        TypeOK, SchedTypeOK
  <2>3. QED
    BY <2>1, <2>2 DEF WaitQueueExact
<1>9. TokensConserved'
  <2>1. next \notin InFlight /\ InFlight' = InFlight \cup {next}
    BY <1>1, <1>2, <1>3, <1>4, SemAssumption
    DEF InFlight, UserSemInv, NothingOutlivesTheCall, TypeOK, SchedTypeOK
  <2>2. Cardinality(InFlight') = Cardinality(InFlight) + 1
    BY <2>1, InFlightFinite, FS_AddElement
  <2>3. UNCHANGED <<value, grants, panic>> /\ posts' = posts + 1
    BY <1>1, <1>4
  <2>4. value \in Int /\ grants \in Nat /\ posts \in Nat
    BY DEF UserSemInv, NothingOutlivesTheCall, TypeOK
  <2>5. QED
    BY <2>2, <2>3, <2>4, InFlightFinite, UserSemAssumption DEF UserSemInv, TokensConserved
<1>10. QED
  BY <1>5, <1>6, <1>7, <1>8, <1>9 DEF UserSemInv

\* A post that finds a waiter awake at the head of the queue stops the kernel.
LEMMA PostPanicSafe ==
    ASSUME UserSemInv, NEW p \in Procs, Post(p), UpPanic
    PROVE  UserSemInv'
<1>1. /\ panic' = "__up" /\ posts' = posts + 1
      /\ UNCHANGED <<current, state, wait_state, runq, value, wait_queue, wakeup_flags, pc,
                     valid, timer, killed, grants, Queued>>
  BY DEF Post, UpPanic, sem_vars, Queued
<1>2. SchedInv' /\ CurrentRuns' /\ WaitQueueExact' /\ TokensConserved'
  BY <1>1
  DEF UserSemInv, SchedInv, SchedTypeOK, Assertions, OnRunQueue, WaitStateWhileSleeping, CurrentRuns,
      WaitQueueExact, NoTokenWithWaiters, SleepersWait, QueueIsCallers, TokensConserved
<1>3. NothingOutlivesTheCall'
  BY <1>1, <1>2 DEF UserSemInv, SchedInv, NothingOutlivesTheCall, TypeOK
<1>4. QED
  BY <1>2, <1>3 DEF UserSemInv

-----------------------------------------------------------------------------
(* Wakeups from outside: by the free of the semaphore, do_kill() or a timer *)

\* Waking sleepers and processes that are already awake, while the queue stays
\* or is emptied after all of it has been woken, keeps what is known of the
\* waiters: they leave the queue themselves.
LEMMA WakesWaiters ==
    ASSUME UserSemInv, NEW W \in SUBSET Procs, Wakeup(W),
           \A q \in W : state[q] # "ZOMBIE",
           NEW Q \in SUBSET Procs, Queued' = Q,
           wait_queue' = wait_queue \/ (wait_queue' = <<>> /\ Queued \subseteq W),
           UNCHANGED <<value, wakeup_flags, posts, grants>>,
           \A q \in Procs : \/ pc'[q] = pc[q]
                            \/ q = current /\ pc[q] = "user" /\ pc'[q] = "return"
    PROVE  SchedInv' /\ CurrentRuns' /\ WaitQueueExact' /\ TokensConserved'
<1>1. /\ \A q \in Procs : state'[q] = IF q \in W THEN "RUNNABLE" ELSE state[q]
      /\ current' = current /\ panic' = panic
  BY DEF Wakeup, UserSemInv, SchedInv, SchedTypeOK
<1>2. SchedInv'
  BY WakeupKeepsQueue DEF UserSemInv
<1>3. CurrentRuns'
  BY <1>1 DEF UserSemInv, CurrentRuns
<1>4. WaitQueueExact'
  <2>1. NoTokenWithWaiters'
    BY DEF UserSemInv, WaitQueueExact, NoTokenWithWaiters
  <2>2. /\ Queued' \subseteq Queued /\ Distinct(wait_queue)'
        /\ \A q \in Queued : q \notin Queued' => q \in W
    BY QueuedFacts DEF Queued, Elements, Distinct
  <2>3. SleepersWait'
    BY <1>1, <2>2 DEF UserSemInv, WaitQueueExact, SleepersWait
  <2>4. QueueIsCallers'
    BY <1>1, <2>2, QueuedFacts DEF QueueIsCallers
  <2>5. QED
    BY <2>1, <2>3, <2>4 DEF WaitQueueExact
<1>5. InFlight' = InFlight
  BY <1>1 DEF InFlight
<1>6. TokensConserved'
  BY <1>1, <1>5, TokensStay DEF UserSemInv
<1>7. QED
  BY <1>2, <1>3, <1>4, <1>6

LEMMA FreeSafe ==
    ASSUME UserSemInv, NEW p \in Procs, current = p, Free(p)
    PROVE  UserSemInv'
<1>1. /\ ~valid' /\ wait_queue' = <<>> /\ Wakeup(Queued)
      /\ pc[p] = "user" /\ pc' = [pc EXCEPT ![p] = "return"]
      /\ UNCHANGED <<value, wakeup_flags, timer, killed, posts, grants>>
  BY DEF Free, hist_vars
<1>2. \A q \in Procs : pc'[q] = pc[q] \/ (q = current /\ pc[q] = "user" /\ pc'[q] = "return")
  BY <1>1 DEF UserSemInv, NothingOutlivesTheCall, TypeOK
<1>3. Queued' = {} /\ wait_queue' \in Seq(Procs)
  BY <1>1 DEF Queued, Elements
<1>4. SchedInv' /\ CurrentRuns' /\ WaitQueueExact' /\ TokensConserved'
  BY <1>1, <1>2, <1>3, QueuedFacts, WakesWaiters
<1>5. NothingOutlivesTheCall'
  <2>1. \A q \in Procs : state'[q] = "ZOMBIE" => state[q] = "ZOMBIE"
    BY <1>1 DEF Wakeup
  <2>2. TypeOK'
    BY <1>1, <1>3, <1>4 DEF Free, UserSemInv, SchedInv, NothingOutlivesTheCall, TypeOK
  <2>3. QED
    BY <1>1, <2>1, <2>2, CallerIsOutside DEF UserSemInv, NothingOutlivesTheCall, TypeOK
<1>6. QED
  BY <1>4, <1>5 DEF UserSemInv

LEMMA KillSafe ==
    ASSUME UserSemInv, NEW p \in Procs, current = p, NEW target \in Procs, Kill(p, target)
    PROVE  UserSemInv'
<1> DEFINE W == IF wait_state[target] = WaitState THEN {target} ELSE {}
<1>1. /\ killed' = killed \cup {target} /\ Wakeup(W)
      /\ pc[p] = "user" /\ pc' = [pc EXCEPT ![p] = "return"]
      /\ UNCHANGED <<value, wait_queue, wakeup_flags, valid, timer, posts, grants>>
  BY DEF Kill, sem_vars, hist_vars
<1>2. W \in SUBSET Procs /\ \A q \in W : state[q] # "ZOMBIE"
  BY SchedAssumption, SemAssumption DEF UserSemInv, SchedInv, WaitStateWhileSleeping
<1>3. \A q \in Procs : pc'[q] = pc[q] \/ (q = current /\ pc[q] = "user" /\ pc'[q] = "return")
  BY <1>1 DEF UserSemInv, NothingOutlivesTheCall, TypeOK
<1> HIDE DEF W
<1>4. Queued' = Queued /\ Queued \in SUBSET Procs
  BY <1>1, QueuedFacts DEF Queued
<1>5. SchedInv' /\ CurrentRuns' /\ WaitQueueExact' /\ TokensConserved'
  BY <1>1, <1>2, <1>3, <1>4, WakesWaiters
<1>6. NothingOutlivesTheCall'
  <2>1. \A q \in Procs : state'[q] = "ZOMBIE" => state[q] = "ZOMBIE"
    BY <1>1 DEF Wakeup
  <2>2. TypeOK'
    BY <1>1, <1>5 DEF UserSemInv, SchedInv, NothingOutlivesTheCall, TypeOK
  <2>3. QED
    BY <1>1, <2>1, <2>2, CallerIsOutside DEF UserSemInv, NothingOutlivesTheCall, TypeOK
<1>7. QED
  BY <1>5, <1>6 DEF UserSemInv

\* The timers that fire belong to waits that are still going on: no zombie is
\* woken.
LEMMA TickSafe ==
    ASSUME UserSemInv, Tick
    PROVE  UserSemInv'
<1> DEFINE expired == {q \in Procs : timer[q] = 1}
<1>1. /\ timer' = [q \in Procs |-> CountDown(q)] /\ Wakeup(expired)
      /\ pc' = [q \in Procs |-> IF q = current /\ pc[q] = "user" THEN "return" ELSE pc[q]]
      /\ UNCHANGED <<value, wait_queue, wakeup_flags, valid, killed, posts, grants>>
  BY DEF Tick, sem_vars, hist_vars
<1>2. expired \in SUBSET Procs /\ \A q \in expired : state[q] # "ZOMBIE"
  BY UserSemAssumption DEF UserSemInv, NothingOutlivesTheCall
<1>3. \A q \in Procs : pc'[q] = pc[q] \/ (q = current /\ pc[q] = "user" /\ pc'[q] = "return")
  BY <1>1
<1> HIDE DEF expired
<1>4. Queued' = Queued /\ Queued \in SUBSET Procs
  BY <1>1, QueuedFacts DEF Queued
<1>5. SchedInv' /\ CurrentRuns' /\ WaitQueueExact' /\ TokensConserved'
  BY <1>1, <1>2, <1>3, <1>4, WakesWaiters
<1>6. NothingOutlivesTheCall'
  <2>1. \A q \in Procs : state'[q] = "ZOMBIE" => state[q] = "ZOMBIE"
    BY <1>1 DEF Wakeup
  <2>2. \A q \in Procs : /\ CountDown(q) \in Nat \cup {NoTimer}
                         /\ CountDown(q) # NoTimer => timer[q] # NoTimer
    BY DEF CountDown, UserSemInv, NothingOutlivesTheCall, TypeOK
  <2>3. TypeOK'
    BY <1>1, <1>5, <2>2 DEF UserSemInv, SchedInv, NothingOutlivesTheCall, TypeOK
  <2>4. QED
    BY <1>1, <2>1, <2>2, <2>3, CallerIsOutside DEF UserSemInv, NothingOutlivesTheCall, TypeOK
<1>7. QED
  BY <1>5, <1>6 DEF UserSemInv

-----------------------------------------------------------------------------
(* Giving the CPU away *)

\* A process that exits is outside the queue and has no timer.
LEMMA LeaveSafe ==
    ASSUME UserSemInv, NEW p \in Procs, current = p, Leave(p)
    PROVE  UserSemInv'
<1>1. /\ pc[p] \in {"user", "return"} /\ pc' = [pc EXCEPT ![p] = "schedule"]
      /\ state' = [state EXCEPT ![p] = "ZOMBIE"]
      /\ UNCHANGED <<value, wait_queue, wakeup_flags, current, wait_state, runq, panic,
                     valid, timer, killed, posts, grants, Queued>>
  BY DEF Leave, Exit, sem_vars, hist_vars, Queued
<1>2. /\ state[p] = "RUNNABLE" /\ p \notin Queued /\ p \notin InFlight /\ timer[p] = NoTimer
  BY <1>1, CallerIsOutside
<1>3. InFlight' = InFlight
  BY <1>1, <1>2 DEF InFlight, UserSemInv, NothingOutlivesTheCall, TypeOK, SchedTypeOK
<1>4. SchedInv'
  BY <1>1, <1>2
  DEF UserSemInv, SchedInv, SchedTypeOK, ProcStates, OnRunQueue, WaitStateWhileSleeping
<1>5. CurrentRuns'
  BY <1>1, <1>2 DEF UserSemInv, CurrentRuns, NothingOutlivesTheCall, TypeOK, SchedTypeOK
<1>6. NothingOutlivesTheCall'
  BY <1>1, <1>2, <1>4
  DEF UserSemInv, SchedInv, NothingOutlivesTheCall, TypeOK, SchedTypeOK
<1>7. WaitQueueExact'
  BY <1>1, <1>2, QueuedFacts
  DEF UserSemInv, WaitQueueExact, NoTokenWithWaiters, SleepersWait, QueueIsCallers,
      NothingOutlivesTheCall, TypeOK, SchedTypeOK
<1>8. TokensConserved'
  BY <1>1, <1>3, TokensStay DEF UserSemInv
<1>9. QED
  BY <1>4, <1>5, <1>6, <1>7, <1>8 DEF UserSemInv

\* schedule(), called in a wait, after an exit, at the end of trap() or by
\* idleproc: who gets the CPU is runnable.
LEMMA RescheduleSafe ==
    ASSUME UserSemInv, Reschedule, UNCHANGED <<sem_vars, valid, timer, killed, hist_vars>>,
           \/ current = Idle /\ UNCHANGED pc
           \/ \E p \in Procs : p = current /\
                 \/ pc[p] = "schedule" /\ pc' = [pc EXCEPT ![p] = "resume"]
                 \/ pc[p] = "return" /\ pc' = [pc EXCEPT ![p] = "user"]
    PROVE  UserSemInv'
<1>1. UNCHANGED <<state, wait_state, panic, value, wait_queue, wakeup_flags, valid, timer, killed,
                  posts, grants, Queued>>
  BY DEF Reschedule, sem_vars, hist_vars, Queued
<1>2. SchedInv' /\ \A p \in Procs : p = current' => state[p] = "RUNNABLE"
  BY RescheduleKeepsQueue, RescheduledRuns DEF UserSemInv
<1>3. /\ \A p \in Procs : /\ pc'[p] \in {"schedule", "resume"} <=> pc[p] \in {"schedule", "resume"}
                          /\ pc'[p] # "schedule"
      /\ pc' \in [Procs -> {"user", "schedule", "resume", "failed", "return"}]
  BY SchedAssumption DEF UserSemInv, CurrentRuns, NothingOutlivesTheCall, TypeOK
<1>4. InFlight' = InFlight
  BY <1>1, <1>3 DEF InFlight
<1>5. CurrentRuns'
  BY <1>1, <1>2, <1>3 DEF UserSemInv, CurrentRuns
<1>6. NothingOutlivesTheCall'
  BY <1>1, <1>2, <1>3 DEF UserSemInv, SchedInv, NothingOutlivesTheCall, TypeOK
<1>7. WaitQueueExact'
  <2>1. UNCHANGED Distinct(wait_queue)
    BY <1>1 DEF Distinct
  <2>2. NoTokenWithWaiters' /\ SleepersWait'
    BY <1>1 DEF UserSemInv, WaitQueueExact, NoTokenWithWaiters, SleepersWait
  <2>3. QueueIsCallers'
    BY <1>1, <1>3, <2>1, QueuedFacts DEF QueueIsCallers
  <2>4. QED
    BY <2>2, <2>3 DEF WaitQueueExact
<1>8. TokensConserved'
  BY <1>1, <1>4, TokensStay DEF UserSemInv
<1>9. QED
  BY <1>2, <1>5, <1>6, <1>7, <1>8 DEF UserSemInv

\* Back in user mode without a call of schedule().
LEMMA ReturnSafe ==
    ASSUME UserSemInv, NEW p \in Procs, pc[p] = "return", pc' = [pc EXCEPT ![p] = "user"],
           UNCHANGED <<sched_vars, sem_vars, valid, timer, killed, hist_vars>>
    PROVE  UserSemInv'
<1>1. UNCHANGED <<current, state, wait_state, runq, panic, value, wait_queue, wakeup_flags, valid,
                  timer, killed, posts, grants, Queued>>
  BY DEF sched_vars, sem_vars, hist_vars, Queued
<1>2. InFlight' = InFlight
  BY <1>1 DEF InFlight, UserSemInv, NothingOutlivesTheCall, TypeOK
<1>3. SchedInv' /\ CurrentRuns' /\ WaitQueueExact'
  BY <1>1
  DEF UserSemInv, SchedInv, SchedTypeOK, OnRunQueue, WaitStateWhileSleeping, CurrentRuns,
      WaitQueueExact, NoTokenWithWaiters, SleepersWait, QueueIsCallers, NothingOutlivesTheCall, TypeOK
<1>4. NothingOutlivesTheCall'
  BY <1>1, <1>3 DEF UserSemInv, SchedInv, NothingOutlivesTheCall, TypeOK
<1>5. TokensConserved'
  BY <1>1, <1>2, TokensStay DEF UserSemInv
<1>6. QED
  BY <1>3, <1>4, <1>5 DEF UserSemInv

-----------------------------------------------------------------------------

LEMMA UserSemStep ==
    ASSUME UserSemInv, [Next]_vars
    PROVE  UserSemInv'
<1>1. ASSUME NEW p \in Procs, current = p, Running(p)
      PROVE  UserSemInv'
  <2>1. CASE WaitFast(p)
    BY <1>1, <2>1, WaitFastSafe
  <2>2. CASE WaitBlock(p)
    BY <1>1, <2>2, WaitBlockSafe
  <2>3. CASE Schedule(p)
    BY <1>1, <2>3, RescheduleSafe DEF Schedule, DownSchedule, hist_vars
  <2>4. CASE WaitResume(p)
    BY <1>1, <2>4, WaitResumeSafe
  <2>5. CASE Post(p)
    BY <1>1, <2>5, PostIncrementSafe, PostHandOffSafe, PostPanicSafe DEF Post, Up
  <2>6. CASE Free(p)
    BY <1>1, <2>6, FreeSafe
  <2>7. CASE Leave(p)
    BY <1>1, <2>7, LeaveSafe
  <2>8. CASE Return(p)
    BY <1>1, <2>8, RescheduleSafe, ReturnSafe DEF Return
  <2>9. CASE \E target \in Procs : Kill(p, target)
    BY <1>1, <2>9, KillSafe
  <2>10. QED
    BY <1>1, <2>1, <2>2, <2>3, <2>4, <2>5, <2>6, <2>7, <2>8, <2>9 DEF Running
<1>2. CASE Tick
  BY <1>2, TickSafe
<1>3. CASE IdleLoop
  BY <1>3, RescheduleSafe DEF IdleLoop
<1>4. CASE UNCHANGED vars
  BY <1>4
  DEF vars, sched_vars, sem_vars, hist_vars, UserSemInv, SchedInv, SchedTypeOK, OnRunQueue,
      WaitStateWhileSleeping, CurrentRuns, WaitQueueExact, NoTokenWithWaiters, SleepersWait,
      QueueIsCallers, Queued, TokensConserved, InFlight, NothingOutlivesTheCall, TypeOK
<1>5. QED
  BY <1>1, <1>2, <1>3, <1>4 DEF Next

LEMMA UserSemAlways == Spec => []UserSemInv
  BY UserSemInit, UserSemStep, PTL DEF Spec

\* No V is lost and none is counted twice, whatever timeouts, kills, frees and
\* hand-offs come between it and the return of the wait it satisfies: for any
\* number of processes and any timeouts.
THEOREM PostsAreConserved == Spec => []TokensConserved
<1>1. UserSemInv => TokensConserved
  BY DEF UserSemInv
<1>2. QED
  BY <1>1, UserSemAlways, PTL

\* The wait queue of a user semaphore: no positive value with a waiter, no
\* sleeper outside it or with a token, nobody in it twice or after its call.
THEOREM NoWakeupIsLost == Spec => []WaitQueueExact
<1>1. UserSemInv => WaitQueueExact
  BY DEF UserSemInv
<1>2. QED
  BY <1>1, UserSemAlways, PTL

\* No timer outlives the call of ipc_sem_wait() that armed it, and a semaphore
\* that was freed has nobody in its queue.
THEOREM CallsLeaveNothing == Spec => []NothingOutlivesTheCall
<1>1. UserSemInv => NothingOutlivesTheCall
  BY DEF UserSemInv
<1>2. QED
  BY <1>1, UserSemAlways, PTL
=============================================================================

-------------------------------- MODULE Mlfq --------------------------------
(***************************************************************************)
(* The scheduling class in use, sched_MLFQ.c over sched_RR.c: Levels round *)
(* robin queues, the time slice doubling from one to the next, driven by   *)
(* wakeup_proc(), schedule() and the timer interrupt of sched.c and by the *)
(* split of the time slice in do_fork().                                   *)
(***************************************************************************)
EXTENDS Naturals, FiniteSets, Lists

CONSTANTS Procs, Idle, WaitStates,
          Levels,       \* number of run queues (4 in sched.c)
          BaseSlice     \* max_time_slice of the first (8 in sched.c)

ASSUME MlfqAssumption == /\ Levels \in Nat \ {0} /\ BaseSlice \in Nat \ {0}
                         /\ Idle \notin Procs /\ "none" \notin WaitStates

VARIABLES current, state, wait_state, panic,   \* as in module Scheduler
          queue,         \* queue[l], the run_list of the l-th run queue
          rq,            \* proc->rq, the last queue of a process (0 is NULL)
          time_slice,    \* proc->time_slice
          need_resched   \* proc->need_resched

vars == <<current, state, wait_state, panic, queue, rq, time_slice, need_resched>>

Level == 1 .. Levels
Queued(l) == Elements(queue[l])
LeftShift[i \in Nat] == IF i = 0 THEN 1 ELSE 2 * LeftShift[i - 1]     \* 1 << i
max_time_slice(l) == BaseSlice * LeftShift[l - 1]

Linked == UNION {Queued(l) : l \in Level}
Sched == INSTANCE Scheduler WITH runq <- Linked

TypeOK ==
    /\ Sched!SchedTypeOK
    /\ queue \in [Level -> Seq(Procs)]
    /\ rq \in [Procs -> 0 .. Levels]
    /\ time_slice \in [Procs -> Nat]
    /\ need_resched \in [Procs \cup {Idle} -> BOOLEAN]

\* proc_init() and sched_init(): idleproc runs and is to be rescheduled.
Init ==
    /\ current = Idle
    /\ state = [p \in Procs |-> "UNINIT"]
    /\ wait_state = [p \in Procs |-> "none"]
    /\ panic = "none"
    /\ queue = [l \in Level |-> <<>>]
    /\ rq = [p \in Procs |-> 0]
    /\ time_slice = [p \in Procs |-> 0]
    /\ need_resched = [p \in Procs \cup {Idle} |-> p = Idle]

-----------------------------------------------------------------------------
(* The scheduling class *)

\* The queue MLFQ_enqueue() chooses for a process with time slice ts: the next
\* one down (the last has none) if it used up its slice, else the first.
LevelFor(p, ts) ==
    IF rq[p] = 0 \/ ts > 0 THEN 1
    ELSE IF rq[p] = Levels THEN Levels ELSE rq[p] + 1

\* Faulty variants of Enqueue: at the head, or without a fresh slice.
EnqueueAtHead(p, ts) ==
    LET l == LevelFor(p, ts) IN
    [queue |-> [queue EXCEPT ![l] = <<p>> \o @],
     rq    |-> [rq EXCEPT ![p] = l],
     slice |-> IF ts = 0 \/ ts > max_time_slice(l) THEN max_time_slice(l) ELSE ts]
EnqueueNoRefill(p, ts) ==
    LET l == LevelFor(p, ts) IN
    [queue |-> [queue EXCEPT ![l] = Append(@, p)],
     rq    |-> [rq EXCEPT ![p] = l],
     slice |-> IF ts > max_time_slice(l) THEN max_time_slice(l) ELSE ts]

\* RR_enqueue(): at the tail, with a fresh slice if it has none or too much.
Enqueue(p, ts) ==
    LET l == LevelFor(p, ts) IN
    [queue |-> [queue EXCEPT ![l] = Append(@, p)],
     rq    |-> [rq EXCEPT ![p] = l],
     slice |-> IF ts = 0 \/ ts > max_time_slice(l) THEN max_time_slice(l) ELSE ts]

\* MLFQ_pick_next(): the first process of the first queue that has one.
FirstQueue(q) == CHOOSE l \in Level : q[l] # <<>> /\ \A k \in 1 .. l - 1 : q[k] = <<>>

-----------------------------------------------------------------------------
(* sched.c and its callers *)

\* Faulty variant of Wakeup: the running process is queued as well.
WakeupQueuesCurrent(p) ==
    LET e == Enqueue(p, time_slice[p]) IN
    /\ state[p] = "SLEEPING"
    /\ state' = [state EXCEPT ![p] = "RUNNABLE"]
    /\ wait_state' = [wait_state EXCEPT ![p] = "none"]
    /\ queue' = e.queue /\ rq' = e.rq
    /\ time_slice' = [time_slice EXCEPT ![p] = e.slice]
    /\ UNCHANGED <<current, panic, need_resched>>

\* wakeup_proc() of a process that sleeps.
Wakeup(p) ==
    /\ state[p] = "SLEEPING"
    /\ state' = [state EXCEPT ![p] = "RUNNABLE"]
    /\ wait_state' = [wait_state EXCEPT ![p] = "none"]
    /\ IF p = current THEN UNCHANGED <<queue, rq, time_slice>>
       ELSE LET e == Enqueue(p, time_slice[p]) IN
            /\ queue' = e.queue /\ rq' = e.rq
            /\ time_slice' = [time_slice EXCEPT ![p] = e.slice]
    /\ UNCHANGED <<current, panic, need_resched>>

\* do_fork(): the child gets half of the slice of the running process and is
\* woken (alloc_proc() has set its rq to NULL).
Fork(child) ==
    LET given == time_slice[current] \div 2
        e == Enqueue(child, given)
    IN
    /\ state[child] = "UNINIT" /\ rq[child] = 0
    /\ current \in Procs /\ state[current] = "RUNNABLE"
    /\ state' = [state EXCEPT ![child] = "RUNNABLE"]
    /\ queue' = e.queue /\ rq' = e.rq
    /\ time_slice' = [time_slice EXCEPT ![current] = @ - given, ![child] = e.slice]
    /\ UNCHANGED <<current, wait_state, panic, need_resched>>

\* The first process, forked by idleproc, which has no time slice.
ForkInit(child) ==
    LET e == Enqueue(child, 0) IN
    /\ current = Idle /\ \A p \in Procs : state[p] = "UNINIT"
    /\ state' = [state EXCEPT ![child] = "RUNNABLE"]
    /\ queue' = e.queue /\ rq' = e.rq
    /\ time_slice' = [time_slice EXCEPT ![child] = e.slice]
    /\ UNCHANGED <<current, wait_state, panic, need_resched>>

\* The running process goes to sleep, or ends.
Stop(to, ws) ==
    /\ current \in Procs /\ state[current] = "RUNNABLE"
    /\ state' = [state EXCEPT ![current] = to]
    /\ wait_state' = [wait_state EXCEPT ![current] = ws]
    /\ UNCHANGED <<current, panic, queue, rq, time_slice, need_resched>>

\* do_wait() frees the dead process; a new one gets a structure with rq NULL.
Reap(p) ==
    /\ state[p] = "ZOMBIE" /\ p # current
    /\ state' = [state EXCEPT ![p] = "UNINIT"]
    /\ rq' = [rq EXCEPT ![p] = 0]
    /\ time_slice' = [time_slice EXCEPT ![p] = 0]
    /\ need_resched' = [need_resched EXCEPT ![p] = FALSE]
    /\ UNCHANGED <<current, wait_state, panic, queue>>

\* do_yield(), or lock() on a lock that is taken.
Yield ==
    /\ current \in Procs /\ state[current] = "RUNNABLE"
    /\ need_resched' = [need_resched EXCEPT ![current] = TRUE]
    /\ UNCHANGED <<current, state, wait_state, panic, queue, rq, time_slice>>

\* schedule(), called by a process that stopped or, with need_resched set, at
\* the end of trap() and by cpu_idle().
Schedule ==
    LET again == current \in Procs /\ state[current] = "RUNNABLE"
        e == IF again THEN Enqueue(current, time_slice[current])
             ELSE [queue |-> queue, rq |-> rq]
        next == Head(e.queue[FirstQueue(e.queue)])
    IN
    /\ need_resched[current] \/ (current \in Procs /\ state[current] # "RUNNABLE")
    /\ need_resched' = [need_resched EXCEPT ![current] = FALSE]
    /\ rq' = e.rq
    /\ time_slice' = IF again THEN [time_slice EXCEPT ![current] = e.slice] ELSE time_slice
    /\ IF \A l \in Level : e.queue[l] = <<>>
       THEN current' = Idle /\ queue' = e.queue
       ELSE current' = next /\ queue' = [e.queue EXCEPT ![FirstQueue(e.queue)] = Tail(@)]
    /\ UNCHANGED <<state, wait_state, panic>>

\* The timer interrupt: RR_proc_tick() for a process, need_resched for
\* idleproc; every TICK_NUM ticks trap_dispatch() sets need_resched as well.
Tick ==
    /\ time_slice' = IF current = Idle \/ time_slice[current] = 0 THEN time_slice
                     ELSE [time_slice EXCEPT ![current] = @ - 1]
    /\ \E every \in BOOLEAN :
          need_resched' = [need_resched EXCEPT ![current] =
              @ \/ every \/ current = Idle \/ time_slice'[current] = 0]
    /\ UNCHANGED <<current, state, wait_state, panic, queue, rq>>

Next ==
    \/ \E p \in Procs : Wakeup(p) \/ Fork(p) \/ ForkInit(p) \/ Reap(p)
    \/ \E ws \in WaitStates : Stop("SLEEPING", ws)
    \/ Stop("ZOMBIE", "none")
    \/ Yield
    \/ Schedule
    \/ Tick

Spec == Init /\ [][Next]_vars

\* Timer interrupts keep coming, and whoever is to be rescheduled gets there:
\* no path of the kernel runs for ever without blocking or returning to trap().
FairSpec == Spec /\ WF_vars(Tick) /\ WF_vars(Schedule)

-----------------------------------------------------------------------------
(* Properties *)

\* The state is well typed and the run queues are consistent: a process is linked
\* into the queue its rq names, once, exactly when it is runnable and not
\* running; nobody has more than the slice of its queue, and who waits has some.
QueuesConsistent ==
    /\ TypeOK
    /\ \A p \in Procs :
        /\ time_slice[p] <= IF rq[p] = 0 THEN 0 ELSE max_time_slice(rq[p])
        /\ \A l \in Level :
              Cardinality({i \in DOMAIN queue[l] : queue[l][i] = p}) =
              IF l = rq[p] /\ state[p] = "RUNNABLE" /\ p # current THEN 1 ELSE 0
        /\ state[p] = "RUNNABLE" /\ p # current =>
              rq[p] # 0 /\ time_slice[p] > 0

\* Round robin on the first queue: whoever is in it gets the CPU, however the
\* others sleep, wake, yield and fork.  Whoever is in the second gets it once the
\* others only run, yield and poll a lock, as they do with lock() of sync.h when
\* he holds it: a poller uses its slice up and joins the second queue behind him.
\* (Further down there is no such promise: the poller goes back to the first
\* queue, so that it never leaves the first two; and there is no priority boost.)
QueuesServed ==
    /\ \A p \in Procs : p \in Queued(1) ~> current = p
    /\ Levels > 1 /\ <>[][FALSE]_state => \A p \in Procs : p \in Queued(2) ~> current = p

\* The four queues behave like the set of queued processes that the other
\* modules use: schedule() loses nobody and takes nobody who is not queued.
ImplementsScheduler == Sched!SchedSpec
=============================================================================

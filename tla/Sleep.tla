-------------------------------- MODULE Sleep --------------------------------
(***************************************************************************)
(* do_sleep() on top of the timer list and the scheduler, with the timer   *)
(* interrupt and the wakeups that cut a sleep short: a kill, or the        *)
(* wakeup_proc(kswapd) of swap.c and init_main.                            *)
(***************************************************************************)
EXTENDS Scheduler, TimerList

CONSTANT SleepTimes     \* the arguments of do_sleep

ASSUME SleepAssumption == /\ SleepTimes \subseteq Nat \ {0}
                          /\ "WT_TIMER" \in WaitStates
                          /\ Owners = Procs

VARIABLES sleep_pc,     \* "run", in do_sleep before schedule() or after it
          left,         \* history: ticks still to sleep when last asleep
          interrupted   \* the processes whose sleep was cut short

sleep_vars == <<sched_vars, timer_vars, sleep_pc, left, interrupted>>

SleepTypeOK ==
    /\ SchedTypeOK /\ TimerTypeOK
    /\ sleep_pc \in [Procs -> {"run", "schedule", "resume"}]
    /\ left \in [Procs -> Nat]
    /\ interrupted \subseteq Procs

SleepInit ==
    /\ SchedInit(Procs) /\ TimerInit
    /\ sleep_pc = [p \in Procs |-> "run"]
    /\ left = [p \in Procs |-> 0]
    /\ interrupted = {}

\* do_sleep(), lines 989-998.
DoSleep(p) ==
    /\ sleep_pc[p] = "run"
    /\ \E time \in SleepTimes :
          /\ AddTimer(p, time)
          /\ left' = [left EXCEPT ![p] = time]
    /\ Block("WT_TIMER")
    /\ sleep_pc' = [sleep_pc EXCEPT ![p] = "schedule"]
    /\ interrupted' = interrupted \ {p}

\* The call of schedule(), or a preemption of a process that does not sleep.
SleepSchedule(p) ==
    /\ sleep_pc[p] \in {"run", "schedule"}
    /\ Reschedule
    /\ sleep_pc' = [sleep_pc EXCEPT ![p] = IF sleep_pc[p] = "run" THEN "run" ELSE "resume"]
    /\ UNCHANGED <<timer_vars, left, interrupted>>

\* The sleeper runs again and removes its timer.
Resume(p) ==
    /\ sleep_pc[p] = "resume"
    /\ DelTimer(p)
    /\ sleep_pc' = [sleep_pc EXCEPT ![p] = "run"]
    /\ UNCHANGED <<sched_vars, left, interrupted>>

\* The running process wakes a sleeper; the timer of the sleeper stays.
Interrupt(target) ==
    /\ wait_state[target] = "WT_TIMER"
    /\ Wakeup({target})
    /\ interrupted' = interrupted \cup {target}
    /\ UNCHANGED <<timer_vars, sleep_pc, left>>

\* The timer interrupt.
SleepTick ==
    /\ RunTimers
    /\ Wakeup(Expired)
    /\ left' = [p \in Procs |-> IF state[p] = "SLEEPING" THEN left[p] - 1 ELSE left[p]]
    /\ UNCHANGED <<sleep_pc, interrupted>>

SleepIdle ==
    /\ current = Idle
    /\ Reschedule
    /\ UNCHANGED <<timer_vars, sleep_pc, left, interrupted>>

SleepRunning(p) ==
    \/ DoSleep(p) \/ SleepSchedule(p) \/ Resume(p)
    \/ sleep_pc[p] = "run" /\ \E target \in Procs \ {p} : Interrupt(target)

SleepNext ==
    \/ \E p \in Procs : current = p /\ SleepRunning(p)
    \/ SleepTick
    \/ SleepIdle

SleepSpec == SleepInit /\ [][SleepNext]_sleep_vars

-----------------------------------------------------------------------------
(* Properties *)

\* A sleep lasts exactly the ticks asked for: a sleeper has ticks to go, and
\* they are what the distances in the list add up to; who was woken by its
\* timer had none left.  A linked timer_t lives on the kernel stack of a process
\* that is still in do_sleep(), and is linked once.  run_timer_list() never finds
\* a head without a tick to go (its assertion).
SleepsExactly ==
    /\ SleepTypeOK
    /\ HeadNotExpired
    /\ \A p \in Linked : sleep_pc[p] \in {"schedule", "resume"}
    /\ \A i, j \in DOMAIN timer_list : timer_list[i] = timer_list[j] => i = j
    /\ \A p \in Procs :
        /\ state[p] = "SLEEPING" => p \in Linked /\ left[p] > 0 /\ left[p] = Remaining(p)
        /\ (sleep_pc[p] # "run" /\ state[p] = "RUNNABLE" /\ p \notin interrupted) => left[p] = 0
=============================================================================

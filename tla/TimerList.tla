----------------------------- MODULE TimerList -----------------------------
(***************************************************************************)
(* The timer list of kern/schedule/sched.c: a list ordered by expiry, in   *)
(* which timer->expires counts the ticks after the timer before it.  Only  *)
(* the head is decremented at a tick.                                      *)
(***************************************************************************)
EXTENDS Naturals, SequencesExt

CONSTANTS Owners,       \* the processes; each has one timer_t on its stack
          Off           \* "not armed", for the abstract timers

ASSUME TimerAssumption == Off \notin Nat

VARIABLES timer_list,   \* the owners of the linked timers, soonest first
          expires       \* timer->expires, relative to the predecessor

timer_vars == <<timer_list, expires>>

TimerTypeOK ==
    /\ timer_list \in Seq(Owners)
    /\ expires \in [Owners -> Nat]

TimerInit == timer_list = <<>> /\ expires = [p \in Owners |-> 0]

Linked == {timer_list[i] : i \in DOMAIN timer_list}

-----------------------------------------------------------------------------
(* Operations *)

\* The ticks from now to each of the timers, 0 being now: what the distances
\* add up to.
TicksUpTo(list, distance) ==
    LET sum[i \in 0 .. Len(list)] == IF i = 0 THEN 0 ELSE sum[i - 1] + distance[list[i]] IN sum

\* The loop of add_timer() goes past the timers that are due by then, and
\* takes their distances off: where the new timer goes and what it keeps.
Place(ticks) ==
    LET from_now == TicksUpTo(timer_list, expires)
        stops == {i \in 1 .. Len(timer_list) : ticks < from_now[i]}
        position == CHOOSE i \in stops \cup {Len(timer_list) + 1} : \A j \in stops : i <= j IN
    [position |-> position, rest |-> ticks - from_now[position - 1]]

\* Faulty variant of AddTimer: the next timer is not reduced.
AddTimerKeepsNext(p, ticks) ==
    LET place == Place(ticks) IN
    /\ ticks > 0 /\ p \notin Linked
    /\ timer_list' = InsertAt(timer_list, place.position, p)
    /\ expires' = [expires EXCEPT ![p] = place.rest]

\* add_timer(): the timer after the new one is now counted from the new one.
AddTimer(p, ticks) ==
    LET place == Place(ticks) IN
    /\ ticks > 0 /\ p \notin Linked
    /\ timer_list' = InsertAt(timer_list, place.position, p)
    /\ expires' = [q \in Owners |->
           CASE q = p -> place.rest
             [] place.position <= Len(timer_list) /\ q = timer_list[place.position]
                  -> expires[q] - place.rest
             [] OTHER -> expires[q]]

\* Faulty variant of DelTimer: the ticks of the timer are lost.
DelTimerLosesTicks(p) ==
    IF p \notin Linked THEN UNCHANGED timer_vars
    ELSE /\ timer_list' = SelectSeq(timer_list, LAMBDA q : q # p)
         /\ UNCHANGED expires

\* del_timer(): the timer after it inherits its ticks; nothing happens when
\* the timer is not linked.
DelTimer(p) ==
    IF p \notin Linked THEN UNCHANGED timer_vars
    ELSE LET i == CHOOSE i \in DOMAIN timer_list : timer_list[i] = p IN
         /\ timer_list' = RemoveAt(timer_list, i)
         /\ expires' = [q \in Owners |->
                IF i < Len(timer_list) /\ q = timer_list[i + 1]
                THEN expires[q] + expires[p] ELSE expires[q]]

\* The timers that the loop of run_timer_list() reaches: the head, if this
\* tick is its last, and those at distance 0 behind it.
Expired ==
    {timer_list[i] : i \in {j \in DOMAIN timer_list :
        \A k \in 1 .. j : expires[timer_list[k]] = IF k = 1 THEN 1 ELSE 0}}

\* The list part of run_timer_list().
RunTimers ==
    IF timer_list = <<>> THEN UNCHANGED timer_vars
    ELSE /\ timer_list' = SubSeq(timer_list, Cardinality(Expired) + 1, Len(timer_list))
         /\ expires' = [expires EXCEPT ![Head(timer_list)] = @ - 1]

-----------------------------------------------------------------------------
(* Properties *)

\* The assertion of run_timer_list(): the head always has a tick to go.  It
\* depends on add_timer() and del_timer() keeping the distances right.
HeadNotExpired == timer_list # <<>> => expires[Head(timer_list)] > 0

\* The ticks that a linked timer still has to go.
Remaining(p) ==
    TicksUpTo(timer_list, expires)[CHOOSE i \in DOMAIN timer_list : timer_list[i] = p]

\* The list of distances behaves like independent countdowns, under any
\* sequence of sleeps, interruptions, deletions and ticks.
Countdowns == INSTANCE Alarms WITH
                  Procs <- Owners,
                  due <- [p \in Owners |-> IF p \in Linked THEN Remaining(p) ELSE Off]

ImplementsAlarms == Countdowns!Spec

\* The list on its own, for all that its users may do.  timer_init() leaves a
\* linked timer alone: its owner is in the middle of its sleep.
InitTimer(p) ==
    /\ p \notin Linked
    /\ \E ticks \in Nat : expires' = [expires EXCEPT ![p] = ticks]
    /\ UNCHANGED timer_list

TimerNext ==
    \/ \E p \in Owners : \/ InitTimer(p) \/ DelTimer(p)
                         \/ \E ticks \in Nat : AddTimer(p, ticks)
    \/ RunTimers

TimerSpec == TimerInit /\ [][TimerNext]_timer_vars
=============================================================================

-------------------------- MODULE ProcLifeProofs --------------------------
(***************************************************************************)
(* The family of processes stays in order for any number of processes and  *)
(* threads: everybody has a parent that can reap it (LivingParents), and   *)
(* fork, exit, wait and kill keep the contract of the scheduler.           *)
(***************************************************************************)
EXTENDS ProcLife, SchedulerProofs

\* Where the running process is in the code fits its state.
CurrentRuns ==
    current \in Procs =>
        \/ state[current] = "RUNNABLE" /\ pc[current] \notin {"notify", "dead"}
        \/ state[current] = "SLEEPING" /\ pc[current] = "asleep"
        \/ state[current] = "ZOMBIE" /\ pc[current] \in {"notify", "dead"}

\* A dead process is on its way out of __do_exit(), and only the running one
\* is in the middle of it.
DeadAreDone ==
    \A p \in Procs :
        /\ pc[p] = "notify" => p = current /\ state[p] = "ZOMBIE"
        /\ pc[p] = "dead" => state[p] \in {"ZOMBIE", "UNINIT"}
        /\ state[p] = "ZOMBIE" => pc[p] \in {"notify", "dead"}
        /\ p = InitProc => state[p] \in {"RUNNABLE", "SLEEPING"}

\* The groups partition the processes; those that are gone are alone.
GroupsPartition ==
    \A p \in Procs :
        /\ p \in group[p]
        /\ \A q \in group[p] : group[q] = group[p]
        /\ (pc[p] = "dead" \/ state[p] = "UNINIT") => group[p] = {p}

Family == CurrentRuns /\ DeadAreDone /\ GroupsPartition /\ LivingParents

LifeInv == /\ TypeOK /\ SchedInv
           /\ Family

-----------------------------------------------------------------------------
(* What the steps have in common.                                          *)

LEMMA InitEstablishes == Init => LifeInv
<1> SUFFICES ASSUME Init PROVE LifeInv
  OBVIOUS
<1>1. PICK main \in Procs \ {InitProc} :
        /\ SchedInit({InitProc, main})
        /\ parent = [p \in Procs |-> IF p = InitProc THEN Idle
                                     ELSE IF p = main THEN InitProc ELSE None]
  BY DEF Init
<1>2. SchedInv
  BY <1>1, SchedInvInductive, LifeAssumption
<1>3. TypeOK
  BY <1>1, <1>2, LifeAssumption DEF Init, TypeOK, SchedInv, WaitPhases
<1>4. Family
  BY <1>1, LifeAssumption, SchedAssumption
  DEF Init, SchedInit, Family, CurrentRuns, DeadAreDone, GroupsPartition, LivingParents, Live
<1>5. QED
  BY <1>2, <1>3, <1>4 DEF LifeInv

\* wakeup_proc() on living processes brings nobody back from the dead.
LEMMA WakeupOfLiving ==
    ASSUME NEW W \in SUBSET Procs, TypeOK, Wakeup(W),
           \A q \in W : state[q] # "ZOMBIE"
    PROVE  /\ current' = current
           /\ \A q \in Procs : \/ state'[q] = state[q]
                               \/ q \in W /\ state'[q] = "RUNNABLE"
  BY DEF Wakeup, TypeOK, SchedTypeOK

\* Whoever sleeps in do_wait() is not a zombie.
LEMMA SleepersLive ==
    ASSUME LifeInv, NEW q \in Procs, wait_state[q] = "WT_CHILD"
    PROVE  state[q] = "SLEEPING"
  BY LifeAssumption, SchedAssumption DEF LifeInv, SchedInv, WaitStateWhileSleeping

\* The running process p goes on to a phase outside the end of __do_exit();
\* others may be woken, parents and groups stay.
LEMMA GoOn ==
    ASSUME LifeInv, NEW p \in Procs, p = current, current' = current,
           pc[p] \notin {"asleep", "notify", "dead"},
           NEW next, next \notin {"notify", "dead"}, pc' = [pc EXCEPT ![p] = next],
           \A q \in Procs : \/ state'[q] = state[q]
                            \/ state[q] = "SLEEPING" /\ state'[q] = "RUNNABLE",
           UNCHANGED <<parent, group>>
    PROVE  Family'
<1>1. pc \in [Procs -> {"user", "trap", "loop"} \cup WaitPhases \cup ExitPhases]
  BY DEF LifeInv, TypeOK
<1>2. CurrentRuns'
  BY <1>1 DEF LifeInv, Family, CurrentRuns, DeadAreDone
<1>3. DeadAreDone'
  BY <1>1 DEF LifeInv, Family, CurrentRuns, DeadAreDone
<1>4. GroupsPartition'
  BY <1>1 DEF LifeInv, Family, GroupsPartition
<1>5. LivingParents'
  BY <1>1, SchedAssumption DEF LifeInv, Family, LivingParents, Live, CurrentRuns, DeadAreDone
<1>6. QED
  BY <1>2, <1>3, <1>4, <1>5 DEF Family

\* The running process gives the CPU away, before the end of __do_exit() or
\* after it.
LEMMA GiveAway ==
    ASSUME LifeInv, NEW p \in Procs, p = current, Reschedule,
           pc[p] # "notify",
           NEW next, pc' = [pc EXCEPT ![p] = next],
           next = "dead" <=> pc[p] = "dead", next # "notify",
           UNCHANGED <<parent, group>>
    PROVE  Family'
<1>1. /\ pc \in [Procs -> {"user", "trap", "loop"} \cup WaitPhases \cup ExitPhases]
      /\ state' = state
  BY DEF LifeInv, TypeOK, Reschedule
<1>2. \A q \in Procs : q = current' => state[q] = "RUNNABLE"
  BY RescheduledRuns DEF LifeInv
<1>3. CurrentRuns'
  BY <1>1, <1>2 DEF LifeInv, Family, CurrentRuns, DeadAreDone
<1>4. DeadAreDone'
  BY <1>1 DEF LifeInv, Family, CurrentRuns, DeadAreDone
<1>5. GroupsPartition'
  BY <1>1 DEF LifeInv, Family, GroupsPartition
<1>6. LivingParents'
  BY <1>1 DEF LifeInv, Family, LivingParents, Live, DeadAreDone
<1>7. QED
  BY <1>3, <1>4, <1>5, <1>6 DEF Family

\* The running process is runnable where system calls begin and go on.
LEMMA CallerRuns ==
    ASSUME LifeInv, NEW p \in Procs, p = current,
           pc[p] \notin {"asleep", "notify", "dead"}
    PROVE  state[p] = "RUNNABLE"
  BY DEF LifeInv, Family, CurrentRuns

-----------------------------------------------------------------------------
(* One lemma per action that changes the family.                           *)

Kept == [SchedNext]_sched_vars /\ Family'

LEMMA ForkKeeps ==
    ASSUME LifeInv, NEW p \in Procs, p = current,
           NEW child \in Procs, NEW thread \in BOOLEAN, Fork(p, child, thread)
    PROVE  Kept
<1> DEFINE ring == IF thread THEN group[p] \cup {child} ELSE {child}
<1>1. /\ pc[p] = "user" /\ state[child] = "UNINIT" /\ Wakeup({child})
      /\ pc' = [pc EXCEPT ![p] = "trap", ![child] = "user"]
      /\ parent' = [parent EXCEPT ![child] = p]
      /\ group' = [q \in Procs |-> IF q \in ring THEN ring ELSE group[q]]
  BY DEF Fork
<1>2. /\ pc \in [Procs -> {"user", "trap", "loop"} \cup WaitPhases \cup ExitPhases]
      /\ parent \in [Procs -> Procs \cup {Idle, None}]
      /\ group \in [Procs -> SUBSET Procs]
  BY DEF LifeInv, TypeOK
<1>3. state[p] = "RUNNABLE" /\ p # child
  BY <1>1, CallerRuns
<1>4. /\ current' = current
      /\ state'[child] = "RUNNABLE"
      /\ \A q \in Procs \ {child} : state'[q] = state[q]
  BY <1>1 DEF Wakeup, LifeInv, TypeOK, SchedTypeOK
<1>5. [SchedNext]_sched_vars
  BY <1>1 DEF SchedNext
<1>6. CurrentRuns'
  BY <1>1, <1>2, <1>3, <1>4 DEF CurrentRuns
<1>7. DeadAreDone'
  BY <1>1, <1>2, <1>3, <1>4 DEF LifeInv, Family, DeadAreDone
<1>8. GroupsPartition'
  <2>1. group[child] = {child}
    BY <1>1 DEF LifeInv, Family, GroupsPartition
  <2>2. p \in group[p] /\ \A q \in group[p] : group[q] = group[p]
    BY DEF LifeInv, Family, GroupsPartition
  <2>3. ring \in SUBSET Procs /\ child \in ring
    BY <1>2
  <2>4. \A q \in Procs \ ring : group[q] \cap ring = {}
    BY <1>2, <2>1, <2>2 DEF LifeInv, Family, GroupsPartition
  <2>5. \A q \in ring : q = child \/ q \in group[p]
    OBVIOUS
  <2>6. ASSUME NEW q \in group[p], q # p
        PROVE  state[q] # "UNINIT" /\ pc[q] # "dead"
    <3>1. q \in Procs /\ group[q] # {q}
      BY <1>2, <2>2, <2>6
    <3>2. QED
      BY <3>1 DEF LifeInv, Family, GroupsPartition
  <2>7. pc'[child] = "user" /\ pc'[p] = "trap" /\ \A q \in Procs \ {p, child} : pc'[q] = pc[q]
    BY <1>1, <1>2, <1>3
  <2> HIDE DEF ring
  <2>8. \A q \in Procs : group'[q] = IF q \in ring THEN ring ELSE group[q]
    BY <1>1
  <2>9. ASSUME NEW q \in Procs
        PROVE  q \in group'[q] /\ \A r \in group'[q] : group'[r] = group'[q]
    <3>1. CASE q \in ring
      BY <3>1, <2>3, <2>8
    <3>2. CASE q \notin ring
      BY <3>2, <1>2, <2>4, <2>8 DEF LifeInv, Family, GroupsPartition
    <3>3. QED
      BY <3>1, <3>2
  <2>10. ASSUME NEW q \in Procs, pc'[q] = "dead" \/ state'[q] = "UNINIT"
         PROVE  group'[q] = {q}
    <3>1. q # child /\ q # p
      BY <2>7, <2>10, <1>3, <1>4
    <3>2. pc[q] = "dead" \/ state[q] = "UNINIT"
      BY <2>7, <2>10, <3>1, <1>4
    <3>3. q \notin ring
      BY <2>5, <2>6, <3>1, <3>2
    <3>4. QED
      BY <2>8, <3>2, <3>3 DEF LifeInv, Family, GroupsPartition
  <2>11. QED
    BY <2>9, <2>10 DEF GroupsPartition
<1>9. LivingParents'
  BY <1>1, <1>2, <1>3, <1>4 DEF LifeInv, Family, LivingParents, Live, DeadAreDone
<1>10. QED
  BY <1>5, <1>6, <1>7, <1>8, <1>9 DEF Kept, Family

LEMMA DeThreadPartitions ==
    ASSUME LifeInv, NEW p \in Procs, DeThread(p),
           NEW next, pc' = [pc EXCEPT ![p] = next],
           \A q \in Procs : state'[q] = "UNINIT" => state[q] = "UNINIT"
    PROVE  GroupsPartition'
<1>1. /\ pc \in [Procs -> {"user", "trap", "loop"} \cup WaitPhases \cup ExitPhases]
      /\ group \in [Procs -> SUBSET Procs]
  BY DEF LifeInv, TypeOK
<1>2. \A q \in Procs : group'[q] = IF q = p THEN {p} ELSE group[q] \ {p}
  BY DEF DeThread
<1>3. ASSUME NEW q \in Procs
      PROVE  /\ q \in group'[q]
             /\ \A r \in group'[q] : group'[r] = group'[q]
             /\ (pc'[q] = "dead" \/ state'[q] = "UNINIT") => group'[q] = {q}
  <2>1. CASE q = p
    BY <1>2, <2>1
  <2>2. CASE q # p
    <3>1. /\ q \in group[q] /\ \A r \in group[q] : group[r] = group[q] /\ r \in Procs
          /\ (pc[q] = "dead" \/ state[q] = "UNINIT") => group[q] = {q}
      BY <1>1 DEF LifeInv, Family, GroupsPartition
    <3>2. group'[q] = group[q] \ {p} /\ pc'[q] = pc[q]
      BY <1>1, <1>2, <2>2
    <3>3. \A r \in group[q] \ {p} : group'[r] = group[r] \ {p}
      BY <1>2, <3>1
    <3>4. QED
      BY <2>2, <3>1, <3>2, <3>3
  <2>3. QED
    BY <2>1, <2>2
<1>4. QED
  BY <1>3 DEF GroupsPartition

LEMMA ExecKeeps ==
    ASSUME LifeInv, NEW p \in Procs, p = current, Exec(p)
    PROVE  Kept
<1>1. /\ pc[p] = "user" /\ DeThread(p) /\ pc' = [pc EXCEPT ![p] = "trap"]
      /\ UNCHANGED <<current, state, wait_state, runq, panic, parent>>
  BY DEF Exec, Goto, sched_vars
<1>2. pc \in [Procs -> {"user", "trap", "loop"} \cup WaitPhases \cup ExitPhases]
  BY DEF LifeInv, TypeOK
<1>3. CurrentRuns' /\ DeadAreDone'
  BY <1>1, <1>2 DEF LifeInv, Family, CurrentRuns, DeadAreDone
<1>4. GroupsPartition'
  BY <1>1, DeThreadPartitions
<1>5. LivingParents'
  BY <1>1, <1>2 DEF LifeInv, Family, LivingParents, Live, CurrentRuns, DeadAreDone
<1>6. QED
  BY <1>1, <1>3, <1>4, <1>5 DEF Kept, Family, sched_vars

\* Kills and exits of groups wake sleepers only.
LEMMA MarkKeeps ==
    ASSUME LifeInv, NEW p \in Procs, p = current, pc[p] \in {"user", "trap"},
           NEW targets \in SUBSET Procs, NEW own, NEW code,
           MarkAndWake(targets, own, code),
           NEW next \in {"trap", "exit"}, Goto(p, next),
           UNCHANGED <<parent, group>>
    PROVE  Kept
<1> DEFINE W == {q \in targets \ killed : wait_state[q] = "WT_CHILD"}
<1>1. W \in SUBSET Procs /\ Wakeup(W) /\ \A q \in W : state[q] = "SLEEPING"
  BY SleepersLive DEF MarkAndWake
<1> HIDE DEF W
<1>2. /\ current' = current
      /\ \A q \in Procs : \/ state'[q] = state[q]
                          \/ state[q] = "SLEEPING" /\ state'[q] = "RUNNABLE"
  BY <1>1, WakeupOfLiving DEF LifeInv
<1>3. Family'
  BY <1>2, GoOn DEF Goto
<1>4. QED
  BY <1>1, <1>3 DEF Kept, SchedNext

LEMMA BecomeZombieKeeps ==
    ASSUME LifeInv, NEW p \in Procs, p = current, BecomeZombie(p)
    PROVE  Kept
<1>1. /\ pc[p] = "exit" /\ p # InitProc /\ Exit
      /\ pc' = [pc EXCEPT ![p] = "notify"]
      /\ UNCHANGED <<current, parent, group>>
  BY DEF BecomeZombie, Goto, Exit, life_vars
<1>2. /\ pc \in [Procs -> {"user", "trap", "loop"} \cup WaitPhases \cup ExitPhases]
      /\ state' = [state EXCEPT ![p] = "ZOMBIE"]
      /\ state \in [Procs -> ProcStates]
  BY <1>1 DEF LifeInv, TypeOK, SchedTypeOK, Exit
<1>3. state[p] = "RUNNABLE"
  BY <1>1, CallerRuns
<1>4. CurrentRuns' /\ DeadAreDone'
  BY <1>1, <1>2, <1>3 DEF LifeInv, Family, CurrentRuns, DeadAreDone
<1>5. GroupsPartition'
  BY <1>1, <1>2, <1>3 DEF LifeInv, Family, GroupsPartition
<1>6. LivingParents'
  BY <1>1, <1>2, <1>3 DEF LifeInv, Family, LivingParents, Live, DeadAreDone
<1>7. QED
  BY <1>1, <1>3, <1>4, <1>5, <1>6 DEF Kept, Family, SchedNext

\* The end of __do_exit(): the heir lives, so all children do have a living
\* parent again.
LEMMA NotifyKeeps ==
    ASSUME LifeInv, NEW p \in Procs, p = current, Notify(p)
    PROVE  Kept
<1>1. PICK heir \in Heirs(p) :
        /\ Wakeup(ParentThreads(p) \cup WaitingHeir(p, heir))
        /\ parent' = [c \in Procs |-> IF c \in Children(p) THEN heir ELSE parent[c]]
  BY DEF Notify
<1>2. pc[p] = "notify" /\ DeThread(p) /\ pc' = [pc EXCEPT ![p] = "dead"]
  BY DEF Notify, Goto
<1>3. /\ pc \in [Procs -> {"user", "trap", "loop"} \cup WaitPhases \cup ExitPhases]
      /\ parent \in [Procs -> Procs \cup {Idle, None}]
      /\ group \in [Procs -> SUBSET Procs]
      /\ state \in [Procs -> ProcStates]
  BY DEF LifeInv, TypeOK, SchedTypeOK
<1>4. state[p] = "ZOMBIE" /\ p # InitProc
  BY <1>2 DEF LifeInv, Family, DeadAreDone
<1>5. parent[p] \in Procs
  BY <1>4 DEF LifeInv, Family, LivingParents, Live
<1>6. heir \in Procs /\ heir # p /\ state[heir] \notin {"UNINIT", "ZOMBIE"}
  <2>1. CASE group[p] = {p}
    BY <2>1, <1>4, LifeAssumption DEF Heirs, LifeInv, Family, DeadAreDone
  <2>2. CASE group[p] # {p}
    <3>1. heir \in group[p] /\ heir # p /\ heir \in Procs
      BY <1>3, <2>2 DEF Heirs
    <3>2. group[heir] # {heir}
      BY <3>1 DEF LifeInv, Family, GroupsPartition
    <3>3. QED
      BY <3>1, <3>2 DEF LifeInv, Family, GroupsPartition, DeadAreDone
  <2>3. QED
    BY <2>1, <2>2
<1> DEFINE W == ParentThreads(p) \cup WaitingHeir(p, heir)
<1>7. W \in SUBSET Procs /\ \A q \in W : state[q] = "SLEEPING"
  <2>1. W \in SUBSET Procs /\ \A q \in W : wait_state[q] = "WT_CHILD"
    BY <1>3, <1>5, <1>6 DEF ParentThreads, WaitingHeir
  <2>2. QED
    BY <2>1, SleepersLive
<1> HIDE DEF W
<1>8. /\ current' = current
      /\ \A q \in Procs : \/ state'[q] = state[q]
                          \/ state[q] = "SLEEPING" /\ state'[q] = "RUNNABLE"
  BY <1>1, <1>7, WakeupOfLiving DEF LifeInv, W
<1>9. [SchedNext]_sched_vars
  BY <1>1, <1>7 DEF SchedNext, W
<1>10. CurrentRuns' /\ DeadAreDone'
  BY <1>2, <1>3, <1>4, <1>8 DEF LifeInv, Family, CurrentRuns, DeadAreDone
<1>11. GroupsPartition'
  BY <1>2, <1>8, DeThreadPartitions
<1>12. LivingParents'
  <2>1. ASSUME NEW c \in Procs, state'[c] # "UNINIT", c # InitProc
        PROVE  /\ parent'[c] \in Procs /\ state'[parent'[c]] \notin {"UNINIT", "ZOMBIE"}
    <3>1. state[c] # "UNINIT"
      BY <1>8, <2>1
    <3>2. CASE parent[c] = p
      BY <1>1, <1>6, <1>8, <3>1, <3>2 DEF Children, Live
    <3>3. CASE parent[c] # p
      <4>1. parent'[c] = parent[c] /\ parent[c] \in Procs /\ state[parent[c]] # "UNINIT"
        BY <1>1, <3>1, <3>3, <2>1 DEF Children, LifeInv, Family, LivingParents, Live
      <4>2. state[parent[c]] # "ZOMBIE"
        BY <3>1, <3>3, <4>1, <2>1
        DEF LifeInv, Family, LivingParents, Live, DeadAreDone
      <4>3. QED
        BY <1>8, <4>1, <4>2
    <3>4. QED
      BY <3>2, <3>3
  <2>2. QED
    BY <2>1 DEF LivingParents, Live
<1>13. QED
  BY <1>9, <1>10, <1>11, <1>12 DEF Kept, Family

\* The zombie that do_wait() frees has no children and no group any more.
LEMMA WaitFoundKeeps ==
    ASSUME LifeInv, NEW p \in Procs, p = current, NEW zombie \in Procs,
           WaitFound(p, zombie)
    PROVE  Kept
<1>1. PICK next \in {"loop", "trap"} :
        /\ pc[p] = "wait" /\ state[zombie] = "ZOMBIE" /\ zombie # p
        /\ Reap(zombie)
        /\ parent' = [parent EXCEPT ![zombie] = None]
        /\ pc' = [pc EXCEPT ![p] = next]
        /\ UNCHANGED <<group, current>>
  BY DEF WaitFound, Reap, Goto
<1>2. /\ pc \in [Procs -> {"user", "trap", "loop"} \cup WaitPhases \cup ExitPhases]
      /\ parent \in [Procs -> Procs \cup {Idle, None}]
      /\ state' = [state EXCEPT ![zombie] = "UNINIT"]
      /\ state \in [Procs -> ProcStates]
  BY <1>1 DEF LifeInv, TypeOK, SchedTypeOK, Reap
<1>3. state[p] = "RUNNABLE"
  BY <1>1, CallerRuns
<1>4. pc[zombie] = "dead" /\ zombie # InitProc
  BY <1>1 DEF LifeInv, Family, DeadAreDone
<1>5. CurrentRuns' /\ DeadAreDone'
  BY <1>1, <1>2, <1>3, <1>4 DEF LifeInv, Family, CurrentRuns, DeadAreDone
<1>6. GroupsPartition'
  BY <1>1, <1>2, <1>3, <1>4 DEF LifeInv, Family, GroupsPartition
<1>7. LivingParents'
  BY <1>1, <1>2, <1>3, <1>4 DEF LifeInv, Family, LivingParents, Live, DeadAreDone
<1>8. QED
  BY <1>1, <1>5, <1>6, <1>7 DEF Kept, Family, SchedNext

LEMMA WaitSleepKeeps ==
    ASSUME LifeInv, NEW p \in Procs, p = current, WaitSleep(p)
    PROVE  Kept
<1>1. /\ pc[p] = "wait" /\ Block("WT_CHILD")
      /\ pc' = [pc EXCEPT ![p] = "asleep"]
      /\ UNCHANGED <<current, parent, group>>
  BY DEF WaitSleep, Goto, Block, life_vars
<1>2. /\ pc \in [Procs -> {"user", "trap", "loop"} \cup WaitPhases \cup ExitPhases]
      /\ state' = [state EXCEPT ![p] = "SLEEPING"]
      /\ state \in [Procs -> ProcStates]
  BY <1>1 DEF LifeInv, TypeOK, SchedTypeOK, Block
<1>3. state[p] = "RUNNABLE"
  BY <1>1, CallerRuns
<1>4. CurrentRuns' /\ DeadAreDone'
  BY <1>1, <1>2, <1>3 DEF LifeInv, Family, CurrentRuns, DeadAreDone
<1>5. GroupsPartition'
  BY <1>1, <1>2, <1>3 DEF LifeInv, Family, GroupsPartition
<1>6. LivingParents'
  BY <1>1, <1>2, <1>3 DEF LifeInv, Family, LivingParents, Live, DeadAreDone
<1>7. QED
  BY <1>1, <1>3, <1>4, <1>5, <1>6, LifeAssumption DEF Kept, Family, SchedNext

-----------------------------------------------------------------------------
(* All steps.                                                              *)

LEMMA RunningKeeps ==
    ASSUME LifeInv, NEW p \in Procs, p = current, Running(p)
    PROVE  Kept
<1>1. ASSUME NEW child \in Procs, NEW thread \in BOOLEAN, Fork(p, child, thread)
      PROVE  Kept
  BY <1>1, ForkKeeps
<1>2. CASE Exec(p)
  BY <1>2, ExecKeeps
<1>3. ASSUME NEW target \in Procs, Kill(p, target)
      PROVE  Kept
  BY <1>3, MarkKeeps DEF Kill
<1>4. ASSUME NEW code, pc[p] \in {"user", "trap"}, GroupExit(p, code)
      PROVE  Kept
  <2>1. group[p] \ {p} \in SUBSET Procs
    BY DEF LifeInv, TypeOK
  <2>2. QED
    BY <1>4, <2>1, MarkKeeps DEF GroupExit
<1>5. ASSUME UNCHANGED sched_vars, UNCHANGED <<parent, group>>,
             pc[p] \in {"user", "woken", "wait", "trap", "loop"},
             NEW next \in {"user", "trap", "exit", "wait"}, Goto(p, next)
      PROVE  Kept
  BY <1>5, GoOn DEF Kept, Goto, sched_vars
<1>6. ASSUME Reschedule, UNCHANGED <<parent, group>>,
             pc[p] \in {"trap", "asleep", "loop"},
             NEW next \in {"user", "woken", "wait"}, Goto(p, next)
      PROVE  Kept
  BY <1>6, GiveAway DEF Kept, Goto, SchedNext
<1>7. ASSUME NEW code \in Codes, SysExit(p, code) \/ ExitThread(p, code)
      PROVE  Kept
  BY <1>4, <1>5, <1>7 DEF SysExit, ExitThread
<1>8. CASE BecomeZombie(p)
  BY <1>8, BecomeZombieKeeps
<1>9. CASE InitPanics(p)
  <2>1. /\ UNCHANGED <<current, state, wait_state, runq, pc, parent, group>>
        /\ panic' = "__do_exit"
    BY <1>9 DEF InitPanics, life_vars
  <2>2. Family'
    BY <2>1 DEF LifeInv, Family, CurrentRuns, DeadAreDone, GroupsPartition, LivingParents, Live
  <2>3. QED
    BY <2>1, <2>2 DEF Kept, SchedNext, ClientPanic, Assertions
<1>10. CASE Notify(p)
  BY <1>10, NotifyKeeps
<1>11. ASSUME NEW pid, WaitCall(p, pid)
       PROVE  Kept
  BY <1>5, <1>11 DEF WaitCall
<1>12. ASSUME NEW zombie \in Procs, WaitFound(p, zombie)
       PROVE  Kept
  BY <1>12, WaitFoundKeeps
<1>13. CASE WaitSleep(p)
  BY <1>13, WaitSleepKeeps
<1>14. CASE WaitResume(p) \/ WaitFails(p) \/ EnterKernel(p)
  BY <1>5, <1>14 DEF WaitResume, WaitFails, EnterKernel, life_vars
<1>15. CASE TrapEnd(p)
  BY <1>4, <1>5, <1>6, <1>15 DEF TrapEnd, life_vars
<1>16. CASE Schedule(p)
  <2>1. CASE pc[p] = "asleep"
    BY <1>6, <1>16, <2>1 DEF Schedule, life_vars
  <2>2. CASE pc[p] = "dead"
    <3>1. Reschedule /\ UNCHANGED <<parent, group>> /\ pc' = [pc EXCEPT ![p] = "dead"]
      BY <1>16, <2>2 DEF Schedule, life_vars, LifeInv, TypeOK
    <3>2. QED
      BY <2>2, <3>1, GiveAway DEF Kept, SchedNext
  <2>3. QED
    BY <1>16, <2>1, <2>2 DEF Schedule
<1>17. CASE InitLoop(p)
  BY <1>5, <1>6, <1>17 DEF InitLoop, life_vars
<1>18. QED
  BY <1>1, <1>2, <1>3, <1>7, <1>8, <1>9, <1>10, <1>11, <1>12, <1>13, <1>14,
     <1>15, <1>16, <1>17 DEF Running

LEMMA RunningTyped ==
    ASSUME LifeInv, SchedTypeOK', NEW p \in Procs, Running(p)
    PROVE  TypeOK'
<1> DEFINE Phases == {"user", "trap", "loop"} \cup WaitPhases \cup ExitPhases
           Rest == /\ group' \in [Procs -> SUBSET Procs]
                   /\ parent' \in [Procs -> Procs \cup {Idle, None}]
                   /\ waiting' \in [Procs -> Procs \cup {"any", "gone", None}]
                   /\ killed' \subseteq Procs
                   /\ exit_code' \in [Procs -> Codes \cup {E_KILLED, None}]
                   /\ doomed' \subseteq Procs
<1>1. TypeOK
  BY DEF LifeInv
<1>2. SUFFICES pc' \in [Procs -> Phases] /\ Rest
  BY DEF TypeOK
<1>3. /\ pc \in [Procs -> Phases]
      /\ \A next \in Phases : Goto(p, next) => pc' \in [Procs -> Phases]
  BY <1>1 DEF TypeOK, Goto
<1>4. UNCHANGED life_vars => Rest
  BY <1>1 DEF life_vars, TypeOK
<1>5. ASSUME NEW child \in Procs, NEW thread \in BOOLEAN, Fork(p, child, thread)
      PROVE  pc' \in [Procs -> Phases] /\ Rest
  <2> DEFINE ring == IF thread THEN group[p] \cup {child} ELSE {child}
  <2>1. ring \in SUBSET Procs
    BY <1>1 DEF TypeOK
  <2>2. group' = [q \in Procs |-> IF q \in ring THEN ring ELSE group[q]]
    BY <1>5 DEF Fork
  <2>3. group' \in [Procs -> SUBSET Procs]
    BY <1>1, <2>1, <2>2 DEF TypeOK
  <2>4. QED
    BY <1>1, <1>5, <2>3 DEF Fork, TypeOK
<1>6. DeThread(p) => group' \in [Procs -> SUBSET Procs]
  BY <1>1 DEF DeThread, TypeOK
<1>7. CASE Exec(p)
  BY <1>1, <1>3, <1>6, <1>7 DEF Exec, TypeOK
<1>8. ASSUME NEW targets \in SUBSET Procs, NEW own, NEW code \in Codes \cup {E_KILLED},
             MarkAndWake(targets, own, code)
      PROVE  /\ killed' \subseteq Procs
             /\ exit_code' \in [Procs -> Codes \cup {E_KILLED, None}]
  BY <1>1, <1>8 DEF MarkAndWake, TypeOK
<1>9. ASSUME NEW target \in Procs, Kill(p, target)
      PROVE  pc' \in [Procs -> Phases] /\ Rest
  BY <1>1, <1>3, <1>8, <1>9 DEF Kill, TypeOK
<1>10. ASSUME NEW code \in Codes \cup {E_KILLED}, GroupExit(p, code)
       PROVE  pc' \in [Procs -> Phases] /\ Rest
  <2>1. group[p] \in SUBSET Procs
    BY <1>1 DEF TypeOK
  <2>2. QED
    BY <1>1, <1>3, <1>8, <1>10, <2>1 DEF GroupExit, TypeOK, ExitPhases
<1>11. ASSUME NEW code \in Codes, SysExit(p, code) \/ ExitThread(p, code)
       PROVE  pc' \in [Procs -> Phases] /\ Rest
  BY <1>1, <1>3, <1>10, <1>11 DEF SysExit, ExitThread, TypeOK, ExitPhases
<1>12. CASE BecomeZombie(p) \/ InitPanics(p) \/ WaitSleep(p) \/ WaitResume(p)
            \/ EnterKernel(p) \/ Schedule(p) \/ InitLoop(p)
  BY <1>3, <1>4, <1>12
  DEF BecomeZombie, InitPanics, WaitSleep, WaitResume, EnterKernel, Schedule,
      InitLoop, WaitPhases, ExitPhases
<1>13. CASE Notify(p)
  <2>1. Heirs(p) \subseteq Procs
    BY <1>1, LifeAssumption DEF Heirs, TypeOK
  <2>2. PICK heir \in Procs :
          parent' = [c \in Procs |-> IF c \in Children(p) THEN heir ELSE parent[c]]
    BY <1>13, <2>1 DEF Notify
  <2>3. parent' \in [Procs -> Procs \cup {Idle, None}]
    BY <1>1, <2>2 DEF TypeOK
  <2>4. QED
    BY <1>1, <1>3, <1>6, <1>13, <2>3 DEF Notify, TypeOK, ExitPhases
<1>14. ASSUME NEW pid \in Live \cup {"any"}, WaitCall(p, pid)
       PROVE  pc' \in [Procs -> Phases] /\ Rest
  BY <1>1, <1>3, <1>14 DEF WaitCall, TypeOK, Live, WaitPhases
<1>15. ASSUME NEW zombie \in Procs, WaitFound(p, zombie)
       PROVE  pc' \in [Procs -> Phases] /\ Rest
  <2>1. waiting' \in [Procs -> Procs \cup {"any", "gone", None}]
    BY <1>1, <1>15 DEF WaitFound, TypeOK
  <2>2. QED
    BY <1>1, <1>3, <1>15, <2>1 DEF WaitFound, TypeOK
<1>16. CASE WaitFails(p)
  BY <1>1, <1>3, <1>16 DEF WaitFails, TypeOK
<1>17. CASE TrapEnd(p)
  BY <1>3, <1>4, <1>10, <1>17 DEF TrapEnd
<1>18. QED
  BY <1>5, <1>7, <1>9, <1>11, <1>12, <1>13, <1>14, <1>15, <1>16, <1>17 DEF Running

LEMMA LifeInvInductive ==
    ASSUME LifeInv, [Next]_vars
    PROVE  LifeInv' /\ [SchedNext]_sched_vars
<1>1. ASSUME NEW p \in Procs, current = p, Running(p)
      PROVE  LifeInv' /\ [SchedNext]_sched_vars
  <2>1. Kept
    BY <1>1, RunningKeeps
  <2>2. SchedInv'
    BY <2>1, SchedInvInductive DEF Kept, LifeInv
  <2>3. TypeOK'
    BY <1>1, <2>2, RunningTyped DEF SchedInv
  <2>4. QED
    BY <2>1, <2>2, <2>3 DEF Kept, LifeInv
<1>2. CASE IdleLoop
  <2>1. Reschedule /\ current = Idle /\ UNCHANGED <<pc, life_vars, state>>
    BY <1>2 DEF IdleLoop, Reschedule
  <2>2. SchedInv' /\ [SchedNext]_sched_vars
    BY <2>1, RescheduleKeepsQueue DEF LifeInv, SchedNext
  <2>3. TypeOK'
    BY <2>1, <2>2 DEF LifeInv, TypeOK, SchedInv, life_vars
  <2>4. \A q \in Procs : q = current' => state[q] = "RUNNABLE"
    BY <2>1, RescheduledRuns DEF LifeInv
  <2>5. Family'
    BY <2>1, <2>4, SchedAssumption
    DEF LifeInv, Family, CurrentRuns, DeadAreDone, GroupsPartition, LivingParents,
        Live, life_vars
  <2>6. QED
    BY <2>2, <2>3, <2>5 DEF LifeInv
<1>3. CASE UNCHANGED vars
  <2>1. UNCHANGED <<sched_vars, current, state, wait_state, runq, panic, pc, parent,
                    group, waiting, killed, exit_code, doomed>>
    BY <1>3 DEF vars, sched_vars, life_vars
  <2>2. SchedInv'
    BY <2>1, SchedInvInductive DEF LifeInv
  <2>3. QED
    BY <2>1, <2>2 DEF LifeInv, TypeOK, SchedInv, Family, CurrentRuns, DeadAreDone,
        GroupsPartition, LivingParents, Live
<1>4. QED
  BY <1>1, <1>2, <1>3 DEF Next

\* Every process has a parent that can still reap it, for any number of
\* processes, threads and exits in any order: the heir that __do_exit() picks
\* is alive, and do_wait() frees only structures that nobody calls parent.
THEOREM ParentsCanReap == Spec => [](TypeOK /\ LivingParents)
<1>1. LifeInv => TypeOK /\ LivingParents
  BY DEF LifeInv, Family
<1>2. QED
  BY <1>1, InitEstablishes, LifeInvInductive, PTL DEF Spec

\* Fork, exit, wait and kill keep the contract of the scheduler: they never wake
\* a zombie, put only a runnable process to sleep and free only a dead one that
\* does not run.
THEOREM LifeUsesScheduler == Spec => UsesSchedulerProperly
<1>1. Init => \E live \in SUBSET Procs : SchedInit(live)
  BY LifeAssumption DEF Init
<1>2. QED
  BY <1>1, InitEstablishes, LifeInvInductive, PTL
  DEF Spec, UsesSchedulerProperly, SchedSpec

-----------------------------------------------------------------------------
(* Exit against wait.  NoZombieMissed says nothing while a process is in   *)
(* the middle of __do_exit(); NoneMissed says that it is the only one that *)
(* a sleeper can have missed then.  initproc needs a word of its own since *)
(* it inherits without being in the group: it is alone in its group and    *)
(* waits for any child.                                                    *)

NoneMissed ==
    \A q \in Procs : state[q] = "SLEEPING" => \A c \in Found(q) : pc[c] = "notify"

InitWaitsForAll ==
    /\ group[InitProc] = {InitProc} /\ waiting[InitProc] = "any"
    /\ pc[InitProc] \in {"wait", "asleep", "woken", "loop", "exit"}

WaitInv == NoneMissed /\ InitWaitsForAll

\* A step that puts nobody else to sleep, makes no zombie and gives no sleeper
\* another one to find.
LEMMA NothingNewToFind ==
    ASSUME NoneMissed,
           \A q \in Procs : state'[q] = "SLEEPING" =>
               state[q] = "SLEEPING" /\ waiting'[q] = waiting[q],
           \A c \in Procs : state'[c] = "ZOMBIE" => state[c] = "ZOMBIE",
           \A c \in Procs : pc[c] = "notify" => pc'[c] = "notify",
           UNCHANGED <<parent, group>>
    PROVE  NoneMissed'
  BY DEF NoneMissed, Found, Candidates, Children, Live

\* The same for a step of p that goes on to another phase.
LEMMA GoOnMissesNone ==
    ASSUME LifeInv, WaitInv, NEW p \in Procs, p = current,
           pc[p] \notin {"asleep", "notify", "dead"},
           NEW next, Goto(p, next),
           \A q \in Procs : \/ state'[q] = state[q]
                            \/ state[q] = "SLEEPING" /\ state'[q] = "RUNNABLE",
           \A q \in Procs \ {p} : waiting'[q] = waiting[q],
           p = InitProc => /\ waiting' = waiting
                           /\ next \in {"wait", "asleep", "woken", "loop", "exit"},
           UNCHANGED <<parent, group>>
    PROVE  WaitInv'
<1>1. pc \in [Procs -> {"user", "trap", "loop"} \cup WaitPhases \cup ExitPhases]
  BY DEF LifeInv, TypeOK
<1>2. state[p] = "RUNNABLE"
  BY CallerRuns
<1>3. NoneMissed'
  BY <1>1, <1>2, NothingNewToFind DEF WaitInv, Goto
<1>4. InitWaitsForAll'
  BY <1>1, LifeAssumption DEF WaitInv, InitWaitsForAll, Goto
<1>5. QED
  BY <1>3, <1>4 DEF WaitInv

LEMMA RescheduleMissesNone ==
    ASSUME LifeInv, WaitInv, NEW p \in Procs, Reschedule, pc[p] # "notify",
           NEW next, Goto(p, next), UNCHANGED <<parent, group, waiting>>,
           p = InitProc => next \in {"wait", "woken"}
    PROVE  WaitInv'
<1>1. /\ pc \in [Procs -> {"user", "trap", "loop"} \cup WaitPhases \cup ExitPhases]
      /\ state' = state
  BY DEF LifeInv, TypeOK, Reschedule
<1>2. NoneMissed'
  BY <1>1, NothingNewToFind DEF WaitInv, Goto
<1>3. InitWaitsForAll'
  BY <1>1, LifeAssumption DEF WaitInv, InitWaitsForAll, Goto
<1>4. QED
  BY <1>2, <1>3 DEF WaitInv

LEMMA ForkMissesNone ==
    ASSUME LifeInv, LifeInv', WaitInv, NEW p \in Procs, p = current,
           NEW child \in Procs, NEW thread \in BOOLEAN, Fork(p, child, thread)
    PROVE  WaitInv'
<1> DEFINE ring == IF thread THEN group[p] \cup {child} ELSE {child}
<1>1. /\ pc[p] = "user" /\ state[child] = "UNINIT" /\ Wakeup({child})
      /\ pc' = [pc EXCEPT ![p] = "trap", ![child] = "user"]
      /\ parent' = [parent EXCEPT ![child] = p]
      /\ group' = [q \in Procs |-> IF q \in ring THEN ring ELSE group[q]]
      /\ waiting' = [waiting EXCEPT ![child] = None]
  BY DEF Fork
<1>2. TypeOK /\ SchedTypeOK
  BY DEF LifeInv, TypeOK
<1>3. /\ state'[child] = "RUNNABLE"
      /\ \A q \in Procs \ {child} : state'[q] = state[q]
  BY <1>1, <1>2 DEF Wakeup, SchedTypeOK
<1>4. InitProc \notin ring /\ InitProc # p
  BY <1>1, LifeAssumption
  DEF LifeInv, Family, DeadAreDone, GroupsPartition, WaitInv, InitWaitsForAll
<1>5. \A q \in Procs \ {child} : group'[q] \subseteq group[q] \cup {child}
  <2>1. \A q \in group[p] : group[q] = group[p]
    BY DEF LifeInv, Family, GroupsPartition
  <2>2. QED
    BY <1>1, <2>1
<1>6. \A c \in Live : state[c] = "ZOMBIE" => parent[c] # child
  BY <1>1 DEF LifeInv, Family, LivingParents, DeadAreDone, Live
<1>7. ASSUME NEW q \in Procs, state'[q] = "SLEEPING", NEW c \in Found(q)'
      PROVE  pc'[c] = "notify"
  <2>1. q # child /\ c # child /\ c \in Procs /\ state[c] = "ZOMBIE" /\ c \in Live
    BY <1>3, <1>7 DEF Found, Candidates, Children, Live
  <2>2. parent'[c] = parent[c] /\ waiting'[q] = waiting[q]
    BY <1>1, <1>2, <2>1 DEF TypeOK
  <2>3. c \in Found(q)
    BY <1>5, <1>6, <1>7, <2>1, <2>2 DEF Found, Candidates, Children, Live
  <2>4. pc[c] = "notify"
    BY <1>3, <1>7, <2>1, <2>3 DEF WaitInv, NoneMissed
  <2>5. QED
    BY <1>1, <1>2, <2>1, <2>4 DEF TypeOK
<1>8. NoneMissed'
  BY <1>7 DEF NoneMissed
<1>9. InitWaitsForAll'
  BY <1>1, <1>2, <1>4, LifeAssumption DEF WaitInv, InitWaitsForAll, TypeOK
<1>10. QED
  BY <1>8, <1>9 DEF WaitInv

LEMMA ExecMissesNone ==
    ASSUME LifeInv, WaitInv, NEW p \in Procs, p = current, Exec(p)
    PROVE  WaitInv'
<1>1. /\ pc[p] = "user" /\ pc' = [pc EXCEPT ![p] = "trap"]
      /\ \A q \in Procs : group'[q] = IF q = p THEN {p} ELSE group[q] \ {p}
      /\ UNCHANGED <<state, parent, waiting>>
  BY DEF Exec, DeThread, Goto, sched_vars
<1>2. pc \in [Procs -> {"user", "trap", "loop"} \cup WaitPhases \cup ExitPhases]
  BY DEF LifeInv, TypeOK
<1>3. state[p] = "RUNNABLE" /\ p # InitProc
  BY <1>1, CallerRuns DEF WaitInv, InitWaitsForAll
<1>4. NoneMissed'
  BY <1>1, <1>2, <1>3 DEF WaitInv, NoneMissed, Found, Candidates, Children, Live
<1>5. InitWaitsForAll'
  BY <1>1, <1>2, <1>3, LifeAssumption DEF WaitInv, InitWaitsForAll
<1>6. QED
  BY <1>4, <1>5 DEF WaitInv

LEMMA BecomeZombieMissesNone ==
    ASSUME LifeInv, WaitInv, NEW p \in Procs, p = current, BecomeZombie(p)
    PROVE  WaitInv'
<1>1. /\ pc[p] = "exit" /\ p # InitProc
      /\ pc' = [pc EXCEPT ![p] = "notify"] /\ state' = [state EXCEPT ![p] = "ZOMBIE"]
      /\ UNCHANGED <<parent, group, waiting>>
  BY DEF BecomeZombie, Goto, Exit, life_vars
<1>2. /\ pc \in [Procs -> {"user", "trap", "loop"} \cup WaitPhases \cup ExitPhases]
      /\ state \in [Procs -> ProcStates]
  BY DEF LifeInv, TypeOK, SchedTypeOK
<1>3. ASSUME NEW q \in Procs, state'[q] = "SLEEPING", NEW c \in Found(q)', c # p
      PROVE  pc'[c] = "notify"
  <2>1. q # p /\ state[q] = "SLEEPING" /\ c \in Found(q) /\ c \in Procs
    BY <1>1, <1>2, <1>3 DEF Found, Candidates, Children, Live
  <2>2. QED
    BY <1>1, <1>2, <1>3, <2>1 DEF WaitInv, NoneMissed
<1>4. NoneMissed'
  BY <1>1, <1>2, <1>3 DEF NoneMissed
<1>5. InitWaitsForAll'
  BY <1>1, <1>2, LifeAssumption DEF WaitInv, InitWaitsForAll
<1>6. QED
  BY <1>4, <1>5 DEF WaitInv

\* The zombie that has just been made, and those it hands on: whoever could
\* find one of them now is awake.
LEMMA NotifyMissesNone ==
    ASSUME LifeInv, WaitInv, NEW p \in Procs, p = current, Notify(p)
    PROVE  WaitInv'
<1>1. PICK heir \in Heirs(p) :
        /\ Wakeup(ParentThreads(p) \cup WaitingHeir(p, heir))
        /\ parent' = [c \in Procs |-> IF c \in Children(p) THEN heir ELSE parent[c]]
  BY DEF Notify
<1>2. /\ pc[p] = "notify" /\ pc' = [pc EXCEPT ![p] = "dead"] /\ waiting' = waiting
      /\ \A q \in Procs : group'[q] = IF q = p THEN {p} ELSE group[q] \ {p}
  BY DEF Notify, Goto, DeThread
<1>3. /\ pc \in [Procs -> {"user", "trap", "loop"} \cup WaitPhases \cup ExitPhases]
      /\ parent \in [Procs -> Procs \cup {Idle, None}]
      /\ group \in [Procs -> SUBSET Procs]
      /\ state \in [Procs -> ProcStates]
      /\ wait_state \in [Procs -> WaitStates \cup {"none"}]
  BY DEF LifeInv, TypeOK, SchedTypeOK
<1>4. state[p] = "ZOMBIE" /\ p # InitProc /\ p \in Live
  BY <1>2 DEF LifeInv, Family, DeadAreDone, Live
<1>5. \A q, r \in Procs : r \in group[q] => q \in group[r] /\ group[q] = group[r]
  BY DEF LifeInv, Family, GroupsPartition
<1>6. \A q \in Procs : state'[q] = "SLEEPING" =>
          /\ state[q] = "SLEEPING" /\ wait_state[q] = "WT_CHILD"
          /\ q \notin ParentThreads(p) /\ q \notin WaitingHeir(p, heir)
  BY <1>1, <1>3, LifeAssumption
  DEF Wakeup, LifeInv, SchedInv, WaitStateWhileSleeping
<1>7. \A c \in Procs : state'[c] = "ZOMBIE" => state[c] = "ZOMBIE"
  BY <1>1, <1>3 DEF Wakeup
<1>8. ASSUME NEW q \in Procs, state'[q] = "SLEEPING", NEW c \in Found(q)'
      PROVE  FALSE
  <2>1. /\ state[q] = "SLEEPING" /\ q # p
        /\ q \notin group[parent[p]]
        /\ q = heir => \A d \in Children(p) : state[d] # "ZOMBIE"
    BY <1>4, <1>6, <1>8 DEF ParentThreads, WaitingHeir
  <2>2. /\ c \in Procs /\ state[c] = "ZOMBIE" /\ c \in Live
        /\ \/ waiting[q] = "any" /\ parent'[c] = q
           \/ waiting[q] # "any" /\ c = waiting[q] /\ parent'[c] \in group'[q]
    BY <1>2, <1>7, <1>8 DEF Found, Candidates, Children, Live
  <2>3. \A d \in Found(q) : d = p
    BY <2>1 DEF WaitInv, NoneMissed, LifeInv, Family, DeadAreDone, Found, Candidates, Children, Live
  <2>4. group'[q] = group[q] \ {p}
    BY <1>2, <2>1
  <2>5. CASE c \notin Children(p)
    <3>1. parent'[c] = parent[c]
      BY <1>1, <2>2, <2>5
    <3>2. c \in Found(q)
      BY <2>2, <2>4, <3>1 DEF Found, Candidates, Children
    <3>3. c = p /\ parent[p] # p
      BY <2>2, <2>3, <2>5, <3>2 DEF Children
    <3>4. parent[p] \in Procs
      BY <1>4 DEF LifeInv, Family, LivingParents, Live
    <3>5. parent[p] = q \/ parent[p] \in group[q]
      BY <2>2, <2>4, <3>1, <3>3
    <3>6. q \in group[parent[p]]
      BY <1>5, <3>4, <3>5 DEF LifeInv, Family, GroupsPartition
    <3>7. QED
      BY <2>1, <3>6
  <2>6. CASE c \in Children(p)
    <3>1. parent'[c] = heir /\ parent[c] = p
      BY <1>1, <2>2, <2>6 DEF Children
    <3>2. q # heir
      BY <2>1, <2>2, <2>6
    <3>3. waiting[q] # "any" /\ c = waiting[q] /\ heir \in group[q] \ {p}
      BY <2>2, <2>4, <3>1, <3>2
    <3>4. heir # InitProc
      BY <1>5, <3>2, <3>3, LifeAssumption DEF WaitInv, InitWaitsForAll
    <3>5. heir \in group[p] \ {p}
      BY <3>4 DEF Heirs
    <3>6. p \in group[q] /\ q \in group[p]
      BY <1>3, <1>5, <3>3, <3>5
    <3>7. c \in Found(q)
      BY <2>2, <3>1, <3>3, <3>6 DEF Found, Candidates
    <3>8. c = p
      BY <2>3, <3>7
    <3>9. QED
      BY <2>1, <3>1, <3>6, <3>8
  <2>7. QED
    BY <2>5, <2>6
<1>9. NoneMissed'
  BY <1>8 DEF NoneMissed
<1>10. InitWaitsForAll'
  BY <1>2, <1>3, <1>4, LifeAssumption DEF WaitInv, InitWaitsForAll
<1>11. QED
  BY <1>9, <1>10 DEF WaitInv

LEMMA WaitFoundMissesNone ==
    ASSUME LifeInv, WaitInv, NEW p \in Procs, p = current,
           NEW zombie \in Procs, WaitFound(p, zombie)
    PROVE  WaitInv'
<1>1. /\ pc[p] = "wait" /\ state[zombie] = "ZOMBIE" /\ zombie # p
      /\ state' = [state EXCEPT ![zombie] = "UNINIT"]
      /\ parent' = [parent EXCEPT ![zombie] = None]
      /\ pc' = [pc EXCEPT ![p] = IF p = InitProc THEN "loop" ELSE "trap"]
      /\ waiting' = [q \in Procs |->
                     IF q = p THEN (IF p = InitProc THEN "any" ELSE None)
                     ELSE IF waiting[q] = zombie THEN "gone" ELSE waiting[q]]
      /\ group' = group
  BY DEF WaitFound, Reap, Goto
<1>2. /\ pc \in [Procs -> {"user", "trap", "loop"} \cup WaitPhases \cup ExitPhases]
      /\ parent \in [Procs -> Procs \cup {Idle, None}]
      /\ state \in [Procs -> ProcStates]
  BY DEF LifeInv, TypeOK, SchedTypeOK
<1>3. state[p] = "RUNNABLE"
  BY <1>1, CallerRuns
<1>4. ASSUME NEW q \in Procs, state'[q] = "SLEEPING", NEW c \in Found(q)'
      PROVE  pc'[c] = "notify"
  <2>1. q # p /\ q # zombie /\ state[q] = "SLEEPING"
    BY <1>1, <1>2, <1>3, <1>4
  <2>2. c \in Procs /\ c # zombie /\ state[c] = "ZOMBIE"
    BY <1>1, <1>2, <1>4 DEF Found, Candidates, Children, Live
  <2>3. parent'[c] = parent[c]
    BY <1>1, <1>2, <2>2
  <2>4. waiting[q] # zombie
    <3>1. ASSUME waiting[q] = zombie PROVE FALSE
      <4>1. waiting'[q] = "gone"
        BY <1>1, <2>1, <3>1
      <4>2. QED
        BY <1>4, <2>2, <4>1, LifeAssumption DEF Found, Candidates, Children, Live
    <3>2. QED
      BY <3>1
  <2>5. c \in Found(q)
    BY <1>1, <1>4, <2>1, <2>2, <2>3, <2>4 DEF Found, Candidates, Children, Live
  <2>6. QED
    BY <1>1, <1>2, <1>3, <2>1, <2>2, <2>5 DEF WaitInv, NoneMissed
<1>5. NoneMissed'
  BY <1>4 DEF NoneMissed
<1>6. InitWaitsForAll'
  BY <1>1, <1>2, LifeAssumption DEF WaitInv, InitWaitsForAll
<1>7. QED
  BY <1>5, <1>6 DEF WaitInv

LEMMA WaitSleepMissesNone ==
    ASSUME LifeInv, WaitInv, NEW p \in Procs, p = current, WaitSleep(p)
    PROVE  WaitInv'
<1>1. /\ pc[p] = "wait" /\ Found(p) = {}
      /\ state' = [state EXCEPT ![p] = "SLEEPING"]
      /\ pc' = [pc EXCEPT ![p] = "asleep"]
      /\ UNCHANGED <<parent, group, waiting>>
  BY DEF WaitSleep, Goto, Block, life_vars
<1>2. /\ pc \in [Procs -> {"user", "trap", "loop"} \cup WaitPhases \cup ExitPhases]
      /\ state \in [Procs -> ProcStates]
  BY DEF LifeInv, TypeOK, SchedTypeOK
<1>3. ASSUME NEW q \in Procs, state'[q] = "SLEEPING", NEW c \in Found(q)'
      PROVE  pc'[c] = "notify"
  <2>1. c \in Found(q) /\ c \in Procs
    BY <1>1, <1>2, <1>3 DEF Found, Candidates, Children, Live
  <2>2. q # p
    BY <1>1, <2>1
  <2>3. pc[c] = "notify"
    BY <1>1, <1>2, <1>3, <2>1, <2>2 DEF WaitInv, NoneMissed
  <2>4. QED
    BY <1>1, <1>2, <2>1, <2>3
<1>4. NoneMissed'
  BY <1>3 DEF NoneMissed
<1>5. InitWaitsForAll'
  BY <1>1, <1>2, LifeAssumption DEF WaitInv, InitWaitsForAll
<1>6. QED
  BY <1>4, <1>5 DEF WaitInv

LEMMA RunningMissesNone ==
    ASSUME LifeInv, LifeInv', WaitInv, NEW p \in Procs, p = current, Running(p)
    PROVE  WaitInv'
<1>1. ASSUME NEW child \in Procs, NEW thread \in BOOLEAN, Fork(p, child, thread)
      PROVE  WaitInv'
  BY <1>1, ForkMissesNone
<1>2. CASE Exec(p)
  BY <1>2, ExecMissesNone
<1>3. ASSUME NEW targets \in SUBSET Procs, NEW own, NEW code,
             MarkAndWake(targets, own, code), pc[p] \in {"user", "trap"},
             NEW next \in {"trap", "exit"}, Goto(p, next),
             UNCHANGED <<parent, group, waiting>>
      PROVE  WaitInv'
  <2> DEFINE W == {q \in targets \ killed : wait_state[q] = "WT_CHILD"}
  <2>1. W \in SUBSET Procs /\ Wakeup(W) /\ \A q \in W : state[q] = "SLEEPING"
    BY <1>3, SleepersLive DEF MarkAndWake
  <2> HIDE DEF W
  <2>2. \A q \in Procs : \/ state'[q] = state[q]
                         \/ state[q] = "SLEEPING" /\ state'[q] = "RUNNABLE"
    BY <2>1, WakeupOfLiving DEF LifeInv
  <2>3. p # InitProc
    BY <1>3 DEF WaitInv, InitWaitsForAll
  <2>4. QED
    BY <1>3, <2>2, <2>3, GoOnMissesNone
<1>4. ASSUME NEW target \in Procs, Kill(p, target)
      PROVE  WaitInv'
  BY <1>3, <1>4 DEF Kill
<1>5. ASSUME NEW code, pc[p] \in {"user", "trap"}, GroupExit(p, code)
      PROVE  WaitInv'
  <2>1. group[p] \ {p} \in SUBSET Procs
    BY DEF LifeInv, TypeOK
  <2>2. QED
    BY <1>3, <1>5, <2>1 DEF GroupExit
<1>6. ASSUME UNCHANGED <<state, parent, group>>,
             \A q \in Procs \ {p} : waiting'[q] = waiting[q],
             pc[p] \in {"user", "woken", "wait", "trap", "loop"},
             NEW next \in {"user", "trap", "exit", "wait"}, Goto(p, next),
             p = InitProc => waiting' = waiting /\ next \in {"exit", "wait"}
      PROVE  WaitInv'
  BY <1>6, GoOnMissesNone
<1>7. ASSUME Reschedule, UNCHANGED <<parent, group, waiting>>,
             pc[p] \in {"trap", "asleep", "loop"},
             NEW next \in {"user", "woken", "wait"}, Goto(p, next),
             p = InitProc => next \in {"woken", "wait"}
      PROVE  WaitInv'
  BY <1>7, RescheduleMissesNone
<1>8. pc[p] \in {"user", "trap", "notify", "dead"} => p # InitProc
  BY DEF WaitInv, InitWaitsForAll
<1>9. ASSUME NEW code \in Codes, SysExit(p, code) \/ ExitThread(p, code)
      PROVE  WaitInv'
  BY <1>5, <1>6, <1>8, <1>9 DEF SysExit, ExitThread, sched_vars
<1>10. CASE BecomeZombie(p)
  BY <1>10, BecomeZombieMissesNone
<1>11. CASE InitPanics(p)
  BY <1>11
  DEF InitPanics, life_vars, WaitInv, NoneMissed, InitWaitsForAll, Found, Candidates, Children, Live
<1>12. CASE Notify(p)
  BY <1>12, NotifyMissesNone
<1>13. ASSUME NEW pid, WaitCall(p, pid)
       PROVE  WaitInv'
  <2>1. \A q \in Procs \ {p} : waiting'[q] = waiting[q]
    BY <1>13 DEF WaitCall, LifeInv, TypeOK
  <2>2. QED
    BY <1>6, <1>8, <1>13, <2>1 DEF WaitCall, sched_vars
<1>14. ASSUME NEW zombie \in Procs, WaitFound(p, zombie)
       PROVE  WaitInv'
  BY <1>14, WaitFoundMissesNone
<1>15. CASE WaitSleep(p)
  BY <1>15, WaitSleepMissesNone
<1>16. CASE WaitResume(p) \/ EnterKernel(p)
  BY <1>6, <1>8, <1>16 DEF WaitResume, EnterKernel, life_vars, sched_vars
<1>17. CASE WaitFails(p)
  <2>1. p # InitProc /\ \A q \in Procs \ {p} : waiting'[q] = waiting[q]
    BY <1>17 DEF WaitFails, HasKid, LifeInv, TypeOK
  <2>2. QED
    BY <1>6, <1>17, <2>1 DEF WaitFails, sched_vars
<1>18. CASE TrapEnd(p)
  BY <1>5, <1>6, <1>7, <1>8, <1>18 DEF TrapEnd, life_vars, sched_vars
<1>19. CASE Schedule(p)
  <2>1. CASE pc[p] = "asleep"
    BY <1>7, <1>19, <2>1 DEF Schedule, life_vars
  <2>2. CASE pc[p] = "dead"
    <3>1. Reschedule /\ UNCHANGED <<parent, group, waiting>> /\ Goto(p, "dead")
      BY <1>19, <2>2 DEF Schedule, life_vars, LifeInv, TypeOK, Goto
    <3>2. QED
      BY <1>8, <2>2, <3>1, RescheduleMissesNone
  <2>3. QED
    BY <1>19, <2>1, <2>2 DEF Schedule
<1>20. CASE InitLoop(p)
  BY <1>6, <1>7, <1>20 DEF InitLoop, life_vars, sched_vars
<1>21. QED
  BY <1>1, <1>2, <1>4, <1>9, <1>10, <1>11, <1>12, <1>13, <1>14, <1>15, <1>16,
     <1>17, <1>18, <1>19, <1>20 DEF Running

LEMMA WaitInvInductive ==
    ASSUME LifeInv, WaitInv, [Next]_vars
    PROVE  WaitInv'
<1>1. ASSUME NEW p \in Procs, current = p, Running(p)
      PROVE  WaitInv'
  BY <1>1, LifeInvInductive, RunningMissesNone
<1>2. CASE IdleLoop \/ UNCHANGED vars
  <2>1. UNCHANGED <<state, pc, parent, group, waiting>>
    BY <1>2 DEF IdleLoop, Reschedule, vars, sched_vars, life_vars
  <2>2. QED
    BY <2>1 DEF WaitInv, NoneMissed, InitWaitsForAll, Found, Candidates, Children, Live
<1>3. QED
  BY <1>1, <1>2 DEF Next

\* No wakeup is lost between exit and wait, whatever other threads of the
\* parent do and whoever inherits the zombie.
THEOREM NobodyMissesAZombie == Spec => []NoZombieMissed
<1>1. Init => WaitInv
  <2> SUFFICES ASSUME Init PROVE WaitInv
    OBVIOUS
  <2>1. \A q \in Procs : state[q] # "SLEEPING"
    BY DEF Init, SchedInit
  <2>2. QED
    BY <2>1, LifeAssumption DEF Init, WaitInv, NoneMissed, InitWaitsForAll
<1>2. LifeInv /\ WaitInv => NoZombieMissed
  BY DEF WaitInv, NoneMissed, NoZombieMissed, Exiting, Found, Candidates, Children, Live
<1>3. QED
  BY <1>1, <1>2, InitEstablishes, LifeInvInductive, WaitInvInductive, PTL DEF Spec

-----------------------------------------------------------------------------
(* do_exit() ends the whole group.                                         *)

\* The threads of a group are doomed together; each is marked or exiting, or
\* belongs to a marked thread at the end of the trap that created it.
DoomedGroups == \A p \in doomed : group[p] \subseteq doomed
DoomedEnd ==
    \A p \in doomed :
        \/ p \in killed \/ pc[p] \in ExitPhases
        \/ /\ current \in doomed \cap killed
           /\ pc[current] = "trap" /\ p \in group[current]

DoomInv == DoomedGroups /\ DoomedEnd

\* Outside the end of a marked thread's trap, steps that leave marks and exits
\* alone keep the invariant for those that stay doomed.
LEMMA DoomStays ==
    ASSUME LifeInv, DoomInv, NEW p \in Procs, p = current,
           pc[p] # "trap" \/ p \notin killed,
           doomed' \subseteq doomed,
           \A q \in doomed' : /\ group'[q] \subseteq group[q]
                              /\ group'[q] \cap (doomed \ doomed') = {}
                              /\ q \in killed => q \in killed'
                              /\ pc[q] \in ExitPhases => pc'[q] \in ExitPhases
    PROVE  DoomInv'
<1>1. DoomedGroups'
  BY DEF DoomInv, DoomedGroups
<1>2. ASSUME NEW q \in doomed'
      PROVE  q \in killed' \/ pc'[q] \in ExitPhases
  BY DEF DoomInv, DoomedEnd
<1>3. QED
  BY <1>1, <1>2 DEF DoomInv, DoomedEnd

\* The same when the set of doomed processes and the groups stay.
LEMMA DoomGoesOn ==
    ASSUME LifeInv, DoomInv, NEW p \in Procs, p = current,
           pc[p] # "trap" \/ p \notin killed,
           UNCHANGED <<group, doomed>>, killed \subseteq killed',
           NEW next, Goto(p, next), pc[p] \in ExitPhases => next \in ExitPhases
    PROVE  DoomInv'
<1>1. \A q \in Procs : pc[q] \in ExitPhases => pc'[q] \in ExitPhases
  BY DEF Goto, LifeInv, TypeOK
<1>2. doomed \subseteq Procs
  BY DEF LifeInv, TypeOK
<1>3. QED
  BY <1>1, <1>2, DoomStays

\* A thread that a doomed thread creates is doomed, too.
LEMMA ForkDooms ==
    ASSUME LifeInv, DoomInv, NEW p \in Procs, p = current,
           NEW child \in Procs, NEW thread \in BOOLEAN, Fork(p, child, thread)
    PROVE  DoomInv'
<1> DEFINE ring == IF thread THEN group[p] \cup {child} ELSE {child}
<1>1. /\ pc[p] = "user" /\ state[child] = "UNINIT" /\ Wakeup({child})
      /\ pc' = [pc EXCEPT ![p] = "trap", ![child] = "user"]
      /\ group' = [q \in Procs |-> IF q \in ring THEN ring ELSE group[q]]
      /\ killed' = killed \ {child}
      /\ doomed' = IF thread /\ p \in doomed THEN doomed \cup {child}
                                             ELSE doomed \ {child}
  BY DEF Fork
<1>2. /\ pc \in [Procs -> {"user", "trap", "loop"} \cup WaitPhases \cup ExitPhases]
      /\ group \in [Procs -> SUBSET Procs] /\ doomed \subseteq Procs
  BY DEF LifeInv, TypeOK
<1>3. p # child /\ current' = p
  BY <1>1, CallerRuns DEF Wakeup
<1>4. /\ \A q \in Procs : q \in group[q] /\ \A r \in group[q] : group[r] = group[q]
      /\ group[child] = {child}
  BY <1>1 DEF LifeInv, Family, GroupsPartition
<1>5. \A q \in Procs : pc[q] \in ExitPhases /\ q # child => pc'[q] \in ExitPhases
  BY <1>1, <1>2, <1>3 DEF ExitPhases
<1>6. \A q \in Procs \ {child} : child \notin group[q]
  BY <1>2, <1>4
<1>7. \A q \in doomed : q \in killed \/ pc[q] \in ExitPhases
  BY <1>1, <1>3 DEF DoomInv, DoomedEnd
<1>8. CASE thread /\ p \in doomed
  <2>1. p \in killed' /\ pc'[p] = "trap" /\ p \in doomed' /\ group'[p] = group[p] \cup {child}
    BY <1>1, <1>2, <1>3, <1>4, <1>7, <1>8 DEF ExitPhases
  <2>2. group[p] \subseteq doomed
    BY <1>8 DEF DoomInv, DoomedGroups
  <2>3. DoomedGroups'
    BY <1>1, <1>2, <1>4, <1>8, <2>2 DEF DoomInv, DoomedGroups
  <2>4. DoomedEnd'
    BY <1>1, <1>2, <1>3, <1>5, <1>7, <1>8, <2>1 DEF DoomedEnd
  <2>5. QED
    BY <2>3, <2>4 DEF DoomInv
<1>9. CASE ~(thread /\ p \in doomed)
  <2>1. doomed' = doomed \ {child}
    BY <1>1, <1>9
  <2>2. \A q \in doomed' : q \notin ring
    BY <1>2, <1>4, <1>9, <2>1 DEF DoomInv, DoomedGroups
  <2>3. DoomedGroups'
    BY <1>1, <1>2, <1>6, <2>1, <2>2 DEF DoomInv, DoomedGroups
  <2>4. DoomedEnd'
    BY <1>1, <1>2, <1>5, <1>7, <2>1 DEF DoomedEnd
  <2>5. QED
    BY <2>3, <2>4 DEF DoomInv
<1>10. QED
  BY <1>8, <1>9

LEMMA GroupExitDooms ==
    ASSUME LifeInv, DoomInv, NEW p \in Procs, p = current,
           NEW code, GroupExit(p, code)
    PROVE  DoomInv'
<1>1. /\ killed' = killed \cup ((group[p] \ {p}) \ killed)
      /\ pc' = [pc EXCEPT ![p] = "exit"]
      /\ doomed' = doomed \cup group[p] /\ group' = group
  BY DEF GroupExit, MarkAndWake, Goto
<1>2. /\ pc \in [Procs -> {"user", "trap", "loop"} \cup WaitPhases \cup ExitPhases]
      /\ group \in [Procs -> SUBSET Procs] /\ doomed \subseteq Procs
  BY DEF LifeInv, TypeOK
<1>3. \A q \in group[p] : group[q] = group[p]
  BY DEF LifeInv, Family, GroupsPartition
<1>4. DoomedGroups'
  BY <1>1, <1>3 DEF DoomInv, DoomedGroups
<1>5. \A q \in group[p] : q \in killed' \/ pc'[q] \in ExitPhases
  BY <1>1, <1>2 DEF ExitPhases
<1>6. \A q \in doomed \ group[p] : q \in killed' \/ pc'[q] \in ExitPhases
  BY <1>1, <1>2 DEF DoomInv, DoomedEnd, ExitPhases
<1>7. DoomedEnd'
  BY <1>1, <1>5, <1>6 DEF DoomedEnd
<1>8. QED
  BY <1>4, <1>7 DEF DoomInv

\* Those that leave a group or are freed leave the other doomed threads alone.
LEMMA LeavingDooms ==
    ASSUME LifeInv, DoomInv, NEW p \in Procs, p = current,
           \/ Exec(p) \/ Notify(p) \/ \E zombie \in Procs : WaitFound(p, zombie)
    PROVE  DoomInv'
<1>1. /\ pc \in [Procs -> {"user", "trap", "loop"} \cup WaitPhases \cup ExitPhases]
      /\ group \in [Procs -> SUBSET Procs] /\ doomed \subseteq Procs
  BY DEF LifeInv, TypeOK
<1>2. CASE Exec(p)
  <2>1. /\ pc[p] = "user" /\ pc' = [pc EXCEPT ![p] = "trap"]
        /\ group' = [q \in Procs |-> IF q = p THEN {p} ELSE group[q] \ {p}]
        /\ doomed' = doomed \ {p} /\ killed' = killed
    BY <1>2 DEF Exec, DeThread, Goto
  <2>2. QED
    BY <1>1, <2>1, DoomStays DEF ExitPhases
<1>3. CASE Notify(p)
  <2>1. /\ pc[p] = "notify" /\ pc' = [pc EXCEPT ![p] = "dead"]
        /\ group' = [q \in Procs |-> IF q = p THEN {p} ELSE group[q] \ {p}]
        /\ doomed' = doomed /\ killed' = killed
    BY <1>3 DEF Notify, DeThread, Goto
  <2>2. \A q \in doomed : group'[q] \subseteq group[q]
    BY <1>1, <2>1 DEF LifeInv, Family, GroupsPartition
  <2>3. QED
    BY <1>1, <2>1, <2>2, DoomStays DEF ExitPhases
<1>4. ASSUME NEW zombie \in Procs, WaitFound(p, zombie)
      PROVE  DoomInv'
  <2>1. /\ pc[p] = "wait" /\ state[zombie] = "ZOMBIE"
        /\ pc' = [pc EXCEPT ![p] = IF p = InitProc THEN "loop" ELSE "trap"]
        /\ group' = group /\ doomed' = doomed \ {zombie} /\ killed' = killed \ {zombie}
    BY <1>4 DEF WaitFound, Reap, Goto
  <2>2. pc[zombie] = "dead"
    BY <2>1 DEF LifeInv, Family, DeadAreDone
  <2>3. \A q \in doomed' : group[q] \cap {zombie} = {}
    BY <1>1, <2>1, <2>2 DEF LifeInv, Family, GroupsPartition
  <2>4. QED
    BY <1>1, <2>1, <2>3, DoomStays DEF ExitPhases
<1>5. QED
  BY <1>2, <1>3, <1>4

LEMMA RunningDooms ==
    ASSUME LifeInv, DoomInv, NEW p \in Procs, p = current, Running(p)
    PROVE  DoomInv'
<1>1. ASSUME NEW child \in Procs, NEW thread \in BOOLEAN, Fork(p, child, thread)
      PROVE  DoomInv'
  BY <1>1, ForkDooms
<1>2. CASE Exec(p) \/ Notify(p) \/ \E zombie \in Procs : WaitFound(p, zombie)
  BY <1>2, LeavingDooms
<1>3. ASSUME NEW target \in Procs, Kill(p, target)
      PROVE  DoomInv'
  BY <1>3, DoomGoesOn DEF Kill, MarkAndWake, ExitPhases
<1>4. ASSUME NEW code \in Codes, SysExit(p, code) \/ ExitThread(p, code)
      PROVE  DoomInv'
  BY <1>4, GroupExitDooms, DoomGoesOn DEF SysExit, ExitThread, ExitPhases
<1>5. CASE BecomeZombie(p) \/ WaitSleep(p)
  BY <1>5, DoomGoesOn DEF BecomeZombie, WaitSleep, life_vars, ExitPhases
<1>6. CASE InitPanics(p)
  BY <1>6 DEF InitPanics, life_vars, DoomInv, DoomedGroups, DoomedEnd
<1>7. CASE (\E pid \in Live \cup {"any"} : WaitCall(p, pid)) \/ WaitFails(p) \/ EnterKernel(p)
  BY <1>7, DoomGoesOn DEF WaitCall, WaitFails, EnterKernel, life_vars, ExitPhases
<1>8. CASE WaitResume(p)
  BY <1>8, DoomGoesOn DEF WaitResume, life_vars, ExitPhases
<1>9. CASE TrapEnd(p)
  BY <1>9, GroupExitDooms, DoomGoesOn DEF TrapEnd, life_vars, ExitPhases
<1>10. CASE Schedule(p)
  <2>1. CASE pc[p] = "asleep"
    BY <1>10, <2>1, DoomGoesOn DEF Schedule, life_vars, ExitPhases
  <2>2. CASE pc[p] = "dead"
    <3>1. UNCHANGED <<pc, group, doomed, killed>>
      BY <1>10, <2>2 DEF Schedule, life_vars
    <3>2. QED
      BY <2>2, <3>1, DoomStays
  <2>3. QED
    BY <1>10, <2>1, <2>2 DEF Schedule
<1>11. CASE InitLoop(p)
  BY <1>11, DoomGoesOn DEF InitLoop, life_vars, ExitPhases
<1>12. QED
  BY <1>1, <1>2, <1>3, <1>4, <1>5, <1>6, <1>7, <1>8, <1>9, <1>10, <1>11 DEF Running

\* do_exit() ends every thread of the group, those included that a thread
\* already marked still creates.
THEOREM GroupExitIsComplete == Spec => []NoThreadSurvives
<1>1. Init => DoomInv
  BY DEF Init, DoomInv, DoomedGroups, DoomedEnd
<1>2. LifeInv /\ DoomInv /\ [Next]_vars => DoomInv'
  <2> SUFFICES ASSUME LifeInv, DoomInv, [Next]_vars PROVE DoomInv'
    OBVIOUS
  <2>1. ASSUME NEW p \in Procs, current = p, Running(p)
        PROVE  DoomInv'
    BY <2>1, RunningDooms
  <2>2. CASE IdleLoop \/ UNCHANGED vars
    <3>1. UNCHANGED <<pc, group, killed, doomed>> /\ (current' = current \/ current = Idle)
      BY <2>2 DEF IdleLoop, vars, life_vars, sched_vars
    <3>2. doomed \subseteq Procs /\ Idle \notin Procs
      BY SchedAssumption DEF LifeInv, TypeOK
    <3>3. QED
      BY <3>1, <3>2 DEF DoomInv, DoomedGroups, DoomedEnd
  <2>3. QED
    BY <2>1, <2>2 DEF Next
<1>3. LifeInv /\ DoomInv => NoThreadSurvives
  BY DEF DoomInv, DoomedEnd, NoThreadSurvives
<1>4. QED
  BY <1>1, <1>2, <1>3, InitEstablishes, LifeInvInductive, PTL DEF Spec
=============================================================================

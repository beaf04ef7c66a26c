------------------------------ MODULE ProcLife ------------------------------
(***************************************************************************)
(* The life of processes and threads in kern/process/proc.c: do_fork,      *)
(* do_exit, do_exit_thread, do_wait, do_kill, the thread part of           *)
(* do_execve, the end of trap() and the loop of initproc.                  *)
(*                                                                         *)
(* A process structure stands for its pid, too: find_proc() finds it until *)
(* do_wait() frees it.  kswapd, a child of initproc that never exits, is   *)
(* not one of Procs.  A system call runs to its end without giving up the  *)
(* CPU except in do_wait(); those that block elsewhere are modules UserSem,*)
(* Event and Sleep.  The order of the lists of children and threads is     *)
(* left open.                                                              *)
(*                                                                         *)
(* pc: "user" in user mode; "trap" at the end of trap(); "wait" at the     *)
(* label repeat of do_wait(), "asleep" before its schedule(), "woken"      *)
(* after it; "exit", "notify" and "dead" in __do_exit(); "loop" in         *)
(* init_main() after a child has been reaped.                              *)
(***************************************************************************)
EXTENDS Scheduler

CONSTANTS InitProc,   \* initproc
          Codes,      \* the exit codes a program may give
          E_KILLED,   \* the exit code of killed processes
          None        \* no process, no exit code

ASSUME LifeAssumption == /\ InitProc \in Procs
                         /\ WaitStates = {"WT_CHILD"}
                         /\ None \notin Procs \cup {Idle} \cup Codes
                         /\ {"any", "gone"} \cap (Procs \cup {Idle, None}) = {}

VARIABLES pc,
          parent,     \* proc->parent
          group,      \* the members of the ring proc->thread_group
          waiting,    \* the pid do_wait() looks for: a process, "any" for 0,
                      \* "gone" once that process has been freed
          killed,     \* the processes with PF_EXITING in proc->flags
          exit_code,  \* proc->exit_code
          doomed      \* history: the threads of groups that called do_exit()

life_vars == <<parent, group, waiting, killed, exit_code, doomed>>
vars == <<sched_vars, pc, life_vars>>

ExitPhases == {"exit", "notify", "dead"}
WaitPhases == {"wait", "asleep", "woken"}

Live == {p \in Procs : state[p] # "UNINIT"}

TypeOK ==
    /\ SchedTypeOK
    /\ pc \in [Procs -> {"user", "trap", "loop"} \cup WaitPhases \cup ExitPhases]
    /\ parent \in [Procs -> Procs \cup {Idle, None}]
    /\ group \in [Procs -> SUBSET Procs]
    /\ waiting \in [Procs -> Procs \cup {"any", "gone", None}]
    /\ killed \subseteq Procs
    /\ exit_code \in [Procs -> Codes \cup {E_KILLED, None}]
    /\ doomed \subseteq Procs

\* init_main() has forked main, the process of user_main(), and calls
\* do_wait(0).
Init ==
    /\ \E main \in Procs \ {InitProc} :
        /\ SchedInit({InitProc, main})
        /\ parent = [p \in Procs |-> IF p = InitProc THEN Idle
                                     ELSE IF p = main THEN InitProc ELSE None]
    /\ pc = [p \in Procs |-> IF p = InitProc THEN "wait" ELSE "user"]
    /\ group = [p \in Procs |-> {p}]
    /\ waiting = [p \in Procs |-> IF p = InitProc THEN "any" ELSE None]
    /\ killed = {}
    /\ exit_code = [p \in Procs |-> None]
    /\ doomed = {}

Goto(p, phase) == pc' = [pc EXCEPT ![p] = phase]

-----------------------------------------------------------------------------
(* Creation *)

\* do_fork() by p of the free structure child; with CLONE_THREAD the child
\* joins the thread group.  It starts at forkret(), on its way to user mode.
Fork(p, child, thread) ==
    LET ring == IF thread THEN group[p] \cup {child} ELSE {child} IN
    /\ pc[p] = "user" /\ state[child] = "UNINIT"
    /\ Wakeup({child})
    /\ pc' = [pc EXCEPT ![p] = "trap", ![child] = "user"]
    /\ parent' = [parent EXCEPT ![child] = p]
    /\ group' = [q \in Procs |-> IF q \in ring THEN ring ELSE group[q]]
    /\ waiting' = [waiting EXCEPT ![child] = None]
    /\ killed' = killed \ {child}
    /\ exit_code' = [exit_code EXCEPT ![child] = None]
    /\ doomed' = IF thread /\ p \in doomed THEN doomed \cup {child}
                                           ELSE doomed \ {child}

\* de_thread(): p leaves the ring of its group.
DeThread(p) ==
    group' = [q \in Procs |-> IF q = p THEN {p} ELSE group[q] \ {p}]

\* do_execve() that succeeds: the program is new and p has no other thread.
\* (One that fails calls do_exit().)
Exec(p) ==
    /\ pc[p] = "user"
    /\ DeThread(p)
    /\ Goto(p, "trap")
    /\ doomed' = doomed \ {p}
    /\ UNCHANGED <<sched_vars, parent, waiting, killed, exit_code>>

-----------------------------------------------------------------------------
(* Kill and exit *)

\* __do_kill() of every process of targets: one that has the flag already is
\* left alone, an interruptible sleep ends.  The exit code of the processes of
\* own is set in any case.
MarkAndWake(targets, own, code) ==
    LET fresh == targets \ killed IN
    /\ killed' = killed \cup fresh
    /\ exit_code' = [q \in Procs |-> IF q \in fresh \cup own THEN code ELSE exit_code[q]]
    /\ Wakeup({q \in fresh : wait_state[q] = "WT_CHILD"})

\* do_kill(): find_proc() finds every process that has not been freed, dead
\* ones included.
Kill(p, target) ==
    /\ pc[p] = "user" /\ target \in Live
    /\ MarkAndWake({target}, {}, E_KILLED)
    /\ Goto(p, "trap")
    /\ UNCHANGED <<parent, group, waiting, doomed>>

\* do_exit(): mark the other threads of the group, then do_exit_thread().
GroupExit(p, code) ==
    /\ MarkAndWake(group[p] \ {p}, {p}, code)
    /\ Goto(p, "exit")
    /\ doomed' = doomed \cup group[p]
    /\ UNCHANGED <<parent, group, waiting>>

SysExit(p, code) == pc[p] = "user" /\ GroupExit(p, code)

\* do_exit_thread()
ExitThread(p, code) ==
    /\ pc[p] = "user"
    /\ exit_code' = [exit_code EXCEPT ![p] = code]
    /\ Goto(p, "exit")
    /\ UNCHANGED <<sched_vars, parent, group, waiting, killed, doomed>>

\* __do_exit() up to PROC_ZOMBIE.
BecomeZombie(p) ==
    /\ pc[p] = "exit" /\ p # InitProc
    /\ Exit
    /\ Goto(p, "notify")
    /\ UNCHANGED life_vars

\* __do_exit() of initproc: at shutdown, or because somebody killed it.
InitPanics(p) ==
    /\ pc[p] = "exit" /\ p = InitProc
    /\ panic' = "__do_exit"
    /\ UNCHANGED <<current, state, wait_state, runq, pc, life_vars>>

Children(p) == {c \in Live : parent[c] = p}

\* The next thread in the ring inherits the children, else initproc.
Heirs(p) == IF group[p] = {p} THEN {InitProc} ELSE group[p] \ {p}

\* Who is waiting among the threads of the parent, and the heir if it gets a
\* zombie and waits.
ParentThreads(p) == {q \in group[parent[p]] : wait_state[q] = "WT_CHILD"}
WaitingHeir(p, heir) ==
    {q \in {heir} : /\ wait_state[q] = "WT_CHILD"
                    /\ \E c \in Children(p) : state[c] = "ZOMBIE"}

\* Faulty variants of Notify: only the parent itself is woken, the children
\* stay where they are, or the zombie child is woken instead of its new parent.
NotifyWith(p, Woken(_), Adopt(_, _)) ==
    /\ pc[p] = "notify"
    /\ \E heir \in Heirs(p) :
        /\ Wakeup(Woken(heir))
        /\ parent' = [c \in Procs |-> Adopt(c, heir)]
    /\ DeThread(p)
    /\ Goto(p, "dead")
    /\ UNCHANGED <<waiting, killed, exit_code, doomed>>
AdoptAll(p, c, heir) == IF c \in Children(p) THEN heir ELSE parent[c]
NotifyParentOnly(p) ==
    NotifyWith(p, LAMBDA h : (ParentThreads(p) \cap {parent[p]}) \cup WaitingHeir(p, h),
               LAMBDA c, h : AdoptAll(p, c, h))
NotifyKeepsChildren(p) ==
    NotifyWith(p, LAMBDA h : ParentThreads(p) \cup WaitingHeir(p, h),
               LAMBDA c, h : parent[c])
NotifyWakesZombie(p) ==
    NotifyWith(p, LAMBDA h : ParentThreads(p) \cup
                             {c \in Children(p) : WaitingHeir(p, h) # {} /\ state[c] = "ZOMBIE"},
               LAMBDA c, h : AdoptAll(p, c, h))

\* The rest of __do_exit(): wake the parent's threads, leave the group, hand
\* the children to the heir.
Notify(p) ==
    /\ pc[p] = "notify"
    /\ \E heir \in Heirs(p) :
        /\ Wakeup(ParentThreads(p) \cup WaitingHeir(p, heir))
        /\ parent' = [c \in Procs |-> IF c \in Children(p) THEN heir ELSE parent[c]]
    /\ DeThread(p)
    /\ Goto(p, "dead")
    /\ UNCHANGED <<waiting, killed, exit_code, doomed>>

-----------------------------------------------------------------------------
(* Wait *)

\* The processes do_wait() of p considers: the one with the given pid if a
\* thread of p's group is its parent; for pid 0 the children of p alone, since
\* the loop over the group starts from current->cptr each time.
Candidates(p) ==
    IF waiting[p] = "any" THEN Children(p)
    ELSE {c \in Live : c = waiting[p] /\ parent[c] \in group[p]}

Found(p) == {c \in Candidates(p) : state[c] = "ZOMBIE"}

\* kswapd is a child of initproc for ever.
HasKid(p) == Candidates(p) # {} \/ p = InitProc

WaitCall(p, pid) ==
    /\ pc[p] = "user"
    /\ waiting' = [waiting EXCEPT ![p] = pid]
    /\ Goto(p, "wait")
    /\ UNCHANGED <<sched_vars, parent, group, killed, exit_code, doomed>>

\* A zombie is found: its structure and pid are freed.
WaitFound(p, zombie) ==
    /\ pc[p] = "wait" /\ zombie \in Found(p)
    /\ Reap(zombie)
    /\ parent' = [parent EXCEPT ![zombie] = None]
    /\ waiting' = [q \in Procs |->
                     IF q = p THEN (IF p = InitProc THEN "any" ELSE None)
                     ELSE IF waiting[q] = zombie THEN "gone" ELSE waiting[q]]
    /\ Goto(p, IF p = InitProc THEN "loop" ELSE "trap")
    /\ exit_code' = [exit_code EXCEPT ![zombie] = None]
    /\ doomed' = doomed \ {zombie}
    /\ killed' = killed \ {zombie}
    /\ UNCHANGED group

\* There are children, none of them dead: sleep ...
WaitSleep(p) ==
    /\ pc[p] = "wait" /\ Found(p) = {} /\ HasKid(p)
    /\ Block("WT_CHILD")
    /\ Goto(p, "asleep")
    /\ UNCHANGED life_vars

\* ... and after the sleep exit if killed (may_killed()), else look again.
WaitResume(p) ==
    /\ pc[p] = "woken"
    /\ Goto(p, IF p \in killed THEN "exit" ELSE "wait")
    /\ UNCHANGED <<sched_vars, life_vars>>

\* There is no child: -E_BAD_PROC.
WaitFails(p) ==
    /\ pc[p] = "wait" /\ ~HasKid(p)
    /\ waiting' = [waiting EXCEPT ![p] = None]
    /\ Goto(p, "trap")
    /\ UNCHANGED <<sched_vars, parent, group, killed, exit_code, doomed>>

-----------------------------------------------------------------------------
(* Traps and scheduling *)

\* An interrupt in user mode, or a system call that changes nothing here.
EnterKernel(p) ==
    /\ pc[p] = "user"
    /\ Goto(p, "trap")
    /\ UNCHANGED <<sched_vars, life_vars>>

\* Faulty variant of TrapEnd: the killed thread exits without its group.
TrapEndThread(p) ==
    /\ pc[p] = "trap"
    /\ \/ /\ p \in killed
          /\ Goto(p, "exit")
          /\ UNCHANGED <<sched_vars, life_vars>>
       \/ /\ p \notin killed
          /\ Reschedule \/ UNCHANGED sched_vars
          /\ Goto(p, "user")
          /\ UNCHANGED life_vars

\* The end of trap(): PF_EXITING makes the whole group exit, with -E_KILLED;
\* need_resched gives the CPU away.
TrapEnd(p) ==
    /\ pc[p] = "trap"
    /\ \/ p \in killed /\ GroupExit(p, E_KILLED)
       \/ /\ p \notin killed
          /\ Reschedule \/ UNCHANGED sched_vars
          /\ Goto(p, "user")
          /\ UNCHANGED life_vars

\* schedule() in do_wait() and at the end of __do_exit().
Schedule(p) ==
    /\ \/ pc[p] = "asleep" /\ Goto(p, "woken")
       \/ pc[p] = "dead" /\ UNCHANGED pc
    /\ Reschedule
    /\ UNCHANGED life_vars

\* init_main() goes on waiting while a user process is left (nr_process);
\* when it returns, kernel_thread_entry calls do_exit().
InitLoop(p) ==
    /\ pc[p] = "loop"
    /\ UNCHANGED life_vars
    /\ \/ Live # {InitProc} /\ Reschedule /\ Goto(p, "wait")
       \/ Live = {InitProc} /\ UNCHANGED sched_vars /\ Goto(p, "exit")

IdleLoop ==
    /\ current = Idle
    /\ Reschedule
    /\ UNCHANGED <<pc, life_vars>>

-----------------------------------------------------------------------------

Running(p) ==
    \/ \E child \in Procs, thread \in BOOLEAN : Fork(p, child, thread)
    \/ Exec(p)
    \/ \E target \in Procs : Kill(p, target)
    \/ \E code \in Codes : SysExit(p, code) \/ ExitThread(p, code)
    \/ BecomeZombie(p) \/ InitPanics(p) \/ Notify(p)
    \/ \E pid \in Live \cup {"any"} : WaitCall(p, pid)
    \/ \E zombie \in Procs : WaitFound(p, zombie)
    \/ WaitSleep(p) \/ WaitResume(p) \/ WaitFails(p)
    \/ EnterKernel(p) \/ TrapEnd(p) \/ Schedule(p) \/ InitLoop(p)

Next ==
    \/ panic = "none" /\ \E p \in Procs : current = p /\ Running(p)
    \/ panic = "none" /\ IdleLoop
    \/ Halted /\ UNCHANGED vars

Spec == Init /\ [][Next]_vars

-----------------------------------------------------------------------------
(* Properties *)

\* Only __do_exit() in progress may have left its notifications to do.
Exiting == \E p \in Procs : pc[p] = "notify"

\* No wakeup is lost between exit and wait: a process asleep in do_wait() would
\* not find a zombie if it looked again, whoever of the parent's threads it is
\* and wherever the zombie came from (an exit or an inheritance).
NoZombieMissed ==
    \A p \in Procs : state[p] = "SLEEPING" /\ ~Exiting => Found(p) = {}

\* Every process has a parent that can still reap it; proc->parent never
\* points to a freed structure.
LivingParents ==
    \A p \in Live \ {InitProc} :
        /\ parent[p] \in Live
        /\ state[parent[p]] = "ZOMBIE" => pc[parent[p]] = "notify"

\* do_exit() ends all threads of the group, also those that a thread already
\* marked still creates: each is marked or exiting, unless it was created by
\* the system call whose trap is about to end.
NoThreadSurvives ==
    \A p \in doomed :
        \/ p \in killed \/ pc[p] \in ExitPhases
        \/ current \in doomed /\ pc[current] = "trap"

\* Exits, kills and waits stay within the contract of the scheduler: no zombie
\* is woken, and nobody frees a structure that is running.
UsesSchedulerProperly == SchedSpec
=============================================================================

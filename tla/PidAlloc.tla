------------------------------ MODULE PidAlloc ------------------------------
(***************************************************************************)
(* get_pid() of kern/process/proc.c: the scan of proc_list for a pid that  *)
(* no process has, with the cached range [last_pid, next_safe) that lets   *)
(* most calls skip the scan.  do_fork() calls it with interrupts off, so   *)
(* proc_list does not change during a scan; one element is one step here.  *)
(* The number of processes is tested before, at the start of do_fork(),    *)
(* and the allocations in between may sleep: more forks may be under way   *)
(* than there is room for, and each of them gets its pid all the same.     *)
(***************************************************************************)
EXTENDS Lists

CONSTANTS MAX_PID,       \* pids are 1 .. MAX_PID - 1
          MAX_PROCESS    \* the number of processes from which on a fork fails

\* The static_assert, and what MAX_PID = 2 * MAX_PROCESS is for: each of up to
\* MAX_PROCESS - 2 processes (besides idleproc) may have passed the test.
ASSUME PidAssumption == /\ MAX_PID \in Nat /\ MAX_PROCESS \in Nat
                        /\ MAX_PID > MAX_PROCESS
                        /\ MAX_PID > 2 * (MAX_PROCESS - 2)
                        /\ MAX_PROCESS > 1

VARIABLES proc_list,   \* the pids of proc_list, newest first (idle is not in it)
          forking,     \* how many calls of do_fork() are past the test
          last_pid, next_safe,   \* the static variables
          le           \* the index the scan has reached; 0 when none is going on

pid_vars == <<proc_list, forking, last_pid, next_safe, le>>

Pids == 1 .. MAX_PID - 1
Live == Elements(proc_list)

PidTypeOK ==
    /\ proc_list \in Seq(Pids)
    /\ forking \in Nat
    /\ last_pid \in 1 .. MAX_PID
    /\ next_safe \in 1 .. MAX_PID
    /\ le \in 0 .. Len(proc_list) + 1
    /\ le # 0 => last_pid \in Pids /\ forking > 0

PidInit ==
    /\ proc_list = <<>>
    /\ forking = 0
    /\ last_pid = MAX_PID /\ next_safe = MAX_PID
    /\ le = 0

-----------------------------------------------------------------------------

\* do_fork() is called by a process that is in no other call, the first time by
\* idleproc; it goes on to its allocations.
Admit ==
    /\ le = 0 /\ Len(proc_list) + 1 < MAX_PROCESS      \* nr_process, with idleproc
    /\ forking < Len(proc_list) \/ (proc_list = <<>> /\ forking = 0)
    /\ forking' = forking + 1
    /\ UNCHANGED <<proc_list, last_pid, next_safe, le>>

\* One of them fails.
GiveUp ==
    /\ le = 0 /\ forking > 0
    /\ forking' = forking - 1
    /\ UNCHANGED <<proc_list, last_pid, next_safe, le>>

\* The new process gets last_pid: set_links() puts it at the front.
NewProcess(pid) ==
    /\ proc_list' = AddFirst(proc_list, pid)
    /\ forking' = forking - 1

\* The next pid is in the cached range: no scan.
Cached ==
    /\ le = 0 /\ forking > 0
    /\ last_pid + 1 < next_safe
    /\ last_pid' = last_pid + 1
    /\ NewProcess(last_pid')
    /\ UNCHANGED <<next_safe, le>>

\* It is not: start a scan, from 1 if the pids are used up ("inside").
StartScan ==
    /\ le = 0 /\ forking > 0
    /\ last_pid + 1 >= next_safe
    /\ last_pid' = IF last_pid + 1 >= MAX_PID THEN 1 ELSE last_pid + 1
    /\ next_safe' = MAX_PID
    /\ le' = 1
    /\ UNCHANGED <<proc_list, forking>>

\* Faulty variant of Collide: "last_pid ++" comes too late for "repeat".
CollideRetriesSame ==
    /\ le \in DOMAIN proc_list
    /\ proc_list[le] = last_pid
    /\ IF last_pid + 1 >= next_safe
       THEN le' = 1 /\ next_safe' = MAX_PID /\ UNCHANGED last_pid
       ELSE last_pid' = last_pid + 1 /\ le' = le + 1 /\ UNCHANGED next_safe
    /\ UNCHANGED <<proc_list, forking>>

\* The scanned process has the pid tried: try the next one, and start over
\* ("repeat") if that is outside the range known so far.
Collide ==
    /\ le \in DOMAIN proc_list
    /\ proc_list[le] = last_pid
    /\ IF last_pid + 1 >= next_safe
       THEN /\ last_pid' = IF last_pid + 1 >= MAX_PID THEN 1 ELSE last_pid + 1
            /\ next_safe' = MAX_PID
            /\ le' = 1
       ELSE /\ last_pid' = last_pid + 1
            /\ le' = le + 1
            /\ UNCHANGED next_safe
    /\ UNCHANGED <<proc_list, forking>>

\* Faulty variant of Pass: the range is not limited.
PassUnlimited ==
    /\ le \in DOMAIN proc_list
    /\ proc_list[le] # last_pid
    /\ le' = le + 1
    /\ UNCHANGED <<proc_list, forking, last_pid, next_safe>>

\* The scanned process has another pid, which may limit the range.
Pass ==
    /\ le \in DOMAIN proc_list
    /\ proc_list[le] # last_pid
    /\ next_safe' = IF proc_list[le] > last_pid /\ next_safe > proc_list[le]
                    THEN proc_list[le] ELSE next_safe
    /\ le' = le + 1
    /\ UNCHANGED <<proc_list, forking, last_pid>>

\* The scan is over: last_pid is the answer.
EndScan ==
    /\ le = Len(proc_list) + 1
    /\ NewProcess(last_pid)
    /\ le' = 0
    /\ UNCHANGED <<last_pid, next_safe>>

\* do_wait() unlinks a dead process (remove_links()), which is in no call.
RemoveLinks(i) ==
    /\ le = 0 /\ forking < Len(proc_list)
    /\ proc_list' = DelAt(proc_list, i)
    /\ UNCHANGED <<forking, last_pid, next_safe, le>>

Scan == Collide \/ Pass \/ EndScan

PidNext ==
    \/ Admit \/ GiveUp
    \/ Cached \/ StartScan \/ Scan
    \/ \E i \in DOMAIN proc_list : RemoveLinks(i)

PidSpec == PidInit /\ [][PidNext]_pid_vars

PidFairSpec == PidSpec /\ WF_pid_vars(Scan)

-----------------------------------------------------------------------------
(* Properties *)

\* No two processes have the same pid, whatever the order of forks and exits
\* and however stale the cached range is.
PidsUnique == Distinct(proc_list)

\* What the cache promises: between two calls no process has a pid strictly
\* between last_pid and next_safe; in a scan, no scanned one has a pid from
\* last_pid up to next_safe, and last_pid itself is in that range.
RangeIsFree ==
    /\ le = 0 => \A pid \in Live : ~(last_pid < pid /\ pid < next_safe)
    /\ \A i \in DOMAIN proc_list :
          i < le => ~(last_pid <= proc_list[i] /\ proc_list[i] < next_safe)
    /\ le # 0 => last_pid < next_safe

\* A scan finds a pid: it ends although "repeat" starts it over and over, and
\* although there may be more processes by now than the test was to allow.
ScanEnds == le # 0 ~> le = 0
=============================================================================

------------------------------ MODULE Resources ------------------------------
(***************************************************************************)
(* What processes share and who frees it: the address spaces (mm_struct),  *)
(* the lists of semaphores (sem_queue_t) and the user semaphores, through  *)
(* do_fork(), do_execve(), do_exit(), do_wait() and the semaphore calls of *)
(* kern/process/proc.c and kern/sync/sem.c.  Every allocation may sleep    *)
(* for memory and may fail; a step goes from one of them to the next.      *)
(* Each kind of structure is numbered, the lowest free number is given.    *)
(***************************************************************************)
EXTENDS Integers, FiniteSets, SequencesExt

CONSTANTS Tasks,          \* the proc_structs of user processes
          MaxTasks,         \* MAX_PROCESS, without the kernel's own
          First,          \* user_main, which starts without mm and sem_queue
          MmIds, QueueIds, SemIds,    \* the structures that memory is enough for
          MaxCount          \* bound on the count of a queue, which exits leave as it is

ASSUME ResourcesAssumption ==
    /\ First \in Tasks /\ 0 \notin Tasks /\ MmIds \cup QueueIds \cup SemIds \subseteq Nat \ {0}
    /\ IsFiniteSet(Tasks) /\ MaxCount \in Nat \ {0}

\* Each of MaxTasks - 1 processes may be past the test of do_fork() at once.
ASSUME TasksAssumption ==
    MaxTasks \in Nat \ {0} /\ Cardinality(Tasks) >= 2 * (MaxTasks - 1)

VARIABLES task,           \* process |-> [pc, mm, queue]; 0 is NULL.  pc: "none",
                          \* "run", "zombie", or a step of fork, exec or
                          \* ipc_sem_init()
          child,          \* forking process |-> what do_fork() has made so far
          mm_count,       \* allocated mm |-> mm->mm_count
          proc_mm_list,   \* the mms on the list that kswapd goes through
          sem_queue,      \* allocated queue |-> [count, sems, left, lock]: left are
                          \* the entries a holder of the lock has still to copy
          sem,            \* allocated semaphore |-> [count, valid]
          waits           \* process |-> the semaphore whose wait queue it is in

resource_vars == <<task, child, mm_count, proc_mm_list, sem_queue, sem, waits>>

NULL == 0
Free(ids, f) == {i \in ids \ DOMAIN f : \A j \in ids \ DOMAIN f : i <= j}
Put(f, i, x) == [j \in DOMAIN f \cup {i} |-> IF j = i THEN x ELSE f[j]]
Drop(f, S) == [j \in DOMAIN f \ S |-> f[j]]
Nobody == [mm |-> NULL, queue |-> NULL, flags |-> {}]
nr_process == Cardinality({p \in Tasks : task[p].pc # "none"})

ResourcesInit ==
    /\ task = [p \in Tasks |-> [pc |-> IF p = First THEN "run" ELSE "none", mm |-> NULL, queue |-> NULL]]
    /\ child = [p \in Tasks |-> Nobody]
    /\ mm_count = <<>> /\ proc_mm_list = {}
    /\ sem_queue = <<>> /\ sem = <<>>
    /\ waits = [p \in Tasks |-> NULL]

-----------------------------------------------------------------------------
(* Giving structures up *)

\* semu_destroy() for an entry of each of these semaphores.
PutSems(s, sems) ==
    LET less == [i \in DOMAIN s |-> IF i \in sems THEN [s[i] EXCEPT !.count = @ - 1] ELSE s[i]]
    IN Drop(less, {i \in DOMAIN less : less[i].count = 0})

\* put_sem_queue(): the last user destroys the queue and its entries.
put_sem_queue(q) ==
    IF q = NULL THEN UNCHANGED <<sem_queue, sem>>
    ELSE IF sem_queue[q].count > 1
    THEN sem_queue' = [sem_queue EXCEPT ![q].count = @ - 1] /\ UNCHANGED sem
    ELSE sem_queue' = Drop(sem_queue, {q}) /\ sem' = PutSems(sem, sem_queue[q].sems)

\* mm_count_dec(), and exit_mmap() with mm_destroy() by the last user.
PutMm(m) ==
    IF m = NULL THEN UNCHANGED <<mm_count, proc_mm_list>>
    ELSE IF mm_count[m] > 1
    THEN mm_count' = [mm_count EXCEPT ![m] = @ - 1] /\ UNCHANGED proc_mm_list
    ELSE mm_count' = Drop(mm_count, {m}) /\ proc_mm_list' = proc_mm_list \ {m}

-----------------------------------------------------------------------------
(* do_fork() *)

Running(p) == task[p].pc = "run" /\ waits[p] = NULL
Goto(p, pc) == task' = [task EXCEPT ![p].pc = pc]

\* The test of nr_process, and on to the first allocation.
ForkEnter(p, flags) ==
    /\ Running(p) /\ task[p].mm # NULL /\ nr_process < MaxTasks
    /\ Goto(p, "copy_sem")
    /\ child' = [child EXCEPT ![p].flags = flags]
    /\ UNCHANGED <<mm_count, proc_mm_list, sem_queue, sem, waits>>

\* copy_sem() with CLONE_SEM, or with a new queue: the old one is locked while
\* its entries are copied.
ForkShareQueue(p) ==
    LET q == task[p].queue IN
    /\ task[p].pc = "copy_sem" /\ "CLONE_SEM" \in child[p].flags
    /\ sem_queue[q].count < MaxCount
    /\ sem_queue' = [sem_queue EXCEPT ![q].count = @ + 1]
    /\ child' = [child EXCEPT ![p].queue = q]
    /\ Goto(p, "copy_mm")
    /\ UNCHANGED <<mm_count, proc_mm_list, sem, waits>>
ForkNewQueue(p) ==
    LET q == task[p].queue IN
    /\ task[p].pc = "copy_sem" /\ "CLONE_SEM" \notin child[p].flags
    /\ sem_queue[q].lock = NULL
    /\ \E new \in Free(QueueIds, sem_queue) :
          /\ sem_queue' = Put([sem_queue EXCEPT ![q].lock = p, ![q].left = sem_queue[q].sems], new,
                              [count |-> 0, sems |-> {}, left |-> {}, lock |-> NULL])
          /\ child' = [child EXCEPT ![p].queue = new]
    /\ Goto(p, "dup_sem_queue")
    /\ UNCHANGED <<mm_count, proc_mm_list, sem, waits>>

\* The loop of dup_sem_queue(): only valid semaphores get an entry.
ForkDupSem(p) ==
    LET q == task[p].queue
        new == child[p].queue
    IN /\ task[p].pc = "dup_sem_queue"
       /\ \E s \in sem_queue[q].left :
             IF sem[s].valid
             THEN /\ sem_queue' = [sem_queue EXCEPT ![q].left = @ \ {s}, ![new].sems = @ \cup {s}]
                  /\ sem' = [sem EXCEPT ![s].count = @ + 1]
             ELSE sem_queue' = [sem_queue EXCEPT ![q].left = @ \ {s}] /\ UNCHANGED sem
       /\ UNCHANGED <<task, child, mm_count, proc_mm_list, waits>>
ForkQueueDone(p) ==
    LET q == task[p].queue IN
    /\ task[p].pc = "dup_sem_queue" /\ sem_queue[q].left = {}
    /\ sem_queue' = [sem_queue EXCEPT ![q].lock = NULL, ![child[p].queue].count = 1]
    /\ Goto(p, "copy_mm")
    /\ UNCHANGED <<child, mm_count, proc_mm_list, sem, waits>>

\* Faulty variant of ForkMm: a shared mm is not counted.
ForkMmNotCounted(p) ==
    /\ task[p].pc = "copy_mm"
    /\ child' = [child EXCEPT ![p].mm = task[p].mm]
    /\ Goto(p, "link") /\ UNCHANGED <<mm_count, proc_mm_list, sem_queue, sem, waits>>

\* copy_mm() with CLONE_VM, or with a copy that joins proc_mm_list.
ForkMm(p) ==
    /\ task[p].pc = "copy_mm"
    /\ IF "CLONE_VM" \in child[p].flags
       THEN /\ mm_count' = [mm_count EXCEPT ![task[p].mm] = @ + 1]
            /\ child' = [child EXCEPT ![p].mm = task[p].mm]
            /\ UNCHANGED proc_mm_list
       ELSE \E m \in Free(MmIds, mm_count) :
            /\ mm_count' = Put(mm_count, m, 1)
            /\ child' = [child EXCEPT ![p].mm = m]
            /\ proc_mm_list' = proc_mm_list \cup {m}
    /\ Goto(p, "link")
    /\ UNCHANGED <<sem_queue, sem, waits>>

\* set_links(): the child exists, even beyond MaxTasks.
ForkLink(p, c) ==
    /\ task[p].pc = "link" /\ task[c].pc = "none"
    /\ task' = [task EXCEPT ![c] = [pc |-> "run", mm |-> child[p].mm, queue |-> child[p].queue],
                            ![p].pc = "run"]
    /\ child' = [child EXCEPT ![p] = Nobody]
    /\ UNCHANGED <<mm_count, proc_mm_list, sem_queue, sem, waits>>

\* An allocation fails: in alloc_proc(), setup_kstack() or sem_queue_create(), in
\* dup_sem_queue() (whose queue is taken down again), or in copy_mm().
ForkFailsEarly(p) ==
    /\ task[p].pc = "copy_sem"
    /\ Goto(p, "run") /\ child' = [child EXCEPT ![p] = Nobody]
    /\ UNCHANGED <<mm_count, proc_mm_list, sem_queue, sem, waits>>
ForkFailsInDup(p) ==
    LET q == task[p].queue IN
    /\ task[p].pc = "dup_sem_queue" /\ sem_queue[q].left # {}
    /\ sem' = PutSems(sem, sem_queue[child[p].queue].sems)
    /\ sem_queue' = Drop([sem_queue EXCEPT ![q].lock = NULL, ![q].left = {}], {child[p].queue})
    /\ Goto(p, "run") /\ child' = [child EXCEPT ![p] = Nobody]
    /\ UNCHANGED <<mm_count, proc_mm_list, waits>>
ForkFailsInMm(p) ==
    /\ task[p].pc = "copy_mm" /\ "CLONE_VM" \notin child[p].flags
    /\ put_sem_queue(child[p].queue)
    /\ Goto(p, "run") /\ child' = [child EXCEPT ![p] = Nobody]
    /\ UNCHANGED <<mm_count, proc_mm_list, waits>>

-----------------------------------------------------------------------------
(* do_execve(), do_exit() and do_wait() *)

\* The old mm and the old queue go; the next allocation is sem_queue_create().
ExecEnter(p) ==
    /\ Running(p)
    /\ PutMm(task[p].mm) /\ put_sem_queue(task[p].queue)
    /\ task' = [task EXCEPT ![p] = [pc |-> "sem_queue_create", mm |-> NULL, queue |-> NULL]]
    /\ UNCHANGED <<child, waits>>
ExecQueue(p) ==
    /\ task[p].pc = "sem_queue_create"
    /\ \E q \in Free(QueueIds, sem_queue) :
          /\ sem_queue' = Put(sem_queue, q, [count |-> 1, sems |-> {}, left |-> {}, lock |-> NULL])
          /\ task' = [task EXCEPT ![p].pc = "load_icode", ![p].queue = q]
    /\ UNCHANGED <<child, mm_count, proc_mm_list, sem, waits>>

\* load_icode() to its end: the mm joins proc_mm_list when it is complete.
ExecLoad(p) ==
    /\ task[p].pc = "load_icode"
    /\ \E m \in Free(MmIds, mm_count) :
          /\ mm_count' = Put(mm_count, m, 1)
          /\ proc_mm_list' = proc_mm_list \cup {m}
          /\ task' = [task EXCEPT ![p].pc = "run", ![p].mm = m]
    /\ UNCHANGED <<child, sem_queue, sem, waits>>

\* __do_exit(), from user mode or because an allocation of do_execve() failed:
\* the mm is put, the list of semaphores is not.
do_exit(p) ==
    /\ (Running(p) /\ task[p].mm # NULL) \/ task[p].pc \in {"sem_queue_create", "load_icode"}
    /\ PutMm(task[p].mm)
    /\ task' = [task EXCEPT ![p].pc = "zombie", ![p].mm = NULL]
    /\ UNCHANGED <<child, sem_queue, sem, waits>>

\* do_wait() by the parent: the proc_struct is free again.
ReapTask(p) ==
    /\ task[p].pc = "zombie"
    /\ task' = [task EXCEPT ![p].pc = "none", ![p].queue = NULL]
    /\ UNCHANGED <<child, mm_count, proc_mm_list, sem_queue, sem, waits>>

-----------------------------------------------------------------------------
(* Semaphore calls: each waits until the list is not locked. *)

InList(p) == Running(p) /\ task[p].queue # NULL /\ sem_queue[task[p].queue].lock = NULL

\* ipc_sem_init(): semu_create() gets the memory, before the list is locked;
SemCreate(p) ==
    /\ Running(p) /\ task[p].queue # NULL
    /\ Cardinality(DOMAIN sem) + Cardinality({r \in Tasks : task[r].pc = "ipc_sem_init"}) < Cardinality(SemIds)
    /\ Goto(p, "ipc_sem_init")
    /\ UNCHANGED <<child, mm_count, proc_mm_list, sem_queue, sem, waits>>

\* with its entry in the list the semaphore can be found, and has its number.
SemLink(p) ==
    LET q == task[p].queue IN
    /\ task[p].pc = "ipc_sem_init" /\ sem_queue[q].lock = NULL
    /\ \E s \in Free(SemIds, sem) :
          /\ sem' = Put(sem, s, [count |-> 1, valid |-> TRUE])
          /\ sem_queue' = [sem_queue EXCEPT ![q].sems = @ \cup {s}]
    /\ Goto(p, "run")
    /\ UNCHANGED <<child, mm_count, proc_mm_list, waits>>

\* semu_list_search() that finds a semaphore another process has freed: the
\* entry goes, and the call fails.
SearchDrops(p, s) ==
    /\ InList(p) /\ s \in sem_queue[task[p].queue].sems /\ ~sem[s].valid
    /\ sem_queue' = [sem_queue EXCEPT ![task[p].queue].sems = @ \ {s}]
    /\ sem' = PutSems(sem, {s})
    /\ UNCHANGED <<task, child, mm_count, proc_mm_list, waits>>

\* ipc_sem_wait() that blocks, and its end: posted, timed out or killed, the
\* process leaves the wait queue.
SemWait(p, s) ==
    /\ InList(p) /\ s \in sem_queue[task[p].queue].sems /\ sem[s].valid
    /\ waits' = [waits EXCEPT ![p] = s]
    /\ UNCHANGED <<task, child, mm_count, proc_mm_list, sem_queue, sem>>
SemWaitEnds(p) ==
    /\ waits[p] # NULL
    /\ waits' = [waits EXCEPT ![p] = NULL]
    /\ UNCHANGED <<task, child, mm_count, proc_mm_list, sem_queue, sem>>

\* ipc_sem_free(): the semaphore is invalid for every process that has an entry,
\* its wait queue is emptied, and the entries stay until they are searched.
SemFree(p, s) ==
    /\ InList(p) /\ s \in sem_queue[task[p].queue].sems /\ sem[s].valid
    /\ sem' = [sem EXCEPT ![s].valid = FALSE]
    /\ waits' = [q \in Tasks |-> IF waits[q] = s THEN NULL ELSE waits[q]]
    /\ UNCHANGED <<task, child, mm_count, proc_mm_list, sem_queue>>

ForkStep(p) ==
    \/ \E flags \in SUBSET {"CLONE_VM", "CLONE_SEM"} : ForkEnter(p, flags)
    \/ ForkShareQueue(p) \/ ForkNewQueue(p) \/ ForkDupSem(p) \/ ForkQueueDone(p) \/ ForkMm(p)
    \/ \E c \in Tasks : ForkLink(p, c)
    \/ ForkFailsEarly(p) \/ ForkFailsInDup(p) \/ ForkFailsInMm(p)

ResourcesNext ==
    \E p \in Tasks :
       \/ ForkStep(p)
       \/ ExecEnter(p) \/ ExecQueue(p) \/ ExecLoad(p) \/ do_exit(p) \/ ReapTask(p)
       \/ SemCreate(p) \/ SemLink(p) \/ SemWaitEnds(p)
       \/ \E s \in SemIds : SearchDrops(p, s) \/ SemWait(p, s) \/ SemFree(p, s)

ResourcesSpec == ResourcesInit /\ [][ResourcesNext]_resource_vars

-----------------------------------------------------------------------------
(* Properties *)

Holders(m) == {p \in Tasks : task[p].mm = m}
Copies(m) == {p \in Tasks : child[p].mm = m}
Users(q) == {p \in Tasks : task[p].queue = q /\ task[p].pc # "zombie"}

\* Nobody uses what has been freed: the queue of a process, the entries of a
\* queue and the semaphore somebody waits for exist, and a list that is being
\* copied stays as it is.
NoUseAfterFree ==
    /\ \A p \in Tasks : {task[p].queue, child[p].queue} \subseteq DOMAIN sem_queue \cup {NULL}
    /\ \A p \in Tasks : waits[p] # NULL => waits[p] \in DOMAIN sem
    /\ \A q \in DOMAIN sem_queue : sem_queue[q].left \subseteq sem_queue[q].sems /\ sem_queue[q].sems \subseteq DOMAIN sem
    /\ \A q \in DOMAIN sem_queue :
          Cardinality(Users(q)) + Cardinality({p \in Tasks : child[p].queue = q /\ task[p].pc # "dup_sem_queue"})
             <= sem_queue[q].count

\* Through every failed and completed fork and exec, mm_count is the number of
\* processes of the address space, children in the making included, proc_mm_list
\* has exactly the address spaces in use, the count of a semaphore is the
\* number of its entries in the lists that still exist, and nothing that is
\* still used has been freed.
SharersCounted ==
    /\ \A p \in Tasks : {task[p].mm, child[p].mm} \subseteq DOMAIN mm_count \cup {NULL}
    /\ \A m \in DOMAIN mm_count : mm_count[m] = Cardinality(Holders(m)) + Cardinality(Copies(m))
    /\ proc_mm_list = DOMAIN mm_count
    /\ \A s \in DOMAIN sem : sem[s].count = Cardinality({q \in DOMAIN sem_queue : s \in sem_queue[q].sems})
    /\ NoUseAfterFree
=============================================================================

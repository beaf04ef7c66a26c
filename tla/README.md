# jokeros: a verification project

TLA+ models of the concurrent core of jokeros, a uCore-derived teaching kernel for
x86, with TLC runs that check them on small instances and TLAPS proofs for every
instance. The kernel runs on one CPU and is not preemptible: the running process
changes only in `schedule()`. What makes it hard are the timer interrupts, which run
wherever interrupts are enabled, and the fact that every blocking operation is spread
over three pieces of code (go to sleep, call `schedule()`, run again) with other
processes and interrupts in between.

Paths are relative to the repository (`src/`); `src/sub/jokeros` repeats the whole tree
(one file, `vmm.c`, differs in three lines) and is not looked at separately.

## 1. Inventory

| part | state | operations | who calls it | what is hard |
|---|---|---|---|---|
| scheduler core (`kern/schedule/sched.c`) | `current`, `proc->state`, `wait_state`, run queue | `wakeup_proc`, `schedule` | everything that blocks, the timer interrupt | waking a process that has gone to sleep but not yet called `schedule()` |
| MLFQ and RR classes (`sched_MLFQ.c`, `sched_RR.c`) | 4 run queues, `proc->rq`, `time_slice`, `need_resched` | enqueue, dequeue, pick_next, proc_tick | `sched.c`, `do_fork` (splits the slice) | `rq` and `time_slice` survive sleeps; fairness |
| timers (`sched.c`), `do_sleep` | `timer_list` of relative times, `timer_t` on kernel stacks | `add_timer`, `del_timer`, `run_timer_list` | `do_sleep`, waits with timeout, timer interrupt | distances, same-tick expiry, early wakeups |
| wait queues (`wait.c`) | list of `wait_t` on kernel stacks | set, wake, delete | semaphores, events, mboxes | entries of processes that are already awake |
| kernel semaphores (`sem.c`) | `value`, `wait_queue` | `down`, `up`, `try_down` | `sem_queue->sem`, `sem_mbox_map`, monitors | hand-off of the token |
| user semaphores (`sem.c`) | the same, `valid` | `ipc_sem_init/wait/post/free/get_value` | system calls | timeouts, kills, free with waiters |
| semaphore lists (`sem.c`, `proc.c`) | `sem_queue`, `sem_undo`, reference counts | search, dup, exit | fork, exec, the semaphore calls | lifetime of semaphores, allocations that fail |
| events (`event.c`) | `event_box` per process | send, receive | system calls, `__do_exit` | rendezvous against timeouts, kills, exits |
| message boxes (`mbox.c`) | table of mboxes, slots, wait queues | init, send, recv, free, cleanup, info | nobody yet (no system call) | copying, ids reused, timeouts, a box freed under its callers |
| philosophers, monitors (`check_sync.c`, `monitor.c`) | forks, a semaphore each; condition variables | take, put; signal, wait (stubs) | `check_sync` (its call is commented out) | deadlock |
| pids (`proc.c`) | `proc_list`, `last_pid`, `next_safe` | `get_pid`, `set_links`, `remove_links` | `do_fork`, `do_wait` | cached range, wrap-around |
| process life cycle (`proc.c`) | parents, children, thread groups, flags, exit codes | fork, exit, wait, kill | system calls, traps | exit against wait and kill |
| areas of address spaces (`vmm.c`, `proc.c`) | list, tree and cache of `vma_struct`s, `brk`, `mm_lock` | mmap, munmap, brk, fork, exit, find, check | system calls, page faults | holes and splits, a stale cache, offsets in shared memory |
| page faults (`vmm.c`, `pmm.c`, `shmem.c`) | page tables, page reference counts | fault, copy, unmap | traps, fork, exit | copy on write, sleeping in a fault |
| swap (`swap.c`, `swapfs.c`) | page lists, swap map, `kswapd` | swap in and out, try_free_pages | page faults, `alloc_pages` | entry counts, kswapd and its clients |
| buddy allocator (`buddy_pmm.c`) | free lists by order, zones | alloc, free | `alloc_pages` | splitting, merging, the ends of zones |
| slab allocator (`slab.c`) | caches, slabs, free objects | `kmalloc`, `kfree` | everybody | sleeping while it grows, caches that use caches |
| red-black tree (`rb_tree.c`) | nodes, colours | insert, delete, search, next, previous | `vmm.c` | deletion |
| user heap (`user/libs/malloc.c`) | circular free list of two kinds of blocks | `malloc`, `shmem_malloc`, `free` | user programs | merging, memory got during a search |
| pipes (`user/libs/spipe.c`) | ring on shared memory, a lock, a handle per process | read, write, close, isclosed | user programs | wrap-around, closing under others |
| file system, drivers, debugger, boot, printf | | | | stubs or pure I/O |

What makes each part correct: no runnable process is lost and each is queued once
(scheduler); demotion by use only and round robin in a queue (MLFQ); every sleep lasts
its own ticks (timers); tokens are conserved, waiters are asleep and queued, nothing on a
stack outlives its call (semaphores); both ends agree on delivery and nobody misses
a partner (events, message boxes); no box, list, semaphore or address space goes while somebody
uses it; ids are unique (pids); the several representations of one set agree (areas, free lists,
slabs, trees, the user heap); bytes come out of a pipe as they went in.

## 2. Modules

| module | models | EXTENDS / INSTANCE |
|---|---|---|
| `Lists` | `libs/list.h` as sequences | |
| `Scheduler` | `wakeup_proc`, `schedule`, `wait_current_set`; run queue as a set; `SchedSpec` is the contract its clients must keep | |
| `Mlfq` | the real run queues, time slices, ticks, fork | INSTANCE `Scheduler` (implements `SchedSpec`) |
| `Semaphore` | `__down`, `__up` as steps, no clients | EXTENDS `Scheduler`, `Lists` |
| `KernelMutex` | a kernel semaphore with value 1 | EXTENDS `Semaphore`, INSTANCE `FifoLock` |
| `FifoLock` | abstract: a lock handed over in order | |
| `UserSem` | wait, post, free with ticks, kills, exits | EXTENDS `Semaphore` |
| `TimerList` | `timer_init`, `add_timer`, `del_timer`, `run_timer_list` | INSTANCE `Alarms` (implements its `Spec`) |
| `Sleep` | `do_sleep` on scheduler and timer list | EXTENDS `Scheduler`, `TimerList` |
| `Alarms` | abstract: independent countdowns | |
| `Event` | `event.c` with ticks, kills, exits, reuse of structures | EXTENDS `Scheduler`, `Lists` |
| `Mbox` | `mbox.c` on the scheduler and the list of timers, with copies that sleep and fail | EXTENDS `Scheduler`, `TimerList`, `Lists` |
| `PidAlloc` | `get_pid` one list element at a time | EXTENDS `Lists` |
| `ProcLife` | fork, exec, kill, exit, wait and `init_main` with parents, children and thread groups | EXTENDS `Scheduler` |
| `Memory` | page frames, page table entries, swap entries and the swap cache, as functions on a record of their state | |
| `Paging` | `do_pgfault`, `copy_range`, `unmap_range`, `alloc_pages`, `kswapd_main` | EXTENDS `Memory` |
| `RbTree` | `rb_tree.c`, node for node, as functions on a tree | |
| `Vma` | the areas of address spaces and the calls that change them | EXTENDS `RbTree` |
| `Buddy` | `buddy_pmm.c` on zones of any length | |
| `Slab` | `kmalloc` and `kfree`, from one return of `alloc_pages()` to the next call | |
| `UserHeap` | `user/libs/malloc.c`, in units of headers | |
| `Resources` | who shares and frees `mm_struct`s, lists of semaphores and semaphores, through fork, exec, exit, wait and the semaphore calls | |
| `Spipe` | `user/libs/spipe.c`, a byte or a test per step | |
| `Philosophers` | the philosophers of `check_sync.c` | |
| `SchedulerProofs`, `EventProofs`, `ProcLifeProofs`, `PagingProofs` | theorems about the module of the same name | EXTENDS it, `SchedulerProofs` and `ListsProofs` where it uses them |
| `SemaphoreProofs` | theorems about `KernelMutex` and `UserSem` | EXTENDS the two, `SchedulerProofs`, `ListsProofs` |
| `TimerProofs` | theorems about `TimerList` and its users `Sleep` and `Mbox` | EXTENDS `Sleep`, `Mbox`, `SchedulerProofs`, `ListsProofs` |
| `StructuresProofs` | theorems about `PidAlloc`, `Spipe`, `Resources` and `Mlfq` | EXTENDS the four |
| `ListsProofs` | lemmas about the list operations, and induction over numbers | EXTENDS `Lists` |
| `MC*` | definitions for the configurations; `MCSpaces` and `MCStructures` put modules side by side that share no state | |

How the code becomes actions. A section with interrupts off is one action; a
call of `schedule()` is one action (`Reschedule`: queue the running process if it is
runnable, take one from the queue or idleproc); code between two such points is one
action unless interrupts matter in it. `pc` says where a process is. A process
acts only while it is `current`. The timer interrupt (`Tick`) may come between any two
actions; when it interrupts user mode it also runs the end of `trap()`, so `pc` becomes
`"return"`. A failed `assert` sets `panic` and the kernel stops (`__panic` loops for ever).

State of the models and of the code: `state`, `wait_state`, `current`, `value`,
`wait_queue`, `wakeup_flags`, `expires`, `queue` (the run lists), `rq`, `time_slice`,
`need_resched`, `last_pid`, `next_safe` have the names of the code. A wait queue is the
sequence of its processes, since a `wait_t` has one process. `runq` is the set of linked
processes; that a set is enough is what `Mlfq!ImplementsScheduler` shows. In `UserSem`
and `Event` a timer is a countdown per process; that a countdown is enough is what
`TimerList!ImplementsAlarms` shows of the list. `killed` is `PF_EXITING`. `posts`, `grants`,
`received`, `left`, `interrupted`, `doomed` are history variables.

In `ProcLife` a process structure is also its pid. `parent` is `proc->parent`, and the list
of children is the set of processes with that parent; `group` is the ring
`proc->thread_group`. A system call runs from user mode (`"user"`) to the end of `trap()`
(`"trap"`); only `do_wait()` stops on its way, at `repeat` (`"wait"`), before its
`schedule()` (`"asleep"`) and after it (`"woken"`). `__do_exit()` has two sections with
interrupts on between them: up to `PROC_ZOMBIE` (`"exit"`) and the notifications with the
hand-over of the children (`"notify"`); then it calls `schedule()` (`"dead"`) and
never returns. `doomed` collects the threads of groups for which `do_exit()` was called.

In `Mbox` a structure of `mbox_map` is its id (an id is the index of the structure, and a
closed structure is used again), `msg` is the message in the hands of a process, `inuse`,
`slots`, `max_slots`, `state` and the lists are fields of the box. The copies from and to user
memory take `mm_lock` and may sleep, so they are steps of their own. A receiver may have a buffer
that is too small, and the copy to it may fail.

In `Vma` an address space is its list, its tree (kept only from `RB_MIN_MAP_COUNT` areas on),
its cache and its areas; `pte` is the set of pages that may have an entry. A call
holds `mm_lock` and is one step; `memory` says whether its allocation succeeds. A fork may also fail at
any area: the copy so far (`failed`) is then nobody's, and is taken down by `Exit` in a later step, since
`copy_mm()` gives `mm_lock` back first. A pointer to an
area that was destroyed is told apart from all areas there are (`Named`). Once a null `shmem` has
been followed (section 6) the behaviour ends.

In `Resources`, `task` and `child` are the fields of a process and of the child that its
`do_fork()` is making; structures have numbers and the lowest free one is taken, as an
allocator may. `left` are the entries `dup_sem_queue()` has still to copy: it allocates, and may
sleep, for each of them with the lock of the list held. `ForkEnter` tests the number of processes and
`ForkLink` adds the child without looking at it again, as the code does; `PidAlloc` has the same two
steps around `get_pid()` (`Admit`, `forking`). `Buddy`, `Slab`,
`UserHeap` and `RbTree` have no processes of their own: a call is a step, or in `Slab` the part
between two waits for pages, and the callers are whoever may run then.

In `Paging` the functions of `Memory` are composed as the code composes its calls, so an
action goes from one point where the CPU may be given away to the next: `alloc_pages()` with
no frame free, `lock_shmem()`, `do_sleep()` of kswapd. `at` is the address part of a page table
entry (a frame, a swap entry or nothing) for every page of every address space and of the shared
memory object; `writable`, `accessed`, `dirty` are its bits; `ref`, `index`, `pg_dirty` are
fields of `struct Page`, `mem_map` and `used` the table of swap entries (`used` are those that
are not `SWAP_UNUSED`). `pc` is `"fault"` in `do_pgfault()` before its first allocation, `"in"`
asleep in `swap_in_page()`, `"fork"` in `copy_range()`. Between the fault and the first
allocation nobody else changes the entry but kswapd, as it could before the access, so a step
of its own for the fault adds no behaviour. `kswapd` goes through `"woken"`, `"out"`
(`swap_out_mm`), `"launder"` (`page_launder` and `refill_inactive_scan`), and nobody else runs from
`"out"` on. `stale` and `undirtied` are history variables: the entries whose copy on the disk misses a
write, and those where `page_insert()` dropped `PTE_D`.

Operators whose comment says *faulty variant* are not part of any specification: they are
plausible mistakes in the definition that follows them, used to show that a property
notices them.

## 3. Runs

| run | instance | what it shows |
|---|---|---|
| `MCMlfq` | 3 processes, 3 queues, base slice 1 | the queues are consistent (`QueuesConsistent`) and implement `SchedSpec`; whoever is in the first queue runs, and whoever is in the second runs even if all others poll a lock (`QueuesServed`) |
| `MCKernelMutex` | 4 processes, which outside the lock may compute, yield or poll for ever | exclusion; implements `FifoLock`; the lock starves nobody unless the scheduler starves its owner (`NoStarvation`) |
| `MCUserSem` | 3 processes, timeouts 1 and 2, 2 posts, value 1 | tokens are conserved; sleepers are queued, the queue is the callers, nobody waits for a token that is there (`WaitQueueExact`); no link, timer or queue outlives its call; a timed wait ends |
| `MCSleep` | 3 processes, sleeps of 1, 2, 3 ticks | the timer list implements `Alarms`; a sleep has its exact length and the assertion of `run_timer_list` holds (`SleepsExactly`); `OnRunQueue` with timers that fire before `schedule()` |
| `MCEvent` | 3 processes, 2 values, timeout 1 | sender and receiver agree; no sender is missed and no timed call sleeps without a running timer (`NothingMissed`); senders in a box wait for its living owner |
| `MCMbox` | 3 processes, 1 box, 3 messages, sizes and slots 1 and 2, timeout 1 | no sender waits in front of a free slot and no receiver beside a message without a wakeup under way; a message has one owner and none leaks; a box is not freed or reused while somebody is in it |
| `MCProcLife` | initproc and 3 processes or threads | no zombie is missed by a waiter, every parent can reap, `do_exit` ends the whole group, the scheduler's contract is kept |
| `MCPaging` | 2 address spaces, a private and a shared page, 2 frames, 2 swap entries | counts are exact and nothing leaks (`CountsExact`), the swap cache is consistent, written pages are private, waiters are served, no write is lost but where `page_insert()` drops `PTE_D` |
| `MCSpaces`, areas | two spaces with 3 pages, where memory runs out in a fork only, at any area; one with 4 pages and stacks; one with 4 pages and 2 shared memories; a tree from 2 areas on | list, tree, cache, page table and shared memory's counts agree (`AreasConsistent`); `find_vma`, `get_unmapped_area`, `user_mem_check` give the exact answer for every argument, empty ranges and those that reach out of user space included (`LookupsExact`); munmap, mmap, brk and fork change the pages they are about and no others (`CallsExact`) |
| `MCSpaces`, resources | a limit of 3 processes (4 with a fork admitted too late), 2 address spaces, 2 lists, 1 semaphore | `SharersCounted`: counts are the numbers of users through every failure, and nothing is used after it is freed |
| `MCStructures` | see below | eight properties of seven parts, one part per behaviour |
| `UpAssert` (violation) | as `MCUserSem`, 2 processes | the assertion of `__up` fails, see section 6 |
| `LostWrite` (violation) | 2 address spaces, 1 private page | a write is lost, see section 6 |

`MCSpaces` and `MCStructures` run parts that share no state in one run: the variable `part` chooses one
initially and the others stand still. The instances of `MCStructures`:

| part | instance | properties |
|---|---|---|
| pids | pids 1..6, a limit of 5 processes with idleproc, up to 6 without it | `PidsUnique`; every scan of `get_pid` ends (`ScanEnds`) |
| red-black tree | 8 nodes, two with the same key, inserted and deleted in any order | `TreeExact`: balanced, ordered, walked completely both ways, searched correctly |
| buddy | zones of 7 and 3 pages, orders 0..2 | `FreeListsExact`: blocks are disjoint, complete, merged wherever they can be, counted |
| slab | 5 pages, a cache with slabs inside its pages and one with slabs in the first, 2 callers | `SlabsExact`: every slab on the right list, its free chain complete, no page lost |
| user heap | 6 units of each kind of memory, pages of 2 units, requests of 1 and 3 | `HeapExact`: one circle in order, disjoint and complete, merged, two calls of the kernel at most |
| pipe | two threads and another process, a ring of 2, 4 bytes | `PipeIsFifo` |
| philosophers | the 5 of the code, 2 rounds of its 4 | `PhilosophersDine`: no fork is shared, all of them finish |

Why these bounds are enough for the cases that matter. Three processes are a
waiter, an actor that wakes, posts, frees or kills, and a third that waits behind the
first or is running when it should not be; a queue with two waiters distinguishes
first-in-first-out from anything else, and four processes in `MCKernelMutex` give a
queue of three. Timeouts 1 and 2 (or 1, 2, 3) give waits that end at the same tick and at
different ones, in either order of their beginning. Three queues have a first, a middle
and a last one, and slices 1, 2, 4. `MAX_PID` 7 with up to 6 live processes (`MAX_PROCESS`
is 5: three of them pass its test together) makes the pids wrap and the table fill beyond its limit, so
that scans restart with no pid to spare. Three processes beside initproc are
a process, a thread of it and a child of either, or a parent, child and grandchild: the
smallest families in which children are inherited by a thread or by initproc, a thread
waits for the child of another, and a structure is freed and used again. One exit code is
enough in `MCProcLife`, whose properties do not speak of codes. The types of `ProcLife` are
left to the proof; the other type invariants are the first conjunct of a structural
invariant of their module (`QueuesConsistent`, `SleepsExactly`, `SendersWait`,
`NothingOutlivesTheCall`, `CountsExact`). `MaxPosts` bounds only the history
counter `posts`; `MAX_PROCESS` is the kernel's own limit, made small; `MaxBytes` bounds what is
written to a pipe, twice the ring; `MaxCount` bounds the count of a list of semaphores, which
exits never lower (section 6). No other counter needs a bound. In `MCPaging` two address spaces are a parent and its child, two frames are the
fewest with which a page can be copied, and two pages of each process compete for them, so that
every allocation may have to wait; two swap entries run out (a private page of each process
and the shared page want three), which makes `try_alloc_swap_entry()` take entries back from the
cache. `mem_map` and `ref` are bounded by the number of places that refer.
One box with three processes and at most two slots fills, empties, is closed under a sleeper and is
used again; sizes 1 and 2 make a message fit or not. Four pages hold an area with a hole and a
neighbour, five areas would only repeat it. Eight nodes reach every case of the repair after a
deletion on both sides; zones of 7 and 3 pages end with blocks whose buddy lies beyond the end or in
the other zone. A slab has two objects, so that it is empty, partial and full. `SYMMETRY` is used only in runs without liveness properties, and
in `MCStructures`, where it permutes the callers of `Slab` while the liveness properties are about
other parts, whose states no permutation touches.
`Scheduler` has no run of its own: its `SchedSpec` is a property of `ProcLife` and `Mlfq`, and its invariants are checked where timers may fire at any moment, in `MCSleep`.

Deadlock is checked in the runs that contain the kernel's scheduler: it always has idleproc and its
tick. It is not checked in `MCSpaces` (the kernel crashes where a null `shmem` is followed, and the
last process exits), nor in `MCStructures` (the philosophers quit; a pipe stops when
its users are killed), which contain no scheduler.

## 4. Fairness

* `KernelMutex`: the CPU executes, that is, a process inside `down()`, or in its critical
  section, goes on while it is current (`WF` of its next step). Those outside owe nothing: they may run,
  yield or poll for ever (`Outside`). Nothing is assumed of the order in which `schedule()` picks, and the
  feedback queues do not promise enough: an owner in the third queue or below may be starved by pollers
  (section 6). So what `NoStarvation` says is that the lock adds no starvation of its own: if each
  owner gets the CPU again and again until it is through (`OwnersRun`), each waiter becomes owner,
  whoever else asks for the lock meanwhile. Without `OwnersRun` the formula is false in
  this model. That critical sections end is assumed; they give the CPU away at most once here.
* `UserSem`: weak fairness of the timer interrupt alone. `Event` has no liveness property:
  that a timed send or receive ends follows from `NothingMissed` in the
  same way. `Mbox` has none either: a sender may wait for ever for a receiver.
* `Mlfq`: the timer interrupt, and that a process that is to be rescheduled gets to
  `schedule()`: no path of the kernel runs for ever without blocking or returning to
  `trap()`, whose end tests `need_resched`; `cpu_idle` does nothing else. There is one exception,
  `kswapd` when all memory and swap are used up (`kern/mm/swap.c:628` goes round without giving up the
  CPU): from then on nothing of `QueuesServed` holds of the kernel. The second part of
  `QueuesServed` assumes that from some time on nobody sleeps, wakes, forks or exits: what the
  processes still do is run, yield and poll.
* `Paging`, `Vma`, `Resources` and the other parts of `MCStructures` have safety properties only.
* `PidAlloc`: a scan, once begun, is executed (interrupts are off).
* `Philosophers`: as long as one of them can go on, one of them does (their sleeps end, and the
  scheduler is not stuck); no fairness between them is assumed, since their rounds are finite.

## 5. Proofs

* `SchedulerProofs!SchedulerCorrect`: a process is in the run queue exactly when it is
  runnable and not running, and has a `wait_state` exactly while it sleeps. The invariant is
  these two and the types; the interesting case is `wakeup_proc` of the running process.
* `SemaphoreProofs!LockCorrect`, `LockIsFifo`: the lock excludes, its token is conserved,
  no assertion fails, and every step is a step of `FifoLock` or leaves owner and queue
  alone. `MutualExclusion` is not inductive: the invariant `MutexInv` adds that "in the
  queue", "asleep" and "in down without the token" are the same (`WaitersSleep`), that a
  sleeper runs nowhere but on its way to `schedule()` (`SleepersDoNotRun`), and that
  a queue has an owner in front of it. The proof uses the scheduler's lemmas for
  `wakeup_proc` and `schedule`.
* `SemaphoreProofs!PostsAreConserved`, `NoWakeupIsLost`, `CallsLeaveNothing`: what is posted is
  granted or still there, a sleeper is in the queue and the queue holds only callers, nobody sleeps
  past a token, and no link, timer or queue outlives its call, for any initial value. The three invariants need each other
  (who is in the queue decides whether a post goes to it or to `value`) and `CurrentRuns`:
  whoever sleeps is on its way to `schedule()` or behind it, and only the running process is in
  front of it, so that a call starts outside the queue and without a timer. Timers, kills and
  `ipc_sem_free()` are wakeups of some processes (`WakesWaiters`) that leave the queue as it is.
* `EventProofs!EventsAreDelivered`, `NobodySleepsInVain`, `BoxesHoldTheirSenders`: both ends agree
  on a delivery, no receiver sleeps beside a sender, the box of a process holds only sends to
  it that are under way, once each, and is empty when it is gone, and no assertion fails. The invariant adds `PhasesMatch` (where
  a process is says what it sleeps for, whether it is dead, and whether it may have a timer) and
  `SendUnderWay`: between the wakeup of the receiver and the wait of the sender the receiver lives, is
  awake and has not got the event yet. Without it the value could go to the next user of the structure.
* `TimerProofs!TimersCountDown`: however timers are set, added, removed and ticked, the list of
  distances is the independent countdowns of `Alarms`, and `run_timer_list()` finds no expired head. The
  invariant `TimerInv` is the types, that no timer is linked twice and that the head has a tick to
  go. What the distances add up to is a recursive function (`TicksUpTo`), and the lemmas speak of
  the countdowns `due` with `due[list[i]] = due[list[i - 1]] + distance[list[i]]` (`CountedBy`),
  which determines them (`DueUnique`): it is enough to show that a new timer splits one
  distance (`InsertDue`), that a removed one adds two up (`DeleteDue`), and that a tick takes one
  from the head and unlinks the first ones of the list (`DueArePrefix`, `TickDue`).
* `TimerProofs!SleepsAreExact`, `SleepersCountDown`: the same of `do_sleep()` with its interrupted
  sleeps. The invariant `SleepInv` adds who runs: a running process that is asleep is between
  `Block` and `schedule()`, so that whoever removes its timer is awake. Ticks wake
  whoever has one left and nobody else (`ExpiredAreDue`).
* `TimerProofs!MeetingsAreNotMissed`, `MessagesAreHeldOnce`, `BoxesOutliveTheirCallers`: message boxes
  lose no wakeup and no message, and none is used again under its callers, for any number of
  processes, boxes, pages, messages and timers. The properties are not inductive and need each other: `MboxInv` adds
  that who is in a queue has called for this queue and has not been woken yet (`QueuesOK`), so that
  the head of the queue is somebody else than those who are already on their way; that the message, the
  timer and the flags of a process belong to the phase of its call, and that between the head of a loop
  and the next `schedule()` its box is open and the process runs (`CallOK`); and that a
  box whose last caller leaves is empty (`UsesOK`). Most steps touch one box and one process
  (`BoxStep`) or no box at all (`SideStep`): the other calls and boxes stay (`CallStays`, `BoxStays`). The
  heart is `HandOver`: whoever puts or takes a message, or leaves one that does not fit, changes `slots` by at
  most one, may itself have been one of the woken, and wakes the first of the queue, so that the
  counts still agree (`CountChange`). Callers that give up leave through `LeaveKeeps`. `mbox_cleanup()` takes boxes off the free list one by
  one, an induction on how many are left (`UnlinkAllFacts`). The timers keep `TimerInv` (`TimersMove`).
* `StructuresProofs!QueuesStayConsistent`, `MlfqImplementsScheduler`: whoever is runnable and not running is
  in one queue, once, the one its `rq` says, with a slice that fits it; and the feedback queues
  refine `Scheduler`, on which all other modules are built. Each action of `Mlfq` is mapped to the
  action of `Scheduler` whose run queue is the union of the queues. The slices of the queues are
  `BaseSlice` shifted, with the shift as a recursive function; that it is a positive number is
  proved by an induction in the form of a set of numbers (`NatSetInduction`, `NatRecursion`).
* `StructuresProofs!PidsNeverShared`: pids are unique, for every `MAX_PID`; the invariant is
  `RangeIsFree`, what a scan has established so far and what the cache promises between
  scans.
* `StructuresProofs!PipesDeliver`: `PipeIsFifo` for a ring of any size and any number of users. The
  invariant `SpipeInv` adds what the lock is for: one user is inside, no more bytes are on
  their way than the ring has places, and a writer that is inside has found the pipe open. The arithmetic
  is in `PlacesDiffer`: numbers less than `SPIPE_BUFSIZE` apart differ modulo it. A user that
  is killed inside leaves the lock taken, which the invariant allows.
* `StructuresProofs!SharersAreCounted`: `SharersCounted` for any number of processes and
  structures. `ResourceInv` has a part for each kind of structure. `MmsCounted` is as in the property.
  `QueuesCounted` counts zombies too: they keep their list and its count until they are reaped, and
  the sum without them, as in the property, is not inductive. It says that a list
  that is being filled belongs to one fork and to nobody else, with the old list locked by this
  fork, so that the copy ends with what it began with. `SemsCounted` has whoever waits for a semaphore
  in a list with a valid entry of it, so that no last entry goes under a waiter. `HasByPlace` says
  what a process and its child have at each step of fork and exec, the failing ones included. Per
  kind there are lemmas for the ways it may change (`MmPut`, `MmGet`, `MmHandedOn`, `QueueNew`,
  `QueueFilled`, `QueueUndone`, `SemsLess`, ...), and each action of the code combines one of each.
* `ProcLifeProofs`, on the invariant `LifeInv`: the scheduler's invariant, the running
  process is where its state allows (`CurrentRuns`), only the running process is in the
  middle of `__do_exit()` (`DeadAreDone`), the rings partition the processes and the dead
  are alone in theirs (`GroupsPartition`), and `LivingParents`. It is inductive as a whole:
  the heir of a dying thread lives because whoever shares a ring is not dead, and that
  is why its children find a living parent. From it follow `ParentsCanReap` and, since
  whoever is woken sleeps in `do_wait()`, `LifeUsesScheduler`.
  `NobodyMissesAZombie` adds `WaitInv`: what a sleeper would find is only the process that
  is about to notify (`NoneMissed`), and initproc, the heir of last resort,
  waits for everybody and for nobody in particular (`InitWaitsForAll`). The case
  that matters is the end of `__do_exit()`: a waiter that could find the zombie, or one
  handed on by it, is in the parent's group or is the heir.
  `GroupExitIsComplete` adds `DoomInv`: groups are doomed as a whole, and each member is
  marked, exiting, or was created by the marked thread whose trap is ending.
* `PagingProofs`: `CountsAreExact`, `CacheIsConsistent`, `WritablePagesArePrivate`, `WaitersAreServed`,
  `OnlyPageInsertForgets`, for any number of address spaces, pages, frames and entries. `Books` says
  what a memory satisfies also in the middle of a function of `pmm.c` or `swap.c`: the counts are
  exact but for one frame whose count `page_insert()` has already increased and for the frames that were
  allocated and are not mapped yet, the cache and its lists agree, and a write the disk does not have
  is recorded, but for given entries. `Private` is copy on write. There is a lemma per function that it keeps
  the two (`RemoveSafe`, `InsertSafe`, `ReplaceSafe`, `LeaveSafe`, `ReadSafe`, `JoinSafe`, ...); that
  `unmap_range()` does, in any order of the pages, is an induction on how many are left (`UnmapSafe`). The
  inductive invariant `IInv` adds what the sleeps between these functions rely on: who waits in
  `swap_in_page()` for a private page has a frame that nobody else has, and its entry is still in
  the page table (`NewPages`, `Faults`); the child that a fork fills belongs to
  that fork alone, and an address space that does not exist has only what a fork has copied
  (`Forks`, `Copies`); and what `page_launder()` has yet to look at is inactive, whatever leaves the
  cache meanwhile (`Daemon`). Each action has a lemma (`ResolveKeeps`, `CopyPageKeeps`,
  `LaunderKeeps`, ...) that composes those of the functions it calls. `None` had to be assumed
  different from the address spaces, which `fork[s].to` counts on.
* `ListsProofs`: what the list operations do to the set of linked elements and that they keep
  it free of duplicates.

Assumed: the named `ASSUME`s of the modules only. idleproc is not one of the user processes, a user
semaphore starts at an integer, `MAX_PID > MAX_PROCESS` as the `static_assert` of `get_pid` has it and
`MAX_PID > 2 * (MAX_PROCESS - 2)`, which `MAX_PID = 2 * MAX_PROCESS` gives (only `ScanEnds` needs it), there are
finitely many processes, and in `Resources` enough structures for all that the limit admits, timeouts are positive, the value
that stands for "no event" or "no timer" is none, a timer
that is not armed has no number of ticks (`Off`), there is at least one run queue and a
positive base slice, the ring has at least one byte, NULL is no process and no structure, there are
finitely many address spaces and pages, and frames, swap entries and the empty entry are different things;
each box is in one page of `mbox_map`, once, there is a page and each has a box, and a box has slots
(`ipc_mbox_init()` refuses 0).

Model-checked only: `Philosophers`, whose invariants have no proof; `RbTree`, `UserHeap`, `Slab` and `Buddy`
(recursive operators, which the prover does not take; `Vma` extends `RbTree`); and all liveness, that is
`QueuesServed` and the leads-to properties of section 3, since the prover has no rule for fairness
that could be used here.

## 6. Where code and text disagree

* **`UpAssert`.** `__up` asserts `wait->proc->wait_state == wait_state` (`kern/sync/sem.c:70`).
  A waiter of a user semaphore that timed out or was killed is runnable, with
  `wait_state` 0, but stays in the wait queue until it runs. A post in between panics
  the kernel. For kernel semaphores the assertion holds (`NoPanic`): nothing but `up` wakes
  their waiters.
* **`LostWrite`.** A copy-on-write fault on a page that nobody else maps any more calls
  `page_insert()` with the page that is mapped already, and that stores the entry anew without
  `PTE_D` (`kern/mm/pmm.c:447`; `page_remove_pte()` would have carried the bit over). For a page
  that came from swap, was written, and survived a fork, `PTE_D` was the only record of the
  write. If kswapd gets the CPU before the access is repeated, `page_launder()` frees the page
  without writing it. `kern/mm/memlayout.h:143` and the test at `kern/mm/swap.c:824` expect the
  written content. `OnlyForgottenIsLost` shows that this is the only way to lose a write.
Others that the models contain, or that showed while modelling, without a run of their own:

* A thread may become its own child: the heir of a thread's children may be one of them
  (`kern/process/proc.c:566-578`). Its `wait()` then finds a child, itself, and sleeps for ever
  instead of failing as `user/exit.c:25` expects. `LivingParents` holds all the same: when that
  thread exits, its heirs take it over with the rest.
* `do_pgfault()` calls `swap_duplicate(*ptep)` for a shared page in swap, where `*ptep` is 0 and
  `*sh_ptep` is meant (`kern/mm/vmm.c:710`): `swap_offset()` panics (`kern/mm/swap.h:25`).
* `mm_unmap()` of the middle of a shared area makes a `vma_struct` with `VM_SHARE` whose `shmem`
  stays NULL (`kern/mm/vmm.c:348`); its end, or the next fork, follows it
  (`Vma!vma_crashed`).
* The lists of semaphores are never freed at exit: `put_sem_queue()` is called when a fork fails
  and by `do_execve()` (`kern/process/proc.c:515` and `803`), nowhere else, though the comment above `do_wait()` (`kern/process/proc.c:832-835`) has the parent free all
  resources. `Resources` keeps the count as the code does. The comment in `kern/sync/sem.h` that
  promises to undo operations at a crash describes nothing in the code.
* `do_fork()` tests `nr_process` before allocations that may sleep (`kern/process/proc.c:467`),
  so that each of the `MAX_PROCESS - 2` processes beside idleproc may pass it when one place is left.
  `get_pid()` asserts `MAX_PID > MAX_PROCESS`, which is not enough for its scan to end: `ScanEnds` is violated with
  `MAX_PROCESS` 5 and `MAX_PID` 6. That `MAX_PID` is twice `MAX_PROCESS` (`kern/process/proc.h:40`) saves it.
* `do_brk()` computes `oldbrk` before it takes `mm_lock` (`kern/process/proc.c:957`): two threads
  may both extend from the same break (`Vma!BrkGrow` takes any old break for that reason).
* The loop of `lock()` (`kern/sync/sync.h:43-47`, whose comment is "deadlock") can starve an
  owner in the third queue or below: a poller never uses up its slice, goes back to the
  first queue and so alternates between the first two. `QueuesServed` is violated if it
  is stated for the third queue.
* `kswapd_main()` asserts that `proc_mm_list` is not empty (`kern/mm/swap.c:617`), while the only
  user process may be in `do_execve()`, between its old address space and its new one.
* Message boxes: a re-armed timer may have no ticks left, which fails the assertion of
  `add_timer()`; a message whose copy failed is put back without looking at `max_slots`, and into
  whatever box has the id by then (`kern/sync/mbox.c:450`); a killed process may go back to sleep.
* `malloc_locked()` keeps its loop variable over `morecore` (`user/libs/malloc.c:114`): it may ask
  the kernel twice, and may return NULL although the first request was granted. Blocks of
  `shmem_malloc()` are in the free lists of both processes after a fork.
* `spipe()` cannot see that `sem_init()` failed, since `sem_t` is unsigned
  (`user/libs/spipe.c:20`); and after a failure of `shmem()` alone it does return it. The positions
  are 32 bits wide and signed: after 2 GB a reader of a closed pipe takes it for empty
  (line 120), and at 4 GB the index jumps, since the size of the ring is no power of two. A process
  killed with the lock held leaves it taken (`Spipe!SpipeKilled`).
  `user/spipetest.c` writes "A" and expects "Q".
* `do_exit()` gives all threads its exit code and marks them, and the comment of `may_killed`
  (`kern/process/proc.c:452`) counts on that ("already set exit_code"), but the end of `trap()`
  calls `do_exit(-E_KILLED)` for a marked thread, which overwrites the code
  (`ProcLife!TrapEnd`).
* `do_wait(0)` goes round the threads of the group, but its inner loop starts from `current->cptr`
  each time (`kern/process/proc.c:867`), so it does not see the children of other threads that
  `do_wait(pid)` would accept (`ProcLife!Candidates`).
* `trap()` tests `PF_EXITING` before it calls `schedule()` (`kern/trap/trap.c:232-233`): a process
  killed while it waits for the CPU there returns to user mode and may block again, where the
  comment of `may_killed` (`kern/process/proc.c:449`) wants the test made "before go back to
  user space" (`UserSem!Return`).

## 7. Abstractions

`UserSem` has one semaphore and finds it by `valid`; the lists it is found in are in
`Resources`. The return values that only tell a timeout from an interruption are left
out. `KernelMutex` reduces a critical section to "may give the CPU away, once", and what is outside to
calls of `schedule()`. `Mlfq` takes the
total of ticks modulo `TICK_NUM` as nondeterministic. `Event` leaves out the tests for
`idleproc`, `initproc` and `kswapd` (they are never targets) and the copy of the result
to user memory. `ProcLife` leaves out the memory and semaphores of fork and exec (with the
allocations that may sleep or fail), which are in `Resources`, the event box of the dead, the numbers of pids, the order
of the lists of children and threads, and `kswapd` but for being a child of initproc.
`nr_process` is the number of live structures. `Paging` has one process in each address space, so nobody
polls for its `mm_lock`, and one shared memory object, mapped by all; page tables are not
counted among the frames (a wait for one is possible wherever `get_pte` may create it); all
areas are writable; the order of the lists of pages and of the scans of kswapd, and where a scan stops,
are left open. When the last process exits another starts with empty memory.
Interrupts other than the timer change no state modelled here.

`Mbox` leaves out the contents of messages and `ipc_mbox_info`, which reads only. `Vma` does not
repeat what `Paging` models: `pte` is only where entries may be; `mm_lock` makes its
calls steps. `RbTree` leaves out the allocation of the two sentinels. `Slab` takes the sizes of
caches as constants, numbers slabs in the order of use and leaves out `check_slab`. `Resources`
has one user thread per process structure and leaves out what is in `ProcLife`
(parents, groups, kills). `Spipe` takes the user semaphore as a lock, which `MCUserSem` shows it
to be, and shared memory as memory. `Philosophers` takes the part between `down(&mutex)` and
`up(&mutex)` as one step: kernel threads are not preempted and nothing in it sleeps.

### Not modelled

* The second copy of the repository in `src/sub/jokeros`, half of all lines. A definition stands for
  one place in the code, so nothing maps to the copy, and the mapped share of all
  lines cannot come near one half whatever is modelled.
* FCFS scheduling and the first-fit allocator: compiled, never installed. (The allocator follows a
  NULL pointer when no block fits, so it could not be.)
* File system, monitors: stubs in this commit. Console, keyboard, disk, interrupt controller,
  boot code, debugger, formatted output: port I/O, text, or code that runs once before
  there is a second process. Self-tests (`check_*`), half of `swap.c` and a quarter of `slab.c` and
  `vmm.c`, state expectations; the properties here are stronger forms of them.
* `user/libs/lock.h` and `thread.c`: an atomic instruction with `yield()`, and `clone()` with
  `mmap()`, whose kernel side is modelled. User programs.

## 8. Plan

What is left, in this order:

1. Proofs: `Slab` and `Buddy`, once their recursion is written as functions.
2. Composition: `Paging` on `Vma` (areas that change between two faults), and `lock_mm()` as the
   polling lock of `Mlfq` in `Paging`.
3. `mbox.c` with several boxes and pages of them in one run.

------------------------------- MODULE Paging -------------------------------
(***************************************************************************)
(* Page faults, fork, unmapping and the page daemon kswapd on the state of *)
(* module Memory: do_pgfault of vmm.c, copy_range and unmap_range of pmm.c,*)
(* alloc_pages with try_free_pages, kswapd_main with swap_out_vma,         *)
(* page_launder and refill_inactive_scan of swap.c.                        *)
(*                                                                         *)
(* One process runs in each address space, so nobody else asks for its     *)
(* mm_lock.  The kernel is not preemptible: code runs to the next call of  *)
(* schedule(), in alloc_pages() without a free frame, in lock_shmem(), in  *)
(* do_sleep() of kswapd.  All private pages are writable; the order of     *)
(* lists and scans is left open.                                           *)
(*                                                                         *)
(* pc: "user"; "fault" in do_pgfault(), "in" waiting in swap_in_page(), "fork" in  *)
(* copy_range(); "none" for an address space that does not exist.          *)
(***************************************************************************)
EXTENDS Memory, Integers, FiniteSetsExt

VARIABLES mem,        \* see Memory
          pc,
          fault,      \* the place and kind of the fault being handled
          newpage,    \* newpage in do_pgfault()
          fork,       \* the address space being copied to, and the pages left
          shm_lock,   \* shmem->shmem_lock: who holds it
          waiting,    \* kswapd_done: who waits for frames in try_free_pages()
          pressure,
          kswapd,     \* what kswapd is doing
          scan,       \* the inactive frames page_launder() has yet to look at
          panic,
          undirtied   \* history: the entries whose cached page lost PTE_D in
                      \* page_insert()

proc_vars == <<pc, fault, newpage, fork, shm_lock>>
swap_vars == <<waiting, pressure, kswapd, scan>>
vars == <<mem, proc_vars, swap_vars, panic, undirtied>>

NoFault == [page |-> None, write |-> FALSE]
NoFork == [to |-> None, left |-> {}]

TypeOK ==
    /\ mem \in MemoryType
    /\ pc \in [Spaces -> {"user", "fault", "in", "fork", "none"}]
    /\ fault \in [Spaces -> [page : Pages, write : BOOLEAN] \cup {NoFault}]
    /\ newpage \in [Spaces -> Frames \cup {None}]
    /\ fork \in [Spaces -> [to : Spaces \cup {None}, left : SUBSET Pages]]
    /\ shm_lock \in Spaces \cup {None}
    /\ waiting \subseteq Spaces
    /\ pressure \in Int
    /\ kswapd \in {"asleep", "woken", "out", "launder", "refill"}
    /\ scan \subseteq Frames
    /\ panic \in {"none", "invalid swap_entry_t"}
    /\ undirtied \subseteq Entries

Init ==
    /\ mem = EmptyMemory
    /\ \E first \in Spaces : pc = [s \in Spaces |-> IF s = first THEN "user" ELSE "none"]
    /\ fault = [s \in Spaces |-> NoFault]
    /\ newpage = [s \in Spaces |-> None]
    /\ fork = [s \in Spaces |-> NoFork]
    /\ shm_lock = None
    /\ waiting = {}
    /\ pressure = 0
    /\ kswapd = "asleep"
    /\ scan = {}
    /\ panic = "none"
    /\ undirtied = {}

Alive == {s \in Spaces : pc[s] # "none"}

\* kswapd gives the CPU away in do_sleep() only.
Runs(s) == s \notin waiting /\ kswapd \in {"asleep", "woken"}

Goto(s, label) == pc' = [pc EXCEPT ![s] = label]

\* Entries that are not in use again have no history.
Update(m) ==
    /\ mem' = [m EXCEPT !.stale = @ \cap m.used]
    /\ undirtied' = undirtied \cap m.used

-----------------------------------------------------------------------------
(* Memory accesses and page faults *)

Place(s) == <<s, fault[s].page>>

\* What the processor does: set PTE_A, and PTE_D for a write.
Access(s, v, write) ==
    LET pl == <<s, v>> f == mem.at[pl] IN
    /\ pc[s] = "user" /\ f \in Frames
    /\ write => pl \in mem.writable
    /\ mem' = [mem EXCEPT !.accessed = @ \cup {pl},
                          !.dirty = IF write THEN @ \cup {pl} ELSE @,
                          !.stale = IF write THEN @ \cup ({mem.index[f]} \ {None}) ELSE @]
    /\ UNCHANGED <<proc_vars, swap_vars, panic, undirtied>>

\* The access is not possible: do_pgfault(), which may wait for a frame for the
\* page table first.
Fault(s, v, write) ==
    /\ pc[s] = "user"
    /\ mem.at[<<s, v>>] \notin Frames \/ (write /\ <<s, v>> \notin mem.writable)
    /\ fault' = [fault EXCEPT ![s] = [page |-> v, write |-> write]]
    /\ Goto(s, "fault")
    /\ UNCHANGED <<mem, newpage, fork, shm_lock, swap_vars, panic, undirtied>>

EndFault(s) ==
    /\ Goto(s, "user")
    /\ fault' = [fault EXCEPT ![s] = NoFault]
    /\ newpage' = [newpage EXCEPT ![s] = None]
    /\ UNCHANGED <<fork, swap_vars>>

\* pgdir_alloc_page(): the first access to a private page.
ZeroFill(s, f) ==
    /\ pc[s] = "fault" /\ fault[s].page \notin Shared /\ mem.at[Place(s)] = None
    /\ f \in mem.free
    /\ Update(page_insert([mem EXCEPT !.free = @ \ {f}], Place(s), f, TRUE))
    /\ EndFault(s)
    /\ UNCHANGED <<shm_lock, panic>>

\* The first access to a shared page: shmem_get_entry() makes the page if nobody
\* has, and it is mapped.
SharedFaultNeeds(s) == /\ pc[s] = "fault" /\ fault[s].page \in Shared
                       /\ mem.at[Place(s)] = None /\ shm_lock \in {None, s}
ShareFault(s, f) ==
    LET shared == <<Shm, fault[s].page>>
        made == IF mem.at[shared] # None THEN mem
                ELSE [mem EXCEPT !.free = @ \ {f}, !.at[shared] = f, !.ref[f] = @ + 1]
    IN
    /\ SharedFaultNeeds(s)
    /\ IF mem.at[shared] = None THEN f \in mem.free ELSE f = mem.at[shared]
    /\ f \in Frames
    /\ Update(page_insert(made, Place(s), f, TRUE))
    /\ shm_lock' = None
    /\ EndFault(s)
    /\ UNCHANGED panic

\* If the shared page is in swap, swap_duplicate() is called with the content
\* of the page table entry, 0, and not with the swap entry: swap_offset() panics.
ShareFaultSwapped(s) ==
    /\ SharedFaultNeeds(s) /\ mem.at[<<Shm, fault[s].page>>] \in Entries
    /\ panic' = "invalid swap_entry_t"
    /\ UNCHANGED <<mem, proc_vars, swap_vars, undirtied>>

\* The end of do_pgfault() once the page is in memory: copy it to newpage if
\* somebody else has it, then map it.  After a read it is mapped for reading only.
Resolve(s, m, page, newp) ==
    LET pl == Place(s)
        cow == fault[s].page \notin Shared
        may_copy == m.at[pl] \in Frames \/ fault[s].write
        copy == cow /\ may_copy /\ m.ref[page] + swap_page_count(m, page) > 1
        spare == newp # None /\ ~copy
        done == page_insert(m, pl, IF copy THEN newp ELSE page, ~cow \/ may_copy)
        end == IF spare THEN free_page(done, newp) ELSE done
        forgets == /\ m.at[pl] = page /\ ~copy /\ pl \in m.dirty
                   /\ m.index[page] # None /\ page \notin m.pg_dirty
    IN
    /\ mem' = [end EXCEPT !.stale = @ \cap end.used]
    /\ undirtied' = end.used \cap
                    (IF forgets THEN undirtied \cup {m.index[page]} ELSE undirtied)
    /\ EndFault(s)
    /\ UNCHANGED <<shm_lock, panic>>

\* unmap_range()
Unmap(m, places) == FoldSet(LAMBDA pl, acc : page_remove_pte(acc, pl), m, places)

\* exit_mmap() at exit; with the last mapping shmem_destroy() goes through the
\* shared memory object, too, and the model starts again with one process.
Others(s) == Alive \ {s}
Leave(s, m) ==
    /\ Update(Unmap(m, {s} \X Pages \cup (IF Others(s) = {} THEN {Shm} \X Pages ELSE {})))
    /\ Goto(s, IF Others(s) = {} THEN "user" ELSE "none")
    /\ fault' = [fault EXCEPT ![s] = NoFault]
    /\ newpage' = [newpage EXCEPT ![s] = None]
    /\ UNCHANGED <<fork, shm_lock, swap_vars, panic>>

\* Faulty variant of try_free_pages: kswapd is not woken.
TryFreeOnlyWaits(s) ==
    /\ waiting' = waiting \cup {s}
    /\ pressure' = pressure + 1
    /\ UNCHANGED <<kswapd, scan>>

\* No frame is free: wake kswapd and wait.  alloc_pages() then tries again.
try_free_pages(s) ==
    /\ waiting' = waiting \cup {s}
    /\ pressure' = pressure + 1
    /\ kswapd' = "woken"
    /\ UNCHANGED scan

\* swap_in_page() reads the page into a free frame; if swapfs_read() fails, the
\* new frames are freed and the fault ends the process.
Read(s, m, newp) ==
    LET e == m.at[Place(s)] IN
    \/ \E f \in m.free :
          Resolve(s, swap_page_add([m EXCEPT !.free = @ \ {f}], f, e), f, newp)
    \/ m.free # {} /\ Leave(s, IF newp = None THEN m ELSE free_page(m, newp))

\* A fault on an entry that is not empty, after the allocation of newpage if the
\* page may be copied: the page is present, or swap_in_page() finds it in the
\* cache, or reads it, or has to wait for a frame.
Handle(s, m, newp) ==
    LET at == m.at[Place(s)] IN
    \/ at \in Frames /\ Resolve(s, m, at, newp)
    \/ \E f \in Cached(m, at) : at \in Entries /\ Resolve(s, m, f, newp)
    \/ at \in Entries /\ Cached(m, at) = {} /\ Read(s, m, newp)
    \/ /\ at \in Entries /\ Cached(m, at) = {} /\ m.free = {}
       /\ mem' = m
       /\ newpage' = [newpage EXCEPT ![s] = newp]
       /\ Goto(s, "in")
       /\ try_free_pages(s)
       /\ UNCHANGED <<fault, fork, shm_lock, panic, undirtied>>

PrivateFault(s, f) ==
    /\ pc[s] = "fault" /\ fault[s].page \notin Shared /\ mem.at[Place(s)] # None
    /\ f \in mem.free
    /\ Handle(s, [mem EXCEPT !.free = @ \ {f}], f)

SwappedShareFault(s) ==
    /\ pc[s] = "fault" /\ fault[s].page \in Shared /\ mem.at[Place(s)] # None
    /\ Handle(s, mem, None)

\* After the wait, swap_in_page() looks again before it reads the page.
SwapIn(s) ==
    LET e == mem.at[Place(s)] IN
    /\ pc[s] = "in" /\ mem.free # {}
    /\ IF Cached(mem, e) = {} THEN Read(s, mem, newpage[s])
       ELSE \E page \in Cached(mem, e) : Resolve(s, mem, page, newpage[s])

\* alloc_pages() finds no free frame.
NeedsFrame(s) ==
    \/ pc[s] = "in"
    \/ pc[s] = "fault" /\ fault[s].page \notin Shared
    \/ SharedFaultNeeds(s) /\ mem.at[<<Shm, fault[s].page>>] = None

NoFrame(s) ==
    /\ NeedsFrame(s) /\ mem.free = {}
    /\ try_free_pages(s)
    /\ shm_lock' = IF SharedFaultNeeds(s) THEN s ELSE shm_lock
    /\ UNCHANGED <<mem, pc, fault, newpage, fork, panic, undirtied>>

-----------------------------------------------------------------------------
(* Fork, exit, unmapping *)

ForkBegin(s, to) ==
    /\ pc[s] = "user" /\ to \notin Alive /\ \A r \in Spaces : fork[r].to # to
    /\ fork' = [fork EXCEPT ![s] = [to |-> to, left |-> Pages]]
    /\ Goto(s, "fork")
    /\ UNCHANGED <<mem, fault, newpage, shm_lock, swap_vars, panic, undirtied>>

\* One page of copy_range(); before it, get_pte() may have waited for a frame
\* for a page table.  A private page loses PTE_W on both sides; PTE_A and PTE_D
\* stay with the parent.
CopyPage(s, v) ==
    LET from == <<s, v>> to == <<fork[s].to, v>> f == mem.at[from] IN
    /\ pc[s] = "fork" /\ v \in fork[s].left
    /\ fork' = [fork EXCEPT ![s].left = @ \ {v}]
    /\ mem' = IF f \in Frames
              THEN page_insert([mem EXCEPT !.writable = IF v \in Shared THEN @ ELSE @ \ {from}],
                               to, f, v \in Shared /\ from \in mem.writable)
              ELSE IF f \in Entries THEN [swap_duplicate(mem, f) EXCEPT !.at[to] = f]
              ELSE mem
    /\ UNCHANGED <<pc, fault, newpage, shm_lock, swap_vars, panic, undirtied>>

ForkEnd(s) ==
    /\ pc[s] = "fork" /\ fork[s].left = {}
    /\ pc' = [pc EXCEPT ![s] = "user", ![fork[s].to] = "user"]
    /\ fork' = [fork EXCEPT ![s] = NoFork]
    /\ UNCHANGED <<mem, fault, newpage, shm_lock, swap_vars, panic, undirtied>>

\* mm_brk() of a private page: it is unmapped and its area mapped again.
Brk(s, v) ==
    /\ pc[s] = "user" /\ v \notin Shared
    /\ Update(page_remove_pte(mem, <<s, v>>))
    /\ UNCHANGED <<proc_vars, swap_vars, panic>>

Exit(s) == pc[s] = "user" /\ Leave(s, mem)

-----------------------------------------------------------------------------
(* kswapd *)

\* The timer of do_sleep(1000).
KswapdTimer ==
    /\ kswapd = "asleep"
    /\ kswapd' = "woken"
    /\ UNCHANGED <<mem, proc_vars, waiting, pressure, scan, panic, undirtied>>

StartRound(next) ==
    /\ kswapd' = next
    /\ scan' = IF next = "launder" THEN mem.inactive ELSE {}
    /\ UNCHANGED <<mem, proc_vars, panic, undirtied>>

\* kswapd_main() takes pages away only under pressure.
KswapdRuns ==
    /\ kswapd = "woken"
    /\ StartRound(IF pressure > 0 THEN "out" ELSE "launder")
    /\ UNCHANGED <<waiting, pressure>>

\* swap_out_vma() finds a page that was accessed.
ClearAccessed(pl) ==
    /\ kswapd = "out" /\ pl[1] \in Alive
    /\ mem.at[pl] \in Frames /\ pl \in mem.accessed
    /\ mem' = [mem EXCEPT !.accessed = @ \ {pl}]
    /\ UNCHANGED <<proc_vars, swap_vars, panic, undirtied>>

\* The page becomes a page of the swap cache, if there is an entry for it.
\* It has never been written to disk.
WithEntry(f) ==
    IF mem.index[f] # None THEN {mem}
    ELSE {[swap_page_add(a.mem, f, a.entry) EXCEPT !.pg_dirty = @ \cup {f},
                                                   !.stale = @ \cup {a.entry}]
             : a \in AllocEntry(mem)}

\* The mapping is replaced by the entry; if the frame of a shared page is then
\* mapped by the shared memory object only, its mapping is replaced as well.
Replace(m, pl, f, e) ==
    [Clear(swap_duplicate(m, e), pl) EXCEPT !.at[pl] = e, !.ref[f] = @ - 1]

\* swap_out_vma() takes a page away that was not accessed.
SwapOut(pl) ==
    LET f == mem.at[pl] shared == <<Shm, pl[2]>> IN
    /\ kswapd = "out" /\ pl[1] \in Alive /\ f \in Frames /\ pl \notin mem.accessed
    /\ \E m \in WithEntry(f) :
        LET marked == [m EXCEPT !.pg_dirty = IF pl \in m.dirty THEN @ \cup {f} ELSE @]
            out == Replace(marked, pl, f, m.index[f])
        IN  Update(IF pl[2] \in Shared /\ out.ref[f] = 1 /\ out.at[shared] = f
                   THEN Replace(out, shared, f, m.index[f]) ELSE out)
    /\ UNCHANGED <<proc_vars, swap_vars, panic>>

\* swap_out_mm() stops after the number of pages needed, or the rounds end.
OutEnds ==
    /\ kswapd = "out"
    /\ StartRound("launder")
    /\ UNCHANGED <<waiting, pressure>>

\* page_launder() on one frame: a page in use goes back to the active list, one
\* that is not dirty any more, or that nobody wants, is freed; swapfs_write()
\* may fail.
Launder(f, written) ==
    LET e == mem.index[f]
        wanted == mem.mem_map[e] # 0
        clean == [mem EXCEPT !.pg_dirty = @ \ {f}, !.stale = @ \ {e}]
        away(m) == LeaveCache([m EXCEPT !.used = IF wanted THEN @ ELSE @ \ {e}], f)
    IN
    /\ kswapd = "launder" /\ f \in scan
    /\ scan' = scan \ {f}
    /\ \/ /\ mem.ref[f] # 0
          /\ mem' = [mem EXCEPT !.inactive = @ \ {f}, !.active = @ \cup {f}]
          /\ UNCHANGED <<pressure, undirtied>>
       \/ /\ mem.ref[f] = 0 /\ ~(wanted /\ f \in mem.pg_dirty /\ ~written)
          /\ Update(away(IF wanted /\ f \in mem.pg_dirty THEN clean ELSE mem))
          /\ pressure' = pressure - 1
       \/ /\ mem.ref[f] = 0 /\ wanted /\ f \in mem.pg_dirty /\ ~written
          /\ UNCHANGED <<mem, pressure, undirtied>>
    /\ UNCHANGED <<proc_vars, waiting, kswapd, panic>>

\* The rest of the loop body: refill_inactive_scan(), then another round while
\* there is pressure, else wake everybody and sleep.
Refill ==
    LET idle == {f \in mem.active : mem.ref[f] = 0} IN
    /\ kswapd = "launder" /\ scan = {}
    /\ mem' = [mem EXCEPT !.active = @ \ idle, !.inactive = @ \cup idle]
    /\ IF pressure > 0
       THEN kswapd' = "out" /\ UNCHANGED <<pressure, waiting>>
       ELSE kswapd' = "asleep" /\ pressure' = 0 /\ waiting' = {}
    /\ UNCHANGED <<proc_vars, scan, panic, undirtied>>

-----------------------------------------------------------------------------

Running(s) ==
    \/ \E v \in Pages, write \in BOOLEAN : Access(s, v, write) \/ Fault(s, v, write)
    \/ \E f \in Frames : ZeroFill(s, f) \/ ShareFault(s, f) \/ PrivateFault(s, f)
    \/ SwappedShareFault(s) \/ ShareFaultSwapped(s) \/ SwapIn(s) \/ NoFrame(s)
    \/ \E to \in Spaces : ForkBegin(s, to)
    \/ \E v \in Pages : CopyPage(s, v) \/ Brk(s, v)
    \/ ForkEnd(s) \/ Exit(s)

Kswapd ==
    \/ KswapdTimer \/ KswapdRuns \/ OutEnds \/ Refill
    \/ \E pl \in Spaces \X Pages : ClearAccessed(pl) \/ SwapOut(pl)
    \/ \E f \in Frames, written \in BOOLEAN : Launder(f, written)

Next ==
    \/ panic = "none" /\ \E s \in Spaces : Runs(s) /\ Running(s)
    \/ panic = "none" /\ Kswapd
    \/ panic # "none" /\ UNCHANGED vars

Spec == Init /\ [][Next]_vars

-----------------------------------------------------------------------------
(* Properties *)

Mappings(x) == {pl \in Places : mem.at[pl] = x}
Cache == {f \in Frames : mem.index[f] # None}

\* The counts are exact: page->ref and mem_map say how many page table entries
\* refer to a frame and to a swap entry, over faults, copies, forks, exits and
\* swapping that sleep in between.  So nothing leaks and nothing is used after it
\* was freed: a frame is free, on its way to be mapped, or in use, and a swap
\* entry is in use exactly while somebody refers to it or the cache has its page.
\* The state is well typed.
CountsExact ==
    /\ TypeOK
    /\ \A f \in Frames :
          LET taken == {s \in Spaces : newpage[s] = f}
              used == Mappings(f) # {} \/ f \in Cache
          IN  /\ mem.ref[f] = Cardinality(Mappings(f))
              /\ Cardinality(taken) <= 1
              /\ f \in mem.free <=> ~used /\ taken = {}
              /\ used => taken = {}
    /\ \A e \in mem.used :
          /\ mem.mem_map[e] = Cardinality(Mappings(e))
          /\ Mappings(e) # {} \/ Cached(mem, e) # {}
    /\ \A e \in Entries \ mem.used : Mappings(e) = {}

\* The swap cache has one page for an entry and the two lists have its pages.
CacheConsistent ==
    /\ \A f \in Cache : mem.index[f] \in mem.used /\ Cached(mem, mem.index[f]) = {f}
    /\ mem.active \cup mem.inactive = Cache /\ mem.active \cap mem.inactive = {}
    /\ scan \subseteq mem.inactive

\* Copy on write: a private page that a process may write is seen by nobody
\* else, neither through the frame nor through its swap entry.
WritableIsPrivate ==
    \A pl \in mem.writable : pl[2] \notin Shared =>
        Mappings(mem.at[pl]) = {pl} /\
        (mem.index[mem.at[pl]] # None => Mappings(mem.index[mem.at[pl]]) = {})

\* No wakeup is lost between the processes that wait for frames and kswapd.
WaitersServed ==
    waiting # {} => kswapd # "asleep" /\ (kswapd = "woken" => pressure > 0)

\* A write that the disk misses is known: the page is in memory, and marked by
\* PG_dirty or by PTE_D of somebody who maps it.
StaleIsDirty(e) ==
    \E f \in Cached(mem, e) :
        f \in mem.pg_dirty \/ Mappings(f) \cap mem.dirty # {}

\* Nothing is lost but what page_insert() forgets.
OnlyForgottenIsLost == \A e \in mem.stale \ undirtied : StaleIsDirty(e)

\* swap.c describes the bit as "1 :This page has been modified (set by CPU's
\* MMU hardware)": what was written is never taken for what is on the disk.
WritesAreKept ==
    \A e \in mem.stale : Mappings(e) # {} => Cached(mem, e) # {}
=============================================================================

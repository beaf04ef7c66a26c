------------------------------- MODULE Memory -------------------------------
(***************************************************************************)
(* Page frames, page table entries and swap entries: what page_insert and  *)
(* page_remove_pte of pmm.c, shmem.c and the functions of swap.c do to the *)
(* counts that tie them together.                                          *)
(*                                                                         *)
(* A place <<h, v>> is the entry of page v in the page table of the address*)
(* space h, or in the shared memory object Shm.  The functions below map a *)
(* record of this state to the next one, so that an action can call several*)
(* of them.  Page tables themselves are not counted as frames.             *)
(***************************************************************************)
EXTENDS Naturals, FiniteSets

CONSTANTS Spaces,    \* the address spaces (mm_struct)
          Shm,       \* the shared memory object (shmem_struct)
          Pages,     \* the user pages of each address space
          Shared,    \* those in a vma with VM_SHARE, mapped from Shm
          Frames,    \* struct Page
          Entries,   \* swap entries
          None       \* an empty page table entry, no swap entry

ASSUME MemoryAssumption == /\ Shm \notin Spaces /\ Shared \subseteq Pages
                           /\ Frames \cap Entries = {}
                           /\ None \notin Frames \cup Entries \cup Spaces
                           /\ IsFiniteSet(Spaces) /\ IsFiniteSet(Pages)

Places == (Spaces \cup {Shm}) \X Pages

\* at: what a page table entry holds, a frame (PTE_P), a swap entry or None;
\* writable, accessed, dirty: the places with PTE_W, PTE_A, PTE_D;
\* ref: page->ref; index: page->index of a frame with PG_swap (the swap cache);
\* pg_dirty: the frames with PG_dirty; active, inactive: the two swap lists;
\* free: the frames of the page allocator; used, mem_map: the swap entries that
\* are not SWAP_UNUSED and their counts; stale (history): the entries whose
\* copy on the disk misses a write.
MemoryType ==
    [at       : [Places -> Frames \cup Entries \cup {None}],
     writable : SUBSET Places, accessed : SUBSET Places, dirty : SUBSET Places,
     ref      : [Frames -> Nat],
     index    : [Frames -> Entries \cup {None}],
     pg_dirty : SUBSET Frames,
     active   : SUBSET Frames, inactive : SUBSET Frames, free : SUBSET Frames,
     used     : SUBSET Entries,
     mem_map  : [Entries -> Nat],
     stale    : SUBSET Entries]

EmptyMemory ==
    [at |-> [pl \in Places |-> None],
     writable |-> {}, accessed |-> {}, dirty |-> {},
     ref |-> [f \in Frames |-> 0], index |-> [f \in Frames |-> None],
     pg_dirty |-> {}, active |-> {}, inactive |-> {}, free |-> Frames,
     used |-> {}, mem_map |-> [e \in Entries |-> 0], stale |-> {}]

-----------------------------------------------------------------------------
(* Frames and the swap cache *)

free_page(m, f) == [m EXCEPT !.free = @ \cup {f}, !.pg_dirty = @ \ {f}]

\* swap_hash_find(): the frames (at most one) that cache an entry.
Cached(m, e) == {f \in Frames : m.index[f] = e}

\* swap_page_add() with an entry, and swap_active_list_add().
swap_page_add(m, f, e) ==
    [m EXCEPT !.index[f] = e, !.active = @ \cup {f}]

\* swap_list_del() and swap_page_del(), and free_page() of a frame without use.
LeaveCache(m, f) ==
    LET out == [m EXCEPT !.index[f] = None, !.active = @ \ {f}, !.inactive = @ \ {f}] IN
    IF m.ref[f] = 0 THEN free_page(out, f) ELSE out

\* Faulty variant of swap_page_count: it is the count of the mappings in memory.
SwapCountOfFrame(m, f) == IF m.index[f] = None THEN 0 ELSE m.ref[f]

\* The references to the swap entry of a cached page.
swap_page_count(m, f) == IF m.index[f] = None THEN 0 ELSE m.mem_map[m.index[f]]

swap_duplicate(m, e) == [m EXCEPT !.mem_map[e] = @ + 1]

\* Faulty variant of swap_remove_entry: a cached page in use is not looked for.
SwapRemoveAlways(m, e) ==
    LET less == [m EXCEPT !.mem_map[e] = @ - 1] IN
    IF less.mem_map[e] > 0 THEN less ELSE [less EXCEPT !.used = @ \ {e}]

\* swap_remove_entry(): the last reference frees the entry and its cached
\* page, unless that page is in use.
swap_remove_entry(m, e) ==
    LET less == [m EXCEPT !.mem_map[e] = @ - 1] IN
    IF less.mem_map[e] > 0 \/ \E f \in Cached(m, e) : m.ref[f] # 0 THEN less
    ELSE LET gone == [less EXCEPT !.used = @ \ {e}] IN
         IF Cached(m, e) = {} THEN gone
         ELSE LeaveCache(gone, CHOOSE f \in Cached(m, e) : TRUE)

\* try_alloc_swap_entry(): an unused entry (from a position that goes round),
\* else one that only the cache holds.  The set of possible outcomes, with the
\* entry set to 0 references as swap_page_add() does.
AllocEntry(m) ==
    LET zero == {e \in m.used : m.mem_map[e] = 0} IN
    IF m.used # Entries
    THEN {[entry |-> e, mem |-> [m EXCEPT !.used = @ \cup {e}, !.mem_map[e] = 0]]
             : e \in Entries \ m.used}
    ELSE {[entry |-> e, mem |-> LeaveCache(m, CHOOSE f \in Cached(m, e) : TRUE)]
             : e \in zero}

-----------------------------------------------------------------------------
(* Page table entries *)

\* page_ref_dec() of a frame that loses a mapping: free_page() unless the swap
\* cache still has it.
page_ref_dec(m, f) ==
    LET less == [m EXCEPT !.ref[f] = @ - 1] IN
    IF less.ref[f] = 0 /\ m.index[f] = None THEN free_page(less, f) ELSE less

Clear(m, pl) == [m EXCEPT !.at[pl] = None, !.writable = @ \ {pl},
                          !.accessed = @ \ {pl}, !.dirty = @ \ {pl}]

\* Faulty variant of page_remove_pte: PTE_D is not carried over.
RemovePteForgets(m, pl) ==
    IF m.at[pl] \in Frames THEN page_ref_dec(Clear(m, pl), m.at[pl])
    ELSE IF m.at[pl] \in Entries THEN swap_remove_entry(Clear(m, pl), m.at[pl])
    ELSE m

\* page_remove_pte(), shmem_remove_entry_pte()
page_remove_pte(m, pl) ==
    LET f == m.at[pl] IN
    IF f \in Frames
    THEN page_ref_dec([Clear(m, pl) EXCEPT !.pg_dirty =
             IF pl \in m.dirty /\ m.index[f] # None THEN @ \cup {f} ELSE @], f)
    ELSE IF m.at[pl] \in Entries THEN swap_remove_entry(Clear(m, pl), m.at[pl])
    ELSE m

\* Faulty variant of page_insert: a frame mapped again is counted again.
PageInsertCounts(m, pl, f, write) ==
    LET more == [m EXCEPT !.ref[f] = @ + 1]
        held == IF m.at[pl] = f THEN more ELSE page_remove_pte(more, pl)
    IN  [Clear(held, pl) EXCEPT !.at[pl] = f,
                                !.writable = IF write THEN @ \cup {pl} ELSE @]

\* page_insert(), with PTE_W or without; the entry is new, so PTE_A and PTE_D
\* are clear, also if it maps the same frame as before.
page_insert(m, pl, f, write) ==
    LET held == IF m.at[pl] = f THEN m
                ELSE page_remove_pte([m EXCEPT !.ref[f] = @ + 1], pl)
    IN  [Clear(held, pl) EXCEPT !.at[pl] = f,
                                !.writable = IF write THEN @ \cup {pl} ELSE @]
=============================================================================

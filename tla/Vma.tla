--------------------------------- MODULE Vma ---------------------------------
(***************************************************************************)
(* The areas of an address space: kern/mm/vmm.c with the system calls on   *)
(* them (brk, mmap, munmap, shmem of kern/process/proc.c).  An address is  *)
(* a page.  The calls hold mm_lock, so that each is a step; but do_brk()   *)
(* reads mm->brk before it takes the lock, and other threads of the space  *)
(* may have moved it: the old end of the heap may be any.  An allocation   *)
(* may fail at every kmalloc().  VM_SHARE without a shmem is a null        *)
(* pointer: the call that follows it crashes the kernel.                   *)
(***************************************************************************)
EXTENDS RbTree, SequencesExt

CONSTANTS Base,         \* USERBASE, as a page
          BrkStart,     \* where load_icode() lets the heap begin
          Sizes,        \* the bounds of a behaviour, see size
          RB_MIN_MAP_COUNT,
          None          \* NULL

ASSUME VmaAssumption ==
    /\ Base \in Nat \ {0} /\ BrkStart \in Nat /\ Base <= BrkStart
    /\ \A z \in Sizes : z.top \in Nat /\ BrkStart <= z.top /\ "share" \notin UNION z.flags
    /\ \A z \in Sizes : z.shmems \subseteq Nat /\ z.memory \subseteq BOOLEAN
    /\ RB_MIN_MAP_COUNT \in Nat \ {0}

VARIABLES mm,           \* space |-> mm_struct, None when there is none
          shmem_ref,    \* shmem |-> shmem_ref, 0 when not allocated
          pte,          \* space |-> the pages that may have a page table entry
          vma_crashed,  \* a null shmem was followed
          size          \* of the behaviour: its mm_structs (spaces), USERTOP (top),
                        \* the sets of flags the callers pass (flags), the
                        \* shmem_structs (shmems), numbers, and what a kmalloc()
                        \* of a call other than fork answers (memory)

vma_vars == <<mm, shmem_ref, pte, vma_crashed, size>>

Spaces == UNION {z.spaces : z \in Sizes}
Top == size.top
Shmems == size.shmems

PageRange(start, end) == start..(end - 1)
UserPages == PageRange(Base, Top)
Ids == 1..Top                           \* one area takes a page at least
Area(start, end, flags, shmem, off) ==
    [start |-> start, end |-> end, flags |-> flags, shmem |-> shmem, off |-> off]

USER_ACCESS(start, end) == Base <= start /\ start < end /\ end <= Top

\* mm_create(): no area, no tree; m.area holds the vma_structs in use.  m.failed:
\* a copy that do_fork() gave up, and that no process has.
NewMm == [list |-> <<>>, tree |-> None, cache |-> Nil, area |-> <<>>, failed |-> FALSE]

KeyOf(m) == [v \in DOMAIN m.area |-> m.area[v].start]
FreeId(m) == CHOOSE v \in Ids \ DOMAIN m.area : \A w \in Ids \ DOMAIN m.area : v <= w
PagesOf(m) == UNION {PageRange(m.area[v].start, m.area[v].end) : v \in DOMAIN m.area}
AreaAt(m, p) == CHOOSE v \in DOMAIN m.area : p \in PageRange(m.area[v].start, m.area[v].end)

VmaInit ==
    /\ mm = [s \in Spaces |-> None]
    /\ size \in Sizes
    /\ shmem_ref = [o \in Shmems |-> 0]
    /\ pte = [s \in Spaces |-> {}]
    /\ vma_crashed = FALSE

-----------------------------------------------------------------------------
(* Looking up *)

\* find_vma_rb(): the lowest area that ends after addr, by the tree.
RECURSIVE FindRb(_, _, _, _)
FindRb(m, addr, n, best) ==
    IF n = Nil THEN best
    ELSE IF m.area[n].end <= addr THEN FindRb(m, addr, m.tree[n].right, best)
    ELSE IF m.area[n].start <= addr THEN n
    ELSE FindRb(m, addr, m.tree[n].left, n)

\* find_vma(): by the cache, the tree or the list; Nil stands for NULL.
find_vma(m, addr) ==
    IF m.cache # Nil /\ m.area[m.cache].start <= addr /\ m.area[m.cache].end > addr
    THEN m.cache
    ELSE IF m.tree # None THEN FindRb(m, addr, m.tree[Root].left, Nil)
    ELSE LET i == SelectInSeq(m.list, LAMBDA v : addr < m.area[v].end)
         IN IF i = 0 THEN Nil ELSE m.list[i]

\* find_vma() remembers what it finds.
Remember(m, addr) ==
    LET v == find_vma(m, addr) IN IF v = Nil THEN m ELSE [m EXCEPT !.cache = v]

Intersects(m, start, end) ==
    LET v == find_vma(m, start) IN v # Nil /\ end > m.area[v].start

\* Faulty variant of get_unmapped_area: the area below is not looked at.
GetUnmappedBelowTop(m, len) ==
    LET top == IF m.list = <<>> THEN Top ELSE m.area[Last(m.list)].start
        start == IF m.list # <<>> /\ Top - len >= m.area[Last(m.list)].end THEN Top - len ELSE top - len
    IN IF start >= Base THEN start ELSE 0

\* get_unmapped_area(): down from the top, until the gap is large enough; 0
\* when there is none.
get_unmapped_area(m, len) ==
    LET Down[i \in 0..Len(m.list), start \in 0..Top] ==
            IF i = 0 THEN (IF start >= Base THEN start ELSE 0)
            ELSE LET v == m.area[m.list[i]] IN
                 IF start >= v.end THEN start
                 ELSE IF start + len <= v.start THEN Down[i - 1, start]
                 ELSE IF len >= v.start THEN 0
                 ELSE Down[i - 1, v.start - len]
    IN IF len = 0 \/ len > Top THEN 0 ELSE Down[Len(m.list), Top - len]

\* user_mem_check(): nothing is granted for no page at all, or when the end of the
\* range has wrapped; then area by area, the bottom page of a stack is not written.
RECURSIVE AreasAllow(_, _, _, _)
AreasAllow(m, start, end, write) ==
    LET v == find_vma(m, start)
        a == m.area[v]
    IN \/ start >= end
       \/ /\ v # Nil /\ start >= a.start
          /\ (IF write THEN "w" ELSE "r") \in a.flags
          /\ ~(write /\ "stack" \in a.flags /\ start = a.start)
          /\ AreasAllow(Remember(m, start), a.end, end, write)
user_mem_check(m, start, end, write) == USER_ACCESS(start, end) /\ AreasAllow(m, start, end, write)

-----------------------------------------------------------------------------
(* Changing the list, the tree and the cache *)

\* insert_vma_struct(): after its predecessor in the tree, or in the list; the
\* tree is built with the RB_MIN_MAP_COUNT-th area, if there is memory.
insert_vma_struct(m, v, a, memory) ==
    LET area == (v :> a) @@ m.area
        key == [w \in DOMAIN area |-> area[w].start]
        tree == IF m.tree = None THEN None ELSE rb_insert(m.tree, v, key)
        prev == IF tree # None THEN SelectInSeq(m.list, LAMBDA w : w = rb_node_prev(tree, v))
                ELSE LET next == SelectInSeq(m.list, LAMBDA w : area[w].start > a.start)
                     IN IF next = 0 THEN Len(m.list) ELSE next - 1
        list == InsertAt(m.list, prev + 1, v)
        Grow(t, w) == rb_insert(t, w, key)
    IN [m EXCEPT !.area = area, !.list = list,
                 !.tree = IF tree = None /\ Len(list) >= RB_MIN_MAP_COUNT /\ memory
                          THEN FoldLeft(Grow, EmptyTree, list) ELSE tree]

\* Faulty variant of remove_vma_struct: mmap_cache is kept.
RemoveKeepsCache(m, v) ==
    [m EXCEPT !.tree = IF @ = None THEN None ELSE rb_delete(@, v),
              !.list = Remove(@, v),
              !.area = [w \in DOMAIN @ \ {v} |-> @[w]]]

remove_vma_struct(m, v) ==
    [m EXCEPT !.tree = IF @ = None THEN None ELSE rb_delete(@, v),
              !.list = Remove(@, v),
              !.area = [w \in DOMAIN @ \ {v} |-> @[w]],
              !.cache = IF @ = v THEN Nil ELSE @]

\* Faulty variant of vma_resize: the offset in the shared memory is kept.
ResizeKeepsOff(a, start, end) == [a EXCEPT !.start = start, !.end = end]

vma_resize(a, start, end) ==
    [a EXCEPT !.start = start, !.end = end,
              !.off = IF "share" \in a.flags THEN @ + (start - a.start) ELSE @]

\* What mm_unmap() leaves of an area, and whether it had to destroy it.
Trimmed(a, start, end) ==
    IF a.start < start THEN vma_resize(a, a.start, start)
    ELSE IF end < a.end THEN vma_resize(a, end, a.end) ELSE None

\* [un_start, un_end): what it takes from an area.
Cut(a, start, end) ==
    IF a.start < start THEN PageRange(start, a.end)
    ELSE PageRange(a.start, IF end < a.end THEN end ELSE a.end)

\* mm_unmap() with v, which find_vma() gave: the areas in the range leave; the
\* parts that reach out of it come back.  A hole inside one area splits it: the
\* lower part gets a new vma_struct, whose shmem stays NULL.  What unmap_range()
\* gets is `gone'.
Unmapped(m, v, start, end, memory) ==
    LET a == m.area[v]
        hit == SelectSeq(m.list, LAMBDA w : m.area[w].end > start /\ m.area[w].start < end)
        Out(n, w) == remove_vma_struct(n, w)
        Back(n, w) == IF Trimmed(m.area[w], start, end) = None THEN n
                      ELSE insert_vma_struct(n, w, Trimmed(m.area[w], start, end), memory)
        dead == {w \in ToSet(hit) : Trimmed(m.area[w], start, end) = None}
    IN IF v = Nil \/ end <= a.start
       THEN [mm |-> m, freed |-> <<>>, gone |-> {}, ok |-> TRUE]
       ELSE IF a.start < start /\ end < a.end
       THEN IF ~memory THEN [mm |-> m, freed |-> <<>>, gone |-> {}, ok |-> FALSE]
            ELSE [mm |-> insert_vma_struct([m EXCEPT !.area[v] = vma_resize(a, end, a.end)], FreeId(m),
                                           Area(a.start, start, a.flags, None, 0), memory),
                  freed |-> <<>>, gone |-> PageRange(start, end), ok |-> TRUE]
       ELSE [mm |-> FoldLeft(Back, FoldLeft(Out, m, hit), Reverse(hit)),
             freed |-> [w \in dead |-> m.area[w]],
             gone |-> UNION {Cut(m.area[w], start, end) : w \in ToSet(hit)}, ok |-> TRUE]
mm_unmap(m, start, end, memory) ==
    Unmapped(Remember(m, start), find_vma(m, start), start, end, memory)

-----------------------------------------------------------------------------
(* Calls.  Every call that fails leaves its mark on the cache. *)

Exists(s) == mm[s] # None
InUse(s) == Exists(s) /\ ~mm[s].failed
Mappings(areas, o) == Cardinality({v \in DOMAIN areas : areas[v].shmem = o})
NullIn(areas) == \E v \in DOMAIN areas : "share" \in areas[v].flags /\ areas[v].shmem = None

\* vma_destroy() of these areas: shmem_ref_dec(), and shmem_destroy() at 0.
PutShmems(refs, areas) == [o \in Shmems |-> refs[o] - Mappings(areas, o)]

\* shmem_ref_inc() for the areas of a copy.
GetShmems(refs, areas) == [o \in Shmems |-> refs[o] + Mappings(areas, o)]

\* The vma_structs of m renumbered in the order of their addresses: which
\* block kmalloc() gave is not told apart, but a pointer to one that was freed is.
Named(m) ==
    LET place == [v \in ToSet(m.list) |-> CHOOSE i \in DOMAIN m.list : m.list[i] = v]
        To(v) == IF v \in {Nil, Root} THEN v ELSE IF v \in DOMAIN place THEN place[v] ELSE Top + 1
        From(i) == IF i \in {Nil, Root} THEN i ELSE m.list[i]
        Link(n) == [left |-> To(n.left), right |-> To(n.right), parent |-> To(n.parent), red |-> n.red]
    IN [list |-> [i \in DOMAIN m.list |-> i], cache |-> To(m.cache),
        area |-> [i \in DOMAIN m.list |-> m.area[m.list[i]]],
        failed |-> m.failed,
        tree |-> IF m.tree = None THEN None
                 ELSE [n \in {Nil, Root} \cup DOMAIN m.list |-> Link(m.tree[From(n)])]]

\* Write m back to space s.
Store(s, m, pages) ==
    /\ mm' = [mm EXCEPT ![s] = IF m = None THEN None ELSE Named(m)]
    /\ pte' = [pte EXCEPT ![s] = pages]

\* Nothing but a find_vma().
Touch(s, addr) == mm' = [mm EXCEPT ![s] = Remember(@, addr)] /\ UNCHANGED pte

Create(s) ==
    /\ ~Exists(s) /\ Store(s, NewMm, {})
    /\ UNCHANGED <<shmem_ref, vma_crashed>>

\* find_vma() by a page fault or user_mem_check().
Lookup(s, addr) ==
    /\ InUse(s) /\ Touch(s, addr)
    /\ UNCHANGED <<shmem_ref, vma_crashed>>

\* mm_map(): a new area where there was none.
Mapped(m, start, end, flags, shmem, memory) ==
    insert_vma_struct(Remember(m, start), FreeId(m), Area(start, end, flags, shmem, 0), memory)
mm_map(s, start, end, flags, shmem, memory) ==
    IF memory /\ ~Intersects(mm[s], start, end)
    THEN /\ Store(s, Mapped(mm[s], start, end, flags, shmem, memory), pte[s] \cup PageRange(start, end))
         /\ shmem_ref' = [o \in Shmems |-> IF o = shmem THEN 1 ELSE shmem_ref[o]]
    ELSE Touch(s, start) /\ UNCHANGED shmem_ref

\* do_mmap() and do_shmem() with an address, or with 0 (get_unmapped_area).
\* A shmem that cannot be mapped is destroyed again.
do_mmap(s, start, len, flags, memory) ==
    LET at == IF start = 0 THEN get_unmapped_area(mm[s], len) ELSE start IN
    /\ InUse(s) /\ at # 0 /\ at + len <= Top
    /\ \/ mm_map(s, at, at + len, flags, None, memory)
       \/ \E o \in Shmems :
             /\ shmem_ref[o] = 0 /\ \A q \in Shmems : shmem_ref[q] = 0 => o <= q
             /\ mm_map(s, at, at + len, flags \cup {"share"}, o, memory)
    /\ UNCHANGED vma_crashed

\* The end of mm_unmap(): the areas it destroyed put their shmem.
Released(s, done) ==
    /\ IF NullIn(done.freed) THEN UNCHANGED shmem_ref ELSE shmem_ref' = PutShmems(shmem_ref, done.freed)
    /\ vma_crashed' = NullIn(done.freed)
    /\ Store(s, done.mm, pte[s] \ done.gone)

do_munmap(s, start, end, memory) ==
    /\ InUse(s) /\ USER_ACCESS(start, end)
    /\ \E done \in {mm_unmap(mm[s], start, end, memory)} : Released(s, done)

\* do_brk() from lock_mm() on, downwards.
BrkShrink(s, new, old, memory) ==
    InUse(s) /\ new < old /\ \E done \in {mm_unmap(mm[s], new, old, memory)} : Released(s, done)

\* mm_brk() after its mm_unmap(): the area below is extended when it has the
\* flags of a heap.
Extended(m, old, new, memory) ==
    LET below == find_vma(m, old - 1)
        c == Remember(m, old - 1)
    IN IF below # Nil /\ c.area[below].end = old /\ c.area[below].flags = {"r", "w"}
       THEN [c EXCEPT !.area[below].end = new]
       ELSE IF memory THEN insert_vma_struct(c, FreeId(c), Area(old, new, {"r", "w"}, None, 0), memory)
       ELSE c
StoreGrown(s, m, pages) == Store(s, m, pte[s] \cup (pages \cap PagesOf(m)))

Grown(m, old, new, memory) ==
    Extended(mm_unmap(Remember(m, old), old, new, memory).mm, old, new, memory)

\* do_brk() with the lock, upwards.
BrkGrow(s, new, old, memory) ==
    /\ InUse(s) /\ new > old
    /\ IF Intersects(mm[s], old, new + 1) \/ new > Top
       THEN Touch(s, old)
       ELSE StoreGrown(s, Grown(mm[s], old, new, memory), PageRange(old, new))
    /\ UNCHANGED <<shmem_ref, vma_crashed>>

\* dup_mmap(): these areas, from the last to the first.
Copied(m, areas, memory) ==
    LET Dup(n, v) == insert_vma_struct(n, FreeId(n), m.area[v], memory)
    IN FoldLeft(Dup, NewMm, Reverse(areas))

\* copy_mm() in do_fork().  It fails when vma_create() does, before an area, or
\* copy_range(), in the midst of one: the areas so far stay for exit_mmap() and
\* mm_destroy(), which need not be the next step, as mm_lock is free again.
Fork(s, t) ==
    /\ InUse(s) /\ ~Exists(t)
    /\ \E i \in 1..(Len(mm[s].list) + 1), failed, memory \in BOOLEAN :
          LET areas == SubSeq(mm[s].list, i, Len(mm[s].list))
              refs == Restrict(mm[s].area, ToSet(areas))
              to == [Copied(mm[s], areas, memory) EXCEPT !.failed = failed]
          IN /\ IF failed THEN mm[s].list # <<>> ELSE i = 1
             /\ vma_crashed' = NullIn(refs)
             /\ shmem_ref' = IF NullIn(refs) THEN shmem_ref ELSE GetShmems(shmem_ref, refs)
             /\ IF NullIn(refs) THEN UNCHANGED <<mm, pte>> ELSE Store(t, to, PagesOf(to))

\* exit_mmap() and mm_destroy(), by the last user or for a failed copy.
Exit(s) ==
    /\ Exists(s)
    /\ Released(s, [mm |-> None, freed |-> mm[s].area, gone |-> PagesOf(mm[s])])

VmaCalls(s) ==
    \/ Create(s) \/ Exit(s) \/ \E t \in size.spaces : Fork(s, t)
    \/ \E addr \in UserPages : Lookup(s, addr)
    \/ \E memory \in size.memory :
          \/ \E start \in {0} \cup UserPages, len \in 1..(Top - Base), f \in size.flags :
                do_mmap(s, start, len, f, memory)
          \/ \E start, end \in Base..Top : do_munmap(s, start, end, memory)
          \/ \E new \in BrkStart..(Top + 1), old \in BrkStart..Top :
                BrkShrink(s, new, old, memory) \/ BrkGrow(s, new, old, memory)

VmaNext == ~vma_crashed /\ UNCHANGED size /\ \E s \in size.spaces : VmaCalls(s)

VmaSpec == VmaInit /\ [][VmaNext]_vma_vars

-----------------------------------------------------------------------------
(* Properties *)

\* A shared memory is kept exactly as long as areas refer to it.
SharedCounted ==
    ~vma_crashed =>
       \A o \in Shmems :
          shmem_ref[o] = Cardinality({<<s, v>> \in Spaces \X Ids :
                                        Exists(s) /\ v \in DOMAIN mm[s].area /\ mm[s].area[v].shmem = o})

\* The list, the tree and the cache of a space describe the same disjoint areas,
\* in the order of their addresses, whatever holes are cut, and no page table
\* entry is left outside them (unmap_range() gets exactly what disappears); a
\* shared memory lives as long as areas refer to it.
AreasConsistent ==
  /\ SharedCounted
  /\ \A s \in Spaces :
       LET m == mm[s] IN
       IF m = None THEN pte[s] = {}
       ELSE /\ ToSet(m.list) = DOMAIN m.area /\ Len(m.list) = Cardinality(DOMAIN m.area)
            /\ \A v \in DOMAIN m.area : m.area[v].start < m.area[v].end
            /\ \A i \in 1..(Len(m.list) - 1) : m.area[m.list[i]].end <= m.area[m.list[i + 1]].start
            /\ m.tree # None => IsTreeOf(m.tree, DOMAIN m.area, KeyOf(m))
            /\ m.cache \in DOMAIN m.area \cup {Nil}
            /\ pte[s] = PagesOf(m) /\ PagesOf(m) \subseteq UserPages

\* find_vma() returns the lowest area that ends after the address, from the
\* cache, the tree or the list alike; get_unmapped_area() the highest gap that
\* is large enough, if there is one; user_mem_check() grants a range exactly
\* when it has a page and every page of it may be accessed.
LookupsExact ==
    \A s \in {t \in size.spaces : Exists(t)} :
       LET m == mm[s]
           Free(start, len) == PageRange(start, start + len) \cap PagesOf(m) = {}
           Gaps(len) == {a \in UserPages : a + len <= Top /\ Free(a, len)}
           Allowed(p, write) ==
               /\ p \in PagesOf(m)
               /\ LET a == m.area[AreaAt(m, p)] IN
                  IF write THEN "w" \in a.flags /\ ("stack" \in a.flags => p # a.start)
                  ELSE "r" \in a.flags
       IN /\ \A p \in UserPages :
                LET v == find_vma(m, p) IN
                IF v = Nil THEN \A w \in DOMAIN m.area : m.area[w].end <= p
                ELSE m.area[v].end > p /\ \A w \in DOMAIN m.area : m.area[w].end > p => m.area[w].end >= m.area[v].end
          /\ \A len \in 1..(Top - Base) :
                LET at == get_unmapped_area(m, len) IN
                IF Gaps(len) = {} THEN at = 0 ELSE at \in Gaps(len) /\ \A a \in Gaps(len) : a <= at
          /\ \A start, end \in (Base - 1)..(Top + 1), write \in BOOLEAN :
                user_mem_check(m, start, end, write) <=>
                   start < end /\ \A p \in PageRange(start, end) : Allowed(p, write)

\* What a user sees of m: at every mapped page the flags, and the page of a
\* shared memory.
View(m) ==
    [p \in PagesOf(m) |->
        LET a == m.area[AreaAt(m, p)]
        IN <<a.flags, a.shmem, IF "share" \in a.flags THEN a.off + p - a.start ELSE 0>>]

\* munmap() takes exactly the pages of its range away, and every other page
\* keeps its flags and its page of the shared memory, however its area is
\* trimmed (vma_resize); only the part of an area below a hole in it loses the
\* shared memory.  mmap() and brk() add the pages of their range and change no
\* other, whichever area they join; brk() does so from any old end of the heap.
\* A fork sees what its parent sees.
CallsExact ==
    \A s \in {t \in size.spaces : Exists(t)} : \A seen \in {View(mm[s])} :
       /\ \A start, end \in Base..Top :
             start < end =>
                /\ \A done \in {mm_unmap(mm[s], start, end, TRUE)} : \A left \in {View(done.mm)} :
                      /\ DOMAIN left = DOMAIN seen \ PageRange(start, end)
                      /\ done.gone = DOMAIN seen \cap PageRange(start, end)
                      /\ \A p \in DOMAIN left :
                            \/ left[p] = seen[p]
                            \/ /\ left[p][1] = seen[p][1] /\ left[p][2] = None
                               /\ p < start /\ AreaAt(mm[s], p) = AreaAt(mm[s], end)
                /\ ~Intersects(mm[s], start, end) =>
                      LET new == [p \in PageRange(start, end) |-> <<{"r", "w"}, None, 0>>] IN
                      /\ View(Mapped(mm[s], start, end, {"r", "w"}, None, TRUE)) = new @@ seen
                      /\ View(Grown(mm[s], start, end, TRUE)) = new @@ seen
       /\ View(Copied(mm[s], mm[s].list, TRUE)) = seen
=============================================================================

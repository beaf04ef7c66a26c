-------------------------------- MODULE Buddy --------------------------------
(***************************************************************************)
(* The buddy allocator of kern/mm/buddy_pmm.c: zones of any length, free   *)
(* blocks of 2^order pages on a list per order (newest first), and page    *)
(* flags that mark the head of a free block.  Interrupts are off during a  *)
(* call (local_intr_save in pmm.c), so that a call is one step.            *)
(***************************************************************************)
EXTENDS Integers, FiniteSets, SequencesExt

CONSTANTS Zones,        \* the zones: sequences of [base, n]; page numbers
          MAX_ORDER

ASSUME BuddyAssumption ==
    /\ MAX_ORDER \in Nat
    /\ \A z \in DOMAIN Zones : Zones[z].base \in Nat /\ Zones[z].n \in Nat \ {0}

VARIABLES buddy,        \* free: order |-> free_list; nr: order |-> nr_free;
                        \* property: head of a free block |-> its order
          in_use        \* the runs [base, n] that the callers hold

buddy_vars == <<buddy, in_use>>

Orders == 0..MAX_ORDER
Block(p, order) == p..(p + 2^order - 1)
ZonePages(z) == Zones[z].base..(Zones[z].base + Zones[z].n - 1)
zone_num(p) == CHOOSE z \in DOMAIN Zones : p \in ZonePages(z)
page2idx(p) == p - Zones[zone_num(p)].base

\* One block more or less on the list of its order.
Push(b, p, order) ==
    [free |-> [b.free EXCEPT ![order] = <<p>> \o @], nr |-> [b.nr EXCEPT ![order] = @ + 1],
     property |-> [q \in DOMAIN b.property \cup {p} |-> IF q = p THEN order ELSE b.property[q]]]
Pull(b, p, order) ==
    [free |-> [b.free EXCEPT ![order] = Remove(@, p)], nr |-> [b.nr EXCEPT ![order] = @ - 1],
     property |-> [q \in DOMAIN b.property \ {p} |-> b.property[q]]]

\* buddy_init() and buddy_init_memmap() zone by zone: the largest blocks first.
RECURSIVE InitMemmap(_, _, _, _)
InitMemmap(b, p, n, order) ==
    IF n = 0 THEN b
    ELSE IF n >= 2^order THEN InitMemmap(Push(b, p, order), p + 2^order, n - 2^order, order)
    ELSE InitMemmap(b, p, n, order - 1)

BuddyInit ==
    /\ buddy = LET AddZone(b, zone) == InitMemmap(b, zone.base, zone.n, MAX_ORDER)
               IN FoldLeft(AddZone, [free |-> [o \in Orders |-> <<>>], nr |-> [o \in Orders |-> 0],
                                     property |-> <<>>], Zones)
    /\ in_use = {}

-----------------------------------------------------------------------------

\* Faulty variant of page_is_buddy: the order of the block is not compared.
AnyFreeIsBuddy(b, p, order, z) == p \in ZonePages(z) /\ p \in DOMAIN b.property

\* page_is_buddy(): a free block of the same order in the same zone.
page_is_buddy(b, p, order, z) ==
    /\ p \in ZonePages(z)
    /\ p \in DOMAIN b.property /\ b.property[p] = order

\* buddy_free_pages_sub(): join with the buddy as long as it is free.
RECURSIVE FreeSub(_, _, _)
FreeSub(b, p, order) ==
    LET idx == page2idx(p)
        lower == idx % 2^(order + 1) < 2^order
        other == IF lower THEN p + 2^order ELSE p - 2^order
    IN IF order < MAX_ORDER /\ page_is_buddy(b, other, order, zone_num(p))
       THEN FreeSub(Pull(b, other, order), IF lower THEN p ELSE other, order + 1)
       ELSE Push(b, p, order)

\* The first loop of buddy_free_pages(): blocks that grow with the alignment of p.
RECURSIVE FreeUp(_, _, _, _)
FreeUp(b, p, n, order) ==
    IF n < 2^order THEN [b |-> b, p |-> p, n |-> n, order |-> order]
    ELSE IF (page2idx(p) \div 2^order) % 2 = 1
    THEN FreeUp(FreeSub(b, p, order), p + 2^order, n - 2^order, order + 1)
    ELSE FreeUp(b, p, n, order + 1)

\* Its second loop: the rest in blocks that shrink.
RECURSIVE FreeDown(_, _, _, _)
FreeDown(b, p, n, order) ==
    IF n = 0 THEN b
    ELSE IF n < 2^order THEN FreeDown(b, p, n, order - 1)
    ELSE FreeDown(FreeSub(b, p, order), p + 2^order, n - 2^order, order)

buddy_free_pages(b, p, n) ==
    IF n = 1 THEN FreeSub(b, p, 0)
    ELSE LET up == FreeUp(b, p, n, 0) IN FreeDown(up.b, up.p, up.n, up.order)

getorder(n) == CHOOSE o \in Orders : n <= 2^o /\ \A l \in Orders : n <= 2^l => o <= l

\* The orders whose list can serve a block of this order.
Serving(b, order) == {o \in Orders : o >= order /\ b.free[o] # <<>>}

\* buddy_alloc_pages_sub(): the upper halves go to the lists below.
AllocSub(b, order) ==
    LET from == CHOOSE o \in Serving(b, order) : \A l \in Serving(b, order) : o <= l
        p == Head(b.free[from])
        Split(c, half) == Push(c, p + 2^half, half)
    IN [p |-> p, b |-> FoldLeft(Split, Pull(b, p, from), [i \in 1..(from - order) |-> from - i])]

\* The end of buddy_alloc_pages(): the pages after the n-th are freed at once.
Trim(b, p, n) ==
    IF n = 2^getorder(n) THEN b ELSE buddy_free_pages(b, p + n, 2^getorder(n) - n)

\* alloc_pages() where it succeeds, and free_pages().
AllocPages(n) ==
    /\ Serving(buddy, getorder(n)) # {}
    /\ LET got == AllocSub(buddy, getorder(n)) IN
       /\ buddy' = Trim(got.b, got.p, n)
       /\ in_use' = in_use \cup {[base |-> got.p, n |-> n]}
FreePages(run) ==
    /\ run \in in_use
    /\ buddy' = buddy_free_pages(buddy, run.base, run.n)
    /\ in_use' = in_use \ {run}

BuddyNext == (\E n \in 1..(2^MAX_ORDER) : AllocPages(n)) \/ (\E run \in in_use : FreePages(run))

-----------------------------------------------------------------------------
(* Properties *)

AllPages == UNION {ZonePages(z) : z \in DOMAIN Zones}
Runs == UNION {r.base..(r.base + r.n - 1) : r \in in_use}
FreeBlocks == {<<p, buddy.property[p]>> : p \in DOMAIN buddy.property}

\* The free blocks are aligned in their zone, disjoint, and together with the
\* pages in use they are all pages; the lists, the counts behind nr_free_pages()
\* and the page flags agree on them, after any order of allocations and frees.
\* They have been joined as far as they can: a request is served whenever some
\* aligned block of its order is free.
FreeListsExact ==
    /\ \A o \in Orders :
          /\ buddy.nr[o] = Len(buddy.free[o])
          /\ buddy.nr[o] = Cardinality({f \in FreeBlocks : f[2] = o})
          /\ \A i \in DOMAIN buddy.free[o] : <<buddy.free[o][i], o>> \in FreeBlocks
    /\ \A f \in FreeBlocks :
          /\ page2idx(f[1]) % 2^f[2] = 0
          /\ Block(f[1], f[2]) \subseteq ZonePages(zone_num(f[1])) \ Runs
    /\ UNION {Block(f[1], f[2]) : f \in FreeBlocks} \cup Runs = AllPages
    /\ FoldLeft(LAMBDA sum, i : sum + 2^(i - 1) * buddy.nr[i - 1], 0, [i \in 1..(MAX_ORDER + 1) |-> i])
          = Cardinality(AllPages \ Runs)
    /\ \A o \in Orders :
          Serving(buddy, o) # {} <=>
             \E p \in AllPages :
                /\ page2idx(p) % 2^o = 0
                /\ Block(p, o) \subseteq ZonePages(zone_num(p)) \ Runs
=============================================================================

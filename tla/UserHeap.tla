------------------------------- MODULE UserHeap -------------------------------
(***************************************************************************)
(* The allocator of the user programs, user/libs/malloc.c: first fit on a  *)
(* circular list in the order of the addresses, with blocks of two types,  *)
(* from sys_brk() (type 0) and from shared memory (type 1).  Addresses and *)
(* sizes count headers.  mem_lock makes every call one step.               *)
(***************************************************************************)
EXTENDS Integers, FiniteSets, Functions

CONSTANTS BrkBase, BrkTop,      \* the heap grows from BrkBase to BrkTop at most
          ShmBase, ShmTop,      \* shared memory is mapped downwards from ShmTop
          PageUnits,            \* headers in a page
          Requests              \* the nunits that are asked for

base == 0                       \* the static header, below every block

VARIABLES header,       \* free block |-> [ptr, size, type]
          freep,        \* where the next search starts
          blocks,       \* the blocks given out: [at, size, type]
          heap          \* brk, and the lowest mapped page of shared memory (shm)

heap_vars == <<header, freep, blocks, heap>>

\* The first malloc(): base is a block of size 0.
HeapInit ==
    /\ header = [a \in {base} |-> [ptr |-> base, size |-> 0, type |-> 0]]
    /\ freep = base /\ blocks = {}
    /\ heap = [brk |-> BrkBase, shm |-> ShmTop]

-----------------------------------------------------------------------------

\* The search of free_locked(): the free block before bp in the circle.
RECURSIVE Place(_, _, _)
Place(h, p, bp) ==
    LET next == h[p].ptr IN
    IF \/ bp > p /\ bp < next
       \/ p >= next /\ (bp > p \/ bp < next)
    THEN p ELSE Place(h, next, bp)

\* Faulty variant of Joins: blocks of both types are joined.
JoinsAnyType(lower, at, upper, next) == at + lower.size = next

\* Free blocks are joined when they touch and have one type.
Joins(lower, at, upper, next) == lower.type = upper.type /\ at + lower.size = next

\* free_locked(): the changed headers and freep.
free_locked(h, start, bp, size, type) ==
    LET p == Place(h, start, bp)
        next == h[p].ptr
        new == [ptr |-> next, size |-> size, type |-> type]
        up == Joins(new, bp, h[next], next)
        block == IF up THEN [ptr |-> h[next].ptr, size |-> size + h[next].size, type |-> type] ELSE new
        down == Joins(h[p], p, block, bp)
        rest == DOMAIN h \ (IF up THEN {next} ELSE {})
    IN [h |-> IF down
              THEN [a \in rest |-> IF a = p THEN [h[p] EXCEPT !.size = @ + block.size, !.ptr = block.ptr]
                                   ELSE h[a]]
              ELSE [a \in rest \cup {bp} |-> CASE a = bp -> block
                                               [] a = p -> [h[p] EXCEPT !.ptr = bp]
                                               [] OTHER -> h[a]],
        freep |-> p]

Pages(n) == ((n + PageUnits - 1) \div PageUnits) * PageUnits

\* morecore_brk_locked() and morecore_shmem_locked(): whole pages from the
\* kernel, when it gives them.
CanGrow(m, n, type) ==
    IF type = 0 THEN m.heap.brk + Pages(n) <= BrkTop ELSE m.heap.shm - Pages(n) >= ShmBase
morecore(m, n, type) ==
    LET at == IF type = 0 THEN m.heap.brk ELSE m.heap.shm - Pages(n)
        freed == free_locked(m.header, m.freep, at, Pages(n), type)
    IN [m EXCEPT !.header = freed.h, !.freep = freed.freep,
                 !.heap = IF type = 0 THEN [@ EXCEPT !.brk = @ + Pages(n)]
                          ELSE [@ EXCEPT !.shm = at]]

\* Take n headers from the front of p, which follows prevp.
Carve(m, prevp, p, n) ==
    LET h == m.header
        rest == [ptr |-> h[p].ptr, size |-> h[p].size - n, type |-> h[p].type]
    IN [m EXCEPT
          !.header = IF h[p].size = n
                     THEN [a \in DOMAIN h \ {p} |-> IF a = prevp THEN [h[a] EXCEPT !.ptr = h[p].ptr] ELSE h[a]]
                     ELSE [a \in (DOMAIN h \ {p}) \cup {p + n} |->
                              CASE a = p + n -> rest
                                [] a = prevp -> [h[a] EXCEPT !.ptr = p + n]
                                [] OTHER -> h[a]],
          !.freep = prevp, !.block = {[at |-> p, size |-> n, type |-> h[p].type]}]

\* The loop of malloc_locked() from p on: at freep the kernel is asked for more,
\* if it has more, and the loop goes on after the old p.  A header that
\* morecore() joined away keeps its old pointer (dead).
RECURSIVE Search(_, _, _, _, _)
Search(m, prevp, p, n, type) ==
    LET At(k, a) == IF a \in DOMAIN k.header THEN k.header[a] ELSE k.dead[a]
        grown == morecore(m, n, type)
        lost == DOMAIN m.header \ DOMAIN grown.header
        k == IF p = m.freep
             THEN [grown EXCEPT !.dead = [a \in DOMAIN @ \cup lost |->
                                            IF a \in lost THEN m.header[a] ELSE @[a]],
                                !.asked = @ + 1]
             ELSE m
    IN IF At(m, p).type = type /\ At(m, p).size >= n THEN Carve(m, prevp, p, n)
       ELSE IF p = m.freep /\ ~CanGrow(m, n, type) THEN m
       ELSE Search(k, p, At(k, p).ptr, n, type)

malloc_locked(n, type) ==
    Search([header |-> header, freep |-> freep, heap |-> heap, dead |-> <<>>,
            block |-> {}, asked |-> 0],
           freep, header[freep].ptr, n, type)

\* malloc() and shmem_malloc(); without a block they return NULL.
malloc(n, type) ==
    LET m == malloc_locked(n, type) IN
    /\ header' = m.header /\ freep' = m.freep /\ heap' = m.heap
    /\ blocks' = blocks \cup m.block

free(b) ==
    LET freed == free_locked(header, freep, b.at, b.size, b.type) IN
    /\ header' = freed.h /\ freep' = freed.freep
    /\ blocks' = blocks \ {b} /\ UNCHANGED heap

HeapNext ==
    \/ \E n \in Requests, type \in {0, 1} : malloc(n, type)
    \/ \E b \in blocks : free(b)
-----------------------------------------------------------------------------

\* The free list is one circle in the order of the addresses, whose blocks and
\* the blocks given out are disjoint and make up all that the kernel mapped, of
\* the right type; free blocks of a type that touch are one block.  A call asks
\* the kernel for memory at most twice.
HeapExact ==
    LET Units(a, n) == a..(a + n - 1)
        FreeBlock == DOMAIN header \ {base}
        Following(a) == IF \E b \in FreeBlock : b > a THEN CHOOSE b \in FreeBlock : b > a /\ \A c \in FreeBlock : c > a => c >= b
                    ELSE base
        runs == {[at |-> a, size |-> header[a].size, type |-> header[a].type] : a \in FreeBlock} \cup blocks
    IN /\ freep \in DOMAIN header /\ header[base].size = 0
       /\ \A a \in DOMAIN header : header[a].ptr = Following(a)
       /\ \A a \in FreeBlock : header[a].ptr # a + header[a].size \/ header[a].type # header[header[a].ptr].type
       /\ \A r, t \in runs : r # t => Units(r.at, r.size) \cap Units(t.at, t.size) = {}
       /\ UNION {Units(r.at, r.size) : r \in {t \in runs : t.type = 0}} = BrkBase..(heap.brk - 1)
       /\ UNION {Units(r.at, r.size) : r \in {t \in runs : t.type = 1}} = heap.shm..(ShmTop - 1)
       /\ \A n \in Requests, type \in {0, 1} : malloc_locked(n, type).asked <= 2
=============================================================================

--------------------------------- MODULE Slab ---------------------------------
(***************************************************************************)
(* The slab allocator of kern/mm/slab.c: kmalloc() and kfree().  A cache   *)
(* keeps its slabs on the lists slabs_full and slabs_notfull; a slab with  *)
(* large objects has its control part (off_slab) in an object of another   *)
(* cache.  kmem_cache_grow() may sleep in alloc_pages(): a step goes from  *)
(* one return of alloc_pages() to the next call of it, and other processes *)
(* use the caches in between.                                              *)
(***************************************************************************)
EXTENDS Integers, FiniteSets, SequencesExt

CONSTANTS SlabCache,    \* cache |-> [num, page_order, slab_cachep]
          NoCache,      \* the slab_cachep of a cache that is not off_slab
          Callers,      \* the processes
          NrPages       \* the pages the caches can get

Caches == DOMAIN SlabCache
\* Control parts are small: their cache is not off_slab itself.
ASSUME SlabAssumption ==
    \A c \in Caches : LET m == SlabCache[c].slab_cachep IN
                      m # NoCache => m \in Caches /\ SlabCache[m].slab_cachep = NoCache

VARIABLES kmem,         \* slab: slab |-> [cache, inuse, bufctl, mgmt]; full and
                        \* notfull: cache |-> slabs, newest first; pages: free ones
          growing,      \* caller |-> the caches whose kmem_cache_grow() is going
                        \* on, the last one in alloc_pages()
          objects       \* the objects that kmalloc() gave out

slab_vars == <<kmem, growing, objects>>

Size(c) == 2^SlabCache[c].page_order
SlabInit ==
    /\ kmem = [slab |-> <<>>, full |-> [c \in Caches |-> <<>>],
               notfull |-> [c \in Caches |-> <<>>], pages |-> NrPages]
    /\ growing = [p \in Callers |-> <<>>]
    /\ objects = {}

-----------------------------------------------------------------------------

\* kmem_cache_alloc_one() from the first slab: an object is <<slab, index>>;
\* bufctl is the chain of the free ones.
AllocOne(k, c) ==
    LET s == Head(k.notfull[c])
        chain == Tail(k.slab[s].bufctl)
        taken == [k EXCEPT !.slab[s].inuse = @ + 1, !.slab[s].bufctl = chain]
    IN [object |-> <<s, Head(k.slab[s].bufctl)>>,
        k |-> IF chain # <<>> THEN taken
              ELSE [taken EXCEPT !.notfull[c] = Tail(@), !.full[c] = <<s>> \o @]]

\* The end of kmem_cache_grow(), and kmem_cache_alloc() that tries again.
Grown(k, c, mgmt) ==
    LET s == CHOOSE i \in 1..NrPages : i \notin DOMAIN k.slab /\ \A j \in 1..(i - 1) : j \in DOMAIN k.slab
        new == [cache |-> c, inuse |-> 0, bufctl |-> [i \in 1..SlabCache[c].num |-> i - 1], mgmt |-> mgmt]
    IN AllocOne([k EXCEPT !.slab = [i \in DOMAIN @ \cup {s} |-> IF i = s THEN new ELSE @[i]],
                          !.notfull[c] = <<s>> \o @], c)

\* Faulty variant of FreeOne: a full slab stays on slabs_full.
RECURSIVE FreeOneStaysFull(_, _)
FreeOneStaysFull(k, object) ==
    LET s == object[1]
        slab == k.slab[s]
        c == slab.cache
        without == [k EXCEPT !.full[c] = Remove(@, s), !.notfull[c] = Remove(@, s),
                             !.slab = [i \in DOMAIN @ \ {s} |-> @[i]], !.pages = @ + Size(c)]
    IN IF slab.inuse > 1
       THEN [k EXCEPT !.slab[s].inuse = @ - 1, !.slab[s].bufctl = <<object[2]>> \o @]
       ELSE IF slab.mgmt = <<>> THEN without ELSE FreeOneStaysFull(without, slab.mgmt)

\* kmem_cache_free_one() with kmem_slab_destroy(): an empty slab goes back,
\* with its control part.
RECURSIVE FreeOne(_, _)
FreeOne(k, object) ==
    LET s == object[1]
        slab == k.slab[s]
        c == slab.cache
        without == [k EXCEPT !.full[c] = Remove(@, s), !.notfull[c] = Remove(@, s),
                             !.slab = [i \in DOMAIN @ \ {s} |-> @[i]], !.pages = @ + Size(c)]
        back == [k EXCEPT !.slab[s].inuse = @ - 1, !.slab[s].bufctl = <<object[2]>> \o @]
    IN IF slab.inuse = 1
       THEN IF slab.mgmt = <<>> THEN without ELSE FreeOne(without, slab.mgmt)
       ELSE IF slab.inuse = SlabCache[c].num
       THEN [back EXCEPT !.full[c] = Remove(@, s), !.notfull[c] = <<s>> \o @]
       ELSE back

-----------------------------------------------------------------------------

\* kmalloc() with a free object at hand, or on to alloc_pages().
kmalloc(p, c) ==
    /\ growing[p] = <<>>
    /\ IF kmem.notfull[c] # <<>>
       THEN LET one == AllocOne(kmem, c) IN
            /\ kmem' = one.k /\ objects' = objects \cup {one.object}
            /\ UNCHANGED growing
       ELSE growing' = [growing EXCEPT ![p] = <<c>>] /\ UNCHANGED <<kmem, objects>>

\* alloc_pages() returns pages: the control part may be the next to need some;
\* else all the slabs that wait for it are finished.
GotPages(p) ==
    LET c == Last(growing[p])
        m == SlabCache[c].slab_cachep
        k == [kmem EXCEPT !.pages = @ - Size(c)]
    IN /\ growing[p] # <<>> /\ kmem.pages >= Size(c)
       /\ IF m # NoCache /\ k.notfull[m] = <<>>
          THEN /\ kmem' = k /\ growing' = [growing EXCEPT ![p] = <<c, m>>]
               /\ UNCHANGED objects
          ELSE LET mgmt == IF m = NoCache THEN [k |-> k, object |-> <<>>] ELSE AllocOne(k, m)
                   inner == Grown(mgmt.k, c, mgmt.object)
                   outer == IF Len(growing[p]) = 1 THEN inner
                            ELSE Grown(inner.k, growing[p][1], inner.object)
               IN /\ kmem' = outer.k /\ objects' = objects \cup {outer.object}
                  /\ growing' = [growing EXCEPT ![p] = <<>>]

\* alloc_pages() returns NULL: the pages of the slab that needed the control
\* part are freed (oops), kmalloc() returns NULL.
NoPages(p) ==
    /\ growing[p] # <<>> /\ kmem.pages < Size(Last(growing[p]))
    /\ kmem' = [kmem EXCEPT !.pages = IF Len(growing[p]) = 2 THEN @ + Size(growing[p][1]) ELSE @]
    /\ growing' = [growing EXCEPT ![p] = <<>>]
    /\ UNCHANGED objects

kfree(object) ==
    /\ kmem' = FreeOne(kmem, object)
    /\ objects' = objects \ {object}
    /\ UNCHANGED growing

SlabNext ==
    \/ \E p \in Callers : GotPages(p) \/ NoPages(p) \/ \E c \in Caches : kmalloc(p, c)
    \/ \E object \in objects : kfree(object)

-----------------------------------------------------------------------------

\* In every slab the chain holds exactly the objects nobody has, the slab is on
\* the list its chain calls for, no slab is kept empty, no object is given out
\* twice, and every page is free, in a slab, or in a growth that still waits.
SlabsExact ==
    LET Mgmt == {kmem.slab[s].mgmt : s \in DOMAIN kmem.slab} \ {<<>>}
        Used(s) == {o \in objects \cup Mgmt : o[1] = s}
        InGrowth == {p \in Callers : Len(growing[p]) = 2}
    IN /\ objects \cap Mgmt = {}
       /\ \A o \in objects \cup Mgmt : o[1] \in DOMAIN kmem.slab
       /\ \A s \in DOMAIN kmem.slab :
             LET slab == kmem.slab[s] IN
             /\ slab.inuse = Cardinality(Used(s)) /\ slab.inuse > 0
             /\ {o[2] : o \in Used(s)} = (0..(SlabCache[slab.cache].num - 1)) \ ToSet(slab.bufctl)
             /\ Len(slab.bufctl) + slab.inuse = SlabCache[slab.cache].num
             /\ (slab.bufctl = <<>>) = Contains(kmem.full[slab.cache], s)
             /\ (slab.bufctl # <<>>) = Contains(kmem.notfull[slab.cache], s)
             /\ slab.mgmt # <<>> => \A t \in DOMAIN kmem.slab : kmem.slab[t].mgmt = slab.mgmt => t = s
       /\ \A c \in Caches : Len(kmem.full[c]) + Len(kmem.notfull[c])
                               = Cardinality({s \in DOMAIN kmem.slab : kmem.slab[s].cache = c})
       /\ FoldFunction(LAMBDA slab, sum : sum + Size(slab.cache), 0, kmem.slab)
             + FoldFunctionOnSet(LAMBDA calls, sum : sum + Size(calls[1]), 0, growing, InGrowth)
             + kmem.pages = NrPages
=============================================================================

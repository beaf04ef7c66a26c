----------------------------- MODULE MCStructures -----------------------------
(***************************************************************************)
(* The parts of the kernel and of the user library that keep a structure   *)
(* of their own and share no state: process ids, red-black trees, buddy    *)
(* blocks, slabs, the user heap, pipes and the philosophers.               *)
(* They are checked side by side: `part' says which one a behaviour is     *)
(* about, the others stay as they are initially.                           *)
(***************************************************************************)
EXTENDS PidAlloc, RbTree, Buddy, Slab, UserHeap, Spipe, Philosophers

CONSTANT RbNodes

VARIABLES part, tree
structures_vars ==
    <<part, tree, pid_vars, buddy_vars, slab_vars, heap_vars, spipe_vars, phi_vars>>

MCZones == <<[base |-> 3, n |-> 7], [base |-> 10, n |-> 3]>>
MCCaches == [small |-> [num |-> 2, page_order |-> 0, slab_cachep |-> "none"],
             large |-> [num |-> 2, page_order |-> 1, slab_cachep |-> "small"]]
MCHandles == <<1, 1, 2>>     \* two threads and another process
MCSymmetry == Permutations(Callers)

-----------------------------------------------------------------------------
(* A red-black tree on its own: two of its nodes have the same key. *)

RbKey == [n \in RbNodes |-> IF n = 2 THEN 1 ELSE n]
RbNext ==
    \/ \E n \in RbNodes \ Nodes(tree) : tree' = rb_insert(tree, n, RbKey)
    \/ \E n \in Nodes(tree) : tree' = rb_delete(tree, n)

\* Whatever is inserted and deleted, in any order, the tree stays balanced and
\* in order, is walked completely in both directions, and finds a key if and
\* only if it is there.
TreeExact ==
    /\ IsTreeOf(tree, Nodes(tree), RbKey)
    /\ \A n \in RbNodes :
          LET found == rb_search(tree, RbKey[n], RbKey) IN
          IF found = Nil THEN \A m \in Nodes(tree) : RbKey[m] # RbKey[n] ELSE RbKey[found] = RbKey[n]

-----------------------------------------------------------------------------

Parts == {"pids", "tree", "buddy", "slab", "heap", "pipe", "philosophers"}
StructuresInit ==
    /\ part \in Parts
    /\ tree = EmptyTree
    /\ PidInit /\ BuddyInit /\ SlabInit /\ HeapInit /\ SpipeInit /\ PhiInit

\* A step of one part.
Only(p, A, others) == part = p /\ A /\ UNCHANGED <<part, others>>
PidStep(A) ==
    Only("pids", A, <<tree, buddy_vars, slab_vars, heap_vars, spipe_vars, phi_vars>>)
PhiStep ==
    Only("philosophers", PhiNext, <<pid_vars, tree, buddy_vars, slab_vars, heap_vars, spipe_vars>>)
StructuresNext ==
    \/ PidStep(PidNext)
    \/ PhiStep
    \/ Only("tree", RbNext,
            <<pid_vars, buddy_vars, slab_vars, heap_vars, spipe_vars, phi_vars>>)
    \/ Only("buddy", BuddyNext,
            <<pid_vars, tree, slab_vars, heap_vars, spipe_vars, phi_vars>>)
    \/ Only("slab", SlabNext,
            <<pid_vars, tree, buddy_vars, heap_vars, spipe_vars, phi_vars>>)
    \/ Only("heap", HeapNext,
            <<pid_vars, tree, buddy_vars, slab_vars, spipe_vars, phi_vars>>)
    \/ Only("pipe", SpipeNext,
            <<pid_vars, tree, buddy_vars, slab_vars, heap_vars, phi_vars>>)

\* A scan of get_pid() goes on; the philosophers, as long as one of them can.
StructuresSpec ==
    /\ StructuresInit /\ [][StructuresNext]_structures_vars
    /\ WF_structures_vars(PidStep(Scan)) /\ WF_structures_vars(PhiStep)

-----------------------------------------------------------------------------

\* No philosopher eats with a neighbour's fork, and all of them finish their
\* meals: however their sleeps end, no up() is missed and nobody waits for a
\* neighbour that waits for somebody else.
PhilosophersDine == []ForksExclusive /\ [](part = "philosophers" => <>AllQuit)
=============================================================================

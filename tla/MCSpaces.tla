------------------------------ MODULE MCSpaces ------------------------------
(***************************************************************************)
(* Address spaces, from both sides: their areas (Vma), and the processes   *)
(* that share and free them, with the lists of semaphores (Resources).     *)
(* The two share no state and are checked side by side: `part' says which  *)
(* one a behaviour is about, the other stays as it is initially.           *)
(***************************************************************************)
EXTENDS Vma, Resources

CONSTANTS Space1, Space2

VARIABLE part
spaces_vars == <<part, vma_vars, resource_vars>>

\* Two spaces that fork, with three pages; one space with four pages and a
\* stack, or with two shared memories, where memory runs out.
Shape(spaces, top, flags, shmems, memory) ==
    [spaces |-> spaces, top |-> top, flags |-> flags, shmems |-> shmems, memory |-> memory]
MCSizes ==
    {Shape({Space1, Space2}, 5, {{"r", "w"}}, {1}, {TRUE})}
    \cup UNION {{Shape({s}, 6, {{"r", "w"}, {"r", "w", "stack"}}, {}, BOOLEAN),
                 Shape({s}, 6, {{"r", "w"}}, {1, 2}, BOOLEAN)} : s \in {Space1, Space2}}

\* user_main is not like the others: it starts without mm and sem_queue.
MCSymmetry == Permutations({Space1, Space2}) \cup Permutations(Tasks \ {First})

SpacesInit ==
    /\ part \in {"areas", "resources"}
    /\ VmaInit /\ ResourcesInit
    /\ part = "resources" => Cardinality(size.spaces) = 2      \* any one size

SpacesNext ==
    \/ part = "areas" /\ VmaNext /\ UNCHANGED <<part, resource_vars>>
    \/ part = "resources" /\ ResourcesNext /\ UNCHANGED <<part, vma_vars>>

SpacesSpec == SpacesInit /\ [][SpacesNext]_spaces_vars
=============================================================================

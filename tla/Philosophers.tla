---------------------------- MODULE Philosophers ----------------------------
(***************************************************************************)
(* The dining philosophers of kern/sync/check_sync.c, kernel threads with  *)
(* a semaphore each.  Kernel threads are not preempted and nothing between *)
(* down(&mutex) and up(&mutex) sleeps, so that lock is always free and a   *)
(* step goes from one point where a philosopher may sleep to the next.     *)
(***************************************************************************)
EXTENDS Integers

CONSTANTS N, TIMES        \* philosophers, and how often each of them eats

ASSUME PhilosophersAssumption == N \in Nat \ {0} /\ TIMES \in Nat

VARIABLES state_sema,     \* philosopher |-> "THINKING", "HUNGRY" or "EATING"
          s,              \* philosopher |-> the value of its semaphore
          at,             \* philosopher |-> "thinks" or "eats" (in do_sleep()), "waits"
                          \* (in the queue of its semaphore), or "quit"
          iter            \* philosopher |-> rounds begun

phi_vars == <<state_sema, s, at, iter>>

Phils == 0 .. N - 1
LEFT(i) == (i - 1 + N) % N
RIGHT(i) == (i + 1) % N

\* check_sync(); each philosopher begins its first round.
PhiInit ==
    /\ state_sema = [i \in Phils |-> "THINKING"]
    /\ s = [i \in Phils |-> 0]
    /\ at = [i \in Phils |-> IF TIMES > 0 THEN "thinks" ELSE "quit"]
    /\ iter = [i \in Phils |-> 1]

\* phi_test_sema(): may i eat now, and what it is if so.
MayEat(st, i) == st[i] = "HUNGRY" /\ "EATING" \notin {st[LEFT(i)], st[RIGHT(i)]}
Test(st, i) == IF MayEat(st, i) THEN [st EXCEPT ![i] = "EATING"] ELSE st

\* phi_take_forks_sema(): up() of the own semaphore, when the test succeeds,
\* and down() right after it cancel out.
Take(i) ==
    LET st == Test([state_sema EXCEPT ![i] = "HUNGRY"], i)
        value == s[i] + IF st[i] = "EATING" THEN 1 ELSE 0 IN
    /\ at[i] = "thinks"
    /\ state_sema' = st
    /\ s' = [s EXCEPT ![i] = IF value > 0 THEN value - 1 ELSE value]
    /\ at' = [at EXCEPT ![i] = IF value > 0 THEN "eats" ELSE "waits"]
    /\ UNCHANGED iter

\* Faulty variant of Tested: the second neighbour is forgotten.
TestedLeft(i) == Test([state_sema EXCEPT ![i] = "THINKING"], LEFT(i))
Tested(i) == Test(Test([state_sema EXCEPT ![i] = "THINKING"], LEFT(i)), RIGHT(i))

\* phi_put_forks_sema(): neighbours that may eat now get an up(), which wakes
\* those that wait; the next round, or the end.
PutForks(i) ==
    LET st == Tested(i)
        upped == {j \in Phils : state_sema[j] # "EATING" /\ st[j] = "EATING"} IN
    /\ at[i] = "eats"
    /\ state_sema' = st
    /\ s' = [j \in Phils |-> IF j \in upped /\ at[j] # "waits" THEN s[j] + 1 ELSE s[j]]
    /\ at' = [j \in Phils |-> IF j = i THEN IF iter[i] < TIMES THEN "thinks" ELSE "quit"
                              ELSE IF j \in upped /\ at[j] = "waits" THEN "eats" ELSE at[j]]
    /\ iter' = [iter EXCEPT ![i] = IF @ < TIMES THEN @ + 1 ELSE @]

PhiNext == \E i \in Phils : Take(i) \/ PutForks(i)

-----------------------------------------------------------------------------

\* Whoever eats has both forks to itself, "EATING" says so to its neighbours
\* from the moment it may eat, and no up() is left over.
ForksExclusive ==
    \A i \in Phils : /\ (at[i] = "eats") = (state_sema[i] = "EATING")
                     /\ at[i] = "eats" /\ N > 1 => at[RIGHT(i)] # "eats"
                     /\ (at[i] = "waits") = (state_sema[i] = "HUNGRY")
                     /\ s[i] = 0
AllQuit == \A i \in Phils : at[i] = "quit"
=============================================================================

-------------------------------- MODULE Spipe --------------------------------
(***************************************************************************)
(* The pipe of user/libs/spipe.c: a ring and two positions on shared       *)
(* memory, a user semaphore as its lock, and a handle per process, which   *)
(* its threads share.  User programs are preempted anywhere, so a step is  *)
(* one test of a handle, one call of the kernel or one byte under the      *)
(* lock.  The bytes are numbered in the order in which they are written.   *)
(***************************************************************************)
EXTENDS Integers, FiniteSetsExt, Sequences

CONSTANTS PipeUsers,     \* processes and threads that use the pipe
          HandleOf,      \* the spipe_t of each: threads have the one of their process
          SPIPE_BUFSIZE,
          MaxBytes       \* bound on the bytes ever written

ASSUME SpipeAssumption == /\ IsFiniteSet(PipeUsers) /\ DOMAIN HandleOf = PipeUsers
                          /\ SPIPE_BUFSIZE \in Nat \ {0} /\ MaxBytes \in Nat

VARIABLES p_rpos, p_wpos, pipe_closed,   \* p->state, with isclosed
          ring,          \* p->buf
          opened,        \* handles with isclosed = 0; close clears it and unmaps the memory
          spipe_sem,     \* the users that hold the lock
          call,          \* user |-> [at, op, left]: where it is, what it does, the
                         \* bytes it has still to copy
          got,           \* history: the bytes read, in order
          sealed         \* history: p_wpos when the pipe was closed

spipe_vars == <<p_rpos, p_wpos, pipe_closed, ring, opened, spipe_sem, call, got, sealed>>
state_vars == <<p_rpos, p_wpos, ring, got>>
close_vars == <<pipe_closed, opened, sealed>>

NoCall == [at |-> "user", op |-> "none", left |-> 0]
Goes(u, place) == call' = [call EXCEPT ![u].at = place]
Promised == MapThenSumSet(LAMBDA u : IF call[u].op = "write" THEN call[u].left ELSE 0, PipeUsers)

SpipeInit ==
    /\ p_rpos = 0 /\ p_wpos = 0 /\ pipe_closed = FALSE
    /\ ring = [i \in 0 .. SPIPE_BUFSIZE - 1 |-> 0]
    /\ opened = {HandleOf[u] : u \in PipeUsers}
    /\ spipe_sem = {} /\ call = [u \in PipeUsers |-> NoCall]
    /\ got = <<>> /\ sealed = 0

-----------------------------------------------------------------------------

\* spiperead(), spipewrite(), spipeclose() and spipeisclosed() of an open
\* handle; with a closed one they return at once.
SpipeCall(u, op, n) ==
    /\ call[u].at = "user" /\ HandleOf[u] \in opened
    /\ IF op = "write" THEN p_wpos + Promised + n <= MaxBytes ELSE op = "read" \/ n = 0
    /\ call' = [call EXCEPT ![u] = [at |-> "wait", op |-> op, left |-> n]]
    /\ UNCHANGED <<state_vars, close_vars, spipe_sem>>

\* try_again: after yield() the handle is looked at once more.
TryAgain(u) ==
    /\ call[u].at = "yield"
    /\ call' = [call EXCEPT ![u] = IF HandleOf[u] \in opened THEN [@ EXCEPT !.at = "wait"] ELSE NoCall]
    /\ UNCHANGED <<state_vars, close_vars, spipe_sem>>

SpipeLock(u) ==
    /\ call[u].at = "wait" /\ spipe_sem = {}
    /\ spipe_sem' = {u} /\ Goes(u, "locked")
    /\ UNCHANGED <<state_vars, close_vars>>

SpipeUnlock(u) ==
    /\ call[u].at \in {"done", "again"}
    /\ spipe_sem' = {}
    /\ IF call[u].at = "done" THEN call' = [call EXCEPT ![u] = NoCall] ELSE Goes(u, "yield")
    /\ UNCHANGED <<state_vars, close_vars>>

\* __spipeclose_nolock() by the owner of this handle.
CloseHandle(h) ==
    IF h \notin opened THEN UNCHANGED close_vars
    ELSE /\ opened' = opened \ {h} /\ pipe_closed' = TRUE
         /\ sealed' = IF pipe_closed THEN sealed ELSE p_wpos

\* __spipeisclosed_nolock(): a reader may take what is left in the ring; when
\* nothing is left, the handle is closed, too.
IsClosed(u) == \/ HandleOf[u] \notin opened
               \/ pipe_closed /\ (p_rpos < p_wpos => call[u].op # "read")
TestClosed(u) ==
    IF pipe_closed /\ p_rpos >= p_wpos THEN CloseHandle(HandleOf[u]) ELSE UNCHANGED close_vars

\* What a call does first with the lock held.
Locked(u) ==
    /\ call[u].at = "locked"
    /\ IF call[u].op = "close" THEN CloseHandle(HandleOf[u]) ELSE TestClosed(u)
    /\ Goes(u, IF call[u].op \in {"close", "isclosed"} \/ IsClosed(u) THEN "done"
               ELSE IF call[u].op = "read" /\ p_rpos = p_wpos THEN "again" ELSE "copy")
    /\ UNCHANGED <<state_vars, spipe_sem>>

\* A round of the loop of spiperead().
ReadByte(u) ==
    /\ call[u].at = "copy" /\ call[u].op = "read"
    /\ IF call[u].left = 0 \/ p_rpos = p_wpos
       THEN Goes(u, "done") /\ UNCHANGED <<p_rpos, got>>
       ELSE /\ got' = Append(got, ring[p_rpos % SPIPE_BUFSIZE])
            /\ p_rpos' = p_rpos + 1
            /\ call' = [call EXCEPT ![u].left = @ - 1]
    /\ UNCHANGED <<p_wpos, ring, close_vars, spipe_sem>>

\* Faulty variant of Full: one byte more than the ring has.
FullTooLate == p_wpos - p_rpos > SPIPE_BUFSIZE
Full == p_wpos - p_rpos >= SPIPE_BUFSIZE

\* A round of the loop of spipewrite(); with the ring full it lets the readers
\* in and goes on later.
WriteByte(u) ==
    /\ call[u].at = "copy" /\ call[u].op = "write"
    /\ IF call[u].left = 0 THEN Goes(u, "done") /\ UNCHANGED <<p_wpos, ring>>
       ELSE IF Full THEN Goes(u, "again") /\ UNCHANGED <<p_wpos, ring>>
       ELSE /\ ring' = [ring EXCEPT ![p_wpos % SPIPE_BUFSIZE] = p_wpos + 1]
            /\ p_wpos' = p_wpos + 1
            /\ call' = [call EXCEPT ![u].left = @ - 1]
    /\ UNCHANGED <<p_rpos, got, close_vars, spipe_sem>>

\* A process is killed, with its threads; a lock it holds stays taken.
SpipeKilled(h) ==
    /\ \E u \in PipeUsers : HandleOf[u] = h /\ call[u].at # "gone"
    /\ call' = [u \in PipeUsers |-> IF HandleOf[u] = h THEN [NoCall EXCEPT !.at = "gone"] ELSE call[u]]
    /\ UNCHANGED <<state_vars, close_vars, spipe_sem>>

SpipeNext ==
    \/ \E u \in PipeUsers, op \in {"read", "write"}, n \in {1, 2} : SpipeCall(u, op, n)
    \/ \E u \in PipeUsers, op \in {"close", "isclosed"} : SpipeCall(u, op, 0)
    \/ \E u \in PipeUsers : \/ TryAgain(u) \/ SpipeLock(u) \/ SpipeUnlock(u)
                        \/ Locked(u) \/ ReadByte(u) \/ WriteByte(u)
    \/ \E u \in PipeUsers : SpipeKilled(HandleOf[u])

SpipeSpec == SpipeInit /\ [][SpipeNext]_spipe_vars

-----------------------------------------------------------------------------

\* Readers together get what the writers together have put in, each byte once
\* and in order, whoever yields, closes or is killed in the middle; nothing is
\* written after a close; and nobody copies through a handle that another
\* thread has closed and unmapped.
PipeIsFifo ==
    /\ got = [i \in 1 .. p_rpos |-> i]
    /\ p_rpos <= p_wpos
    /\ \A i \in p_rpos .. p_wpos - 1 : ring[i % SPIPE_BUFSIZE] = i + 1
    /\ pipe_closed => p_wpos = sealed
    /\ opened # {HandleOf[u] : u \in PipeUsers} => pipe_closed
    /\ \A u \in PipeUsers : call[u].at = "copy" => HandleOf[u] \in opened
=============================================================================

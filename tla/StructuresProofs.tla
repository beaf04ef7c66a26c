--------------------------- MODULE StructuresProofs ---------------------------
(***************************************************************************)
(* What MCStructures checks of the parts that keep a structure of their    *)
(* own, for every size of them: get_pid() never hands out a pid that is in *)
(* use; a pipe delivers what was written into it; what processes share is  *)
(* counted.  And the scheduling class, for any number of queues and any    *)
(* base slice: its queues are consistent and implement the scheduler that  *)
(* the other modules use.                                                  *)
(***************************************************************************)
EXTENDS PidAlloc, Spipe, Resources, Mlfq, ListsProofs, FiniteSetTheorems

-----------------------------------------------------------------------------
(* PidAlloc *)

\* PidsUnique alone is not inductive: Cached trusts the range that earlier
\* scans left behind, and EndScan what the current scan has seen.
PidInv == PidTypeOK /\ PidsUnique /\ RangeIsFree

LEMMA PidInvInductive ==
    /\ PidInit => PidInv
    /\ PidInv /\ [PidNext]_pid_vars => PidInv'
<1> USE PidAssumption
<1>1. PidInit => PidInv
  BY DEF PidInit, PidInv, PidTypeOK, PidsUnique, RangeIsFree, Distinct, Live, Elements, Pids
<1>2. ASSUME PidInv, [PidNext]_pid_vars PROVE PidInv'
  <2> USE DEF PidInv, PidTypeOK, Pids
  <2>0. \A q \in Live : q \in Nat
    BY <1>2 DEF Live, Elements
  <2>1. CASE Cached
    <3>1. last_pid' = last_pid + 1 /\ last_pid' \in Pids /\ UNCHANGED <<next_safe, le>>
          /\ le = 0 /\ last_pid + 1 < next_safe
      BY <1>2, <2>1 DEF Cached
    <3>2. NewProcess(last_pid')
      BY <2>1 DEF Cached
    <3>3. last_pid' \notin Live
      BY <1>2, <3>1 DEF RangeIsFree
    <3>4. /\ PidsUnique' /\ Live' = Live \cup {last_pid'}
          /\ proc_list' \in Seq(Pids) /\ Len(proc_list') = Len(proc_list) + 1
      <4> HIDE DEF Pids
      <4>1. proc_list \in Seq(Pids)
        BY <1>2
      <4>2. proc_list' = AddFirst(proc_list, last_pid') /\ Distinct(proc_list)
        BY <1>2, <3>2 DEF NewProcess, PidsUnique
      <4>3. QED
        BY <3>1, <3>3, <4>1, <4>2, AddFirstFacts DEF PidsUnique, Live
    <3>5. PidTypeOK'
      <4>1. forking' = forking - 1 /\ forking > 0
        BY <2>1, <3>2 DEF Cached, NewProcess
      <4>2. QED
        BY <1>2, <3>1, <3>4, <4>1
    <3>6. RangeIsFree'
      <4>1. \A q \in Live' : ~(last_pid' < q /\ q < next_safe')
        BY <1>2, <3>1, <3>4, <2>0 DEF RangeIsFree
      <4>2. \A i \in DOMAIN proc_list' : ~(i < le')
        BY <3>1, <3>5
      <4>3. QED
        BY <3>1, <4>1, <4>2 DEF RangeIsFree
    <3>7. QED
      BY <3>4, <3>5, <3>6
  <2>2. CASE StartScan
    <3>1. /\ last_pid' \in Pids /\ next_safe' = MAX_PID /\ le' = 1
          /\ UNCHANGED <<proc_list, forking>> /\ forking > 0
      BY <1>2, <2>2 DEF StartScan
    <3>2. \A i \in DOMAIN proc_list' : ~(i < le')
      BY <1>2, <3>1
    <3>3. QED
      BY <1>2, <3>1, <3>2 DEF PidsUnique, RangeIsFree
  <2>3. CASE Collide
    <3>1. /\ le \in 1 .. Len(proc_list) /\ le + 1 # 0
          /\ proc_list[le] = last_pid /\ last_pid \in Pids
          /\ \A i \in DOMAIN proc_list : proc_list[i] \in Pids /\ i \in Nat
          /\ UNCHANGED <<proc_list, forking>> /\ forking > 0
      BY <1>2, <2>3 DEF Collide
    <3>2. CASE last_pid + 1 >= next_safe
      BY <1>2, <2>3, <3>1, <3>2 DEF Collide, PidsUnique, RangeIsFree
    <3>3. CASE last_pid + 1 < next_safe
      <4>1. /\ last_pid' = last_pid + 1 /\ le' = le + 1 /\ UNCHANGED next_safe
            /\ last_pid' \in Pids
        BY <1>2, <2>3, <3>1, <3>3 DEF Collide
      <4>2. ASSUME NEW i \in DOMAIN proc_list, i < le'
            PROVE  ~(last_pid' <= proc_list[i] /\ proc_list[i] < next_safe)
        <5>1. i < le \/ i = le
          BY <3>1, <4>1, <4>2
        <5>2. QED
          BY <1>2, <3>1, <4>1, <5>1 DEF RangeIsFree
      <4>3. QED
        BY <1>2, <3>1, <3>3, <4>1, <4>2 DEF PidsUnique, RangeIsFree
    <3>4. QED
      BY <1>2, <3>1, <3>2, <3>3
  <2>4. CASE Pass
    BY <1>2, <2>4, SMTT(40) DEF Pass, PidsUnique, RangeIsFree, Live
  <2>5. CASE EndScan
    <3>1. NewProcess(last_pid) /\ le' = 0 /\ UNCHANGED <<last_pid, next_safe>>
          /\ le = Len(proc_list) + 1 /\ last_pid \in Pids
      BY <1>2, <2>5 DEF EndScan
    <3>2. \A i \in DOMAIN proc_list :
             ~(last_pid <= proc_list[i] /\ proc_list[i] < next_safe)
      BY <1>2, <3>1 DEF RangeIsFree
    <3>3. next_safe > last_pid
      BY <1>2, <3>1 DEF RangeIsFree
    <3>4. \A q \in Live : ~(last_pid <= q /\ q < next_safe)
      BY <3>2 DEF Live, Elements
    <3>5. /\ PidsUnique' /\ Live' = Live \cup {last_pid}
          /\ proc_list' \in Seq(Pids) /\ Len(proc_list') = Len(proc_list) + 1
      <4>1. last_pid \notin Live
        BY <1>2, <3>1, <3>3, <3>4
      <4> HIDE DEF Pids
      <4>2. proc_list \in Seq(Pids)
        BY <1>2
      <4>3. proc_list' = AddFirst(proc_list, last_pid) /\ Distinct(proc_list)
        BY <1>2, <3>1 DEF NewProcess, PidsUnique
      <4>4. QED
        BY <3>1, <4>1, <4>2, <4>3, AddFirstFacts DEF PidsUnique, Live
    <3>6. PidTypeOK'
      <4>1. forking' = forking - 1 /\ forking > 0
        BY <1>2, <3>1 DEF NewProcess
      <4>2. QED
        BY <1>2, <3>1, <3>5, <4>1
    <3>7. RangeIsFree'
      <4>2. \A q \in Live' : ~(last_pid' < q /\ q < next_safe')
        BY <1>2, <3>1, <3>5, <3>4, <2>0
      <4>3. \A i \in DOMAIN proc_list' : ~(i < le')
        BY <3>1, <3>6
      <4>4. QED
        BY <3>1, <4>2, <4>3 DEF RangeIsFree
    <3>8. QED
      BY <3>5, <3>6, <3>7
  <2>6. CASE \E k \in DOMAIN proc_list : RemoveLinks(k)
    <3>1. PICK k \in DOMAIN proc_list : RemoveLinks(k)
      BY <2>6
    <3>2. le = 0 /\ UNCHANGED <<forking, last_pid, next_safe, le>>
      BY <3>1 DEF RemoveLinks
    <3>3. /\ PidsUnique' /\ Live' \subseteq Live
          /\ proc_list' \in Seq(Pids) /\ Len(proc_list') = Len(proc_list) - 1
      BY <1>2, <3>1, DelAtFacts DEF RemoveLinks, PidsUnique, Live
    <3>4. PidTypeOK'
      BY <1>2, <3>2, <3>3
    <3>5. \A i \in DOMAIN proc_list' : ~(i < le')
      BY <3>2, <3>4
    <3>6. RangeIsFree'
      BY <1>2, <3>2, <3>3, <3>5 DEF RangeIsFree
    <3>7. QED
      BY <3>3, <3>4, <3>6
  <2>7. CASE Admit \/ GiveUp
    <3>1. le = 0 /\ UNCHANGED <<proc_list, last_pid, next_safe, le>> /\ forking' \in Nat
      BY <1>2, <2>7 DEF Admit, GiveUp
    <3>2. QED
      BY <1>2, <3>1 DEF PidsUnique, RangeIsFree, Live
  <2>8. CASE UNCHANGED pid_vars
    BY <1>2, <2>8 DEF pid_vars, PidsUnique, RangeIsFree, Live
  <2>9. QED
    BY <1>2, <2>1, <2>2, <2>3, <2>4, <2>5, <2>6, <2>7, <2>8 DEF PidNext, Scan
<1>3. QED
  BY <1>1, <1>2

\* No two processes ever have the same pid, although get_pid() looks at the
\* process list only when its cached range is used up.
THEOREM PidsNeverShared == PidSpec => [](PidTypeOK /\ PidsUnique /\ RangeIsFree)
<1>1. PidInv => PidTypeOK /\ PidsUnique /\ RangeIsFree
  BY DEF PidInv
<1>2. QED
  BY <1>1, PidInvInductive, PTL DEF PidSpec
-----------------------------------------------------------------------------
(* Spipe *)

\* The bytes of a window no longer than the ring have places of their own.
LEMMA DivMod ==
    ASSUME NEW N \in Nat \ {0}, NEW i \in Nat
    PROVE  /\ i \div N \in Nat /\ N * (i \div N) \in Nat /\ i % N \in 0 .. N - 1
           /\ i = N * (i \div N) + (i % N)
  OBVIOUS

LEMMA PlacesDiffer ==
    ASSUME NEW N \in Nat \ {0}, NEW i \in Nat, NEW j \in Nat, i < j, j - i < N
    PROVE  i % N # j % N
<1> SUFFICES ASSUME i % N = j % N PROVE FALSE
  OBVIOUS
<1>1. PICK q \in Nat : i = N * q + (i % N) /\ N * q \in Nat
  BY DivMod
<1>2. PICK r \in Nat : j = N * r + (j % N) /\ N * r \in Nat
  BY DivMod
<1>3. i % N \in Nat /\ j % N \in Nat
  BY DivMod
<1>4. ASSUME NEW a \in Nat, NEW b \in Nat, a < b PROVE N * a + N <= N * b
  <2>1. b = a + (b - a) /\ b - a \in Nat \ {0}
    BY <1>4
  <2>2. \A d \in Nat \ {0} : N * (a + d) = N * a + N * d /\ N * d >= N
    OBVIOUS
  <2>3. QED
    BY <2>1, <2>2
<1>5. q >= r => N * q >= N * r
  BY <1>4
<1>6. q < r => N * q + N <= N * r
  BY <1>4
<1>7. QED
  BY <1>1, <1>2, <1>3, <1>5, <1>6

UnderLock == {"locked", "copy", "done", "again"}
CallTypes == [at : {"user", "wait", "yield", "gone"} \cup UnderLock,
              op : {"none", "read", "write", "close", "isclosed"}, left : Nat]
SpipeTypes ==
    /\ p_rpos \in Nat /\ p_wpos \in Nat /\ sealed \in Nat
    /\ pipe_closed \in BOOLEAN
    /\ ring \in [0 .. SPIPE_BUFSIZE - 1 -> Nat]
    /\ call \in [PipeUsers -> CallTypes]

\* PipeIsFifo is inductive with what the lock is for: one user is inside, the
\* bytes on their way fit in the ring, and a writer that is inside has found
\* the pipe open.  A user killed inside leaves the lock taken.
SpipeInv ==
    /\ SpipeTypes
    /\ PipeIsFifo
    /\ p_wpos - p_rpos <= SPIPE_BUFSIZE
    /\ \A u \in PipeUsers :
          /\ call[u].at \in UnderLock => spipe_sem = {u}
          /\ call[u].at = "copy" /\ call[u].op = "write" => ~pipe_closed

\* A call goes on to a place under the lock, or has a byte less to copy.
LEMMA CallMoves ==
    ASSUME SpipeTypes, NEW u \in PipeUsers
    PROVE  /\ \A place \in UnderLock : Goes(u, place) =>
                 /\ call' \in [PipeUsers -> CallTypes]
                 /\ call'[u].at = place /\ call'[u].op = call[u].op
                 /\ \A v \in PipeUsers \ {u} : call'[v] = call[v]
           /\ call[u].left # 0 /\ call' = [call EXCEPT ![u].left = @ - 1] =>
                 /\ call' \in [PipeUsers -> CallTypes]
                 /\ call'[u].at = call[u].at /\ call'[u].op = call[u].op
                 /\ \A v \in PipeUsers \ {u} : call'[v] = call[v]
<1> USE DEF SpipeTypes, CallTypes
<1>1. ASSUME NEW place \in UnderLock, Goes(u, place)
      PROVE  /\ call' \in [PipeUsers -> CallTypes]
             /\ call'[u].at = place /\ call'[u].op = call[u].op
             /\ \A v \in PipeUsers \ {u} : call'[v] = call[v]
  BY <1>1 DEF Goes, UnderLock
<1>2. ASSUME call[u].left # 0, call' = [call EXCEPT ![u].left = @ - 1]
      PROVE  /\ call' \in [PipeUsers -> CallTypes]
             /\ call'[u].at = call[u].at /\ call'[u].op = call[u].op
             /\ \A v \in PipeUsers \ {u} : call'[v] = call[v]
  <2>1. call[u] \in CallTypes /\ call[u].left - 1 \in Nat
    BY <1>2
  <2>2. call'[u] = [call[u] EXCEPT !.left = @ - 1]
    BY <1>2
  <2>3. [call[u] EXCEPT !.left = @ - 1] \in CallTypes
    BY <2>1
  <2>4. QED
    BY <1>2, <2>2, <2>3
<1>3. QED
  BY <1>1, <1>2

\* Steps that leave the ring and the handles alone: nobody may come under the
\* lock who does not hold it, or start to copy where that is not allowed.
LEMMA CallsSafe ==
    ASSUME SpipeInv, UNCHANGED <<state_vars, close_vars>>, call' \in [PipeUsers -> CallTypes],
           \A v \in PipeUsers : call'[v].at \in UnderLock => spipe_sem' = {v},
           \A v \in PipeUsers : call'[v].at = "copy" =>
              HandleOf[v] \in opened /\ (call'[v].op = "write" => ~pipe_closed)
    PROVE  SpipeInv'
<1>1. SpipeTypes'
  BY DEF SpipeInv, SpipeTypes, state_vars, close_vars
<1>2. PipeIsFifo'
  BY DEF SpipeInv, PipeIsFifo, state_vars, close_vars
<1>3. QED
  BY <1>1, <1>2 DEF SpipeInv, state_vars, close_vars

LEMMA CloseSafe ==
    ASSUME SpipeInv, NEW u \in PipeUsers, call[u].at = "locked",
           NEW place \in UnderLock, Goes(u, place), UNCHANGED <<state_vars, spipe_sem>>,
           CloseHandle(HandleOf[u]), place # "copy"
    PROVE  SpipeInv'
<1> USE DEF SpipeInv, SpipeTypes, UnderLock, state_vars
<1>1. /\ call' \in [PipeUsers -> CallTypes] /\ call'[u].at = place
      /\ \A v \in PipeUsers : v # u => call'[v] = call[v] /\ call[v].at \notin UnderLock
  BY CallMoves
<1>2. pipe_closed' \in BOOLEAN /\ sealed' \in Nat /\ (pipe_closed' => p_wpos' = sealed')
      /\ (opened' # {HandleOf[v] : v \in PipeUsers} => pipe_closed')
  BY DEF CloseHandle, close_vars, PipeIsFifo
<1>3. PipeIsFifo'
  BY <1>1, <1>2 DEF PipeIsFifo
<1>4. QED
  BY <1>1, <1>2, <1>3

LEMMA LockedSafe ==
    ASSUME SpipeInv, NEW u \in PipeUsers, Locked(u)
    PROVE  SpipeInv'
<1> DEFINE place == IF call[u].op \in {"close", "isclosed"} \/ IsClosed(u) THEN "done"
                    ELSE IF call[u].op = "read" /\ p_rpos = p_wpos THEN "again" ELSE "copy"
           closes == call[u].op = "close" \/ (pipe_closed /\ p_rpos >= p_wpos)
<1>1. /\ call[u].at = "locked" /\ Goes(u, place) /\ UNCHANGED <<state_vars, spipe_sem>>
      /\ place \in UnderLock
      /\ IF closes THEN CloseHandle(HandleOf[u]) ELSE UNCHANGED close_vars
  BY DEF Locked, TestClosed, UnderLock
<1>2. p_rpos \in Nat /\ p_wpos \in Nat /\ p_rpos <= p_wpos /\ SpipeTypes
  BY DEF SpipeInv, SpipeTypes, PipeIsFifo
<1>3. CASE closes
  <2>1. place # "copy"
    BY <1>2, <1>3 DEF IsClosed
  <2> HIDE DEF place
  <2>2. QED
    BY <1>1, <1>3, <2>1, CloseSafe
<1>4. CASE ~closes
  <2>1. place = "copy" => HandleOf[u] \in opened /\ (call[u].op = "write" => ~pipe_closed)
    BY <1>2, <1>4 DEF IsClosed
  <2> HIDE DEF place
  <2>2. /\ call' \in [PipeUsers -> CallTypes] /\ call'[u].at = place /\ call'[u].op = call[u].op
        /\ \A v \in PipeUsers \ {u} : call'[v] = call[v]
    BY <1>1, <1>2, CallMoves
  <2>3. \A v \in PipeUsers : call[v].at \in UnderLock => v = u
    BY <1>1 DEF SpipeInv, UnderLock
  <2>4. \A v \in PipeUsers : call'[v].at \in UnderLock => spipe_sem' = {v}
    BY <1>1, <2>2, <2>3 DEF SpipeInv, UnderLock
  <2>5. \A v \in PipeUsers : call'[v].at = "copy" => v = u
    BY <2>2, <2>3 DEF UnderLock
  <2>6. QED
    BY <1>1, <1>4, <2>1, <2>2, <2>4, <2>5, CallsSafe
<1>5. QED
  BY <1>3, <1>4

\* Only the holder of the lock copies, and what it does next is done by it alone.
LEMMA Inside ==
    ASSUME SpipeInv, NEW u \in PipeUsers, call[u].at \in UnderLock
    PROVE  /\ spipe_sem = {u} /\ SpipeTypes /\ PipeIsFifo
           /\ \A v \in PipeUsers : call[v].at \in UnderLock => v = u
  BY DEF SpipeInv

LEMMA ReadSafe ==
    ASSUME SpipeInv, NEW u \in PipeUsers, ReadByte(u)
    PROVE  SpipeInv'
<1>1. /\ call[u].at = "copy" /\ call[u].op = "read" /\ call[u].at \in UnderLock
      /\ UNCHANGED <<p_wpos, ring, close_vars, spipe_sem>>
  BY DEF ReadByte, UnderLock
<1>2. CASE call[u].left = 0 \/ p_rpos = p_wpos
  <2>1. Goes(u, "done") /\ UNCHANGED <<state_vars, close_vars>> /\ "done" \in UnderLock
    BY <1>1, <1>2 DEF ReadByte, state_vars, UnderLock
  <2>2. /\ call' \in [PipeUsers -> CallTypes] /\ call'[u].at = "done"
        /\ \A v \in PipeUsers \ {u} : call'[v] = call[v]
    BY <1>1, <2>1, Inside, CallMoves
  <2>3. \A v \in PipeUsers : call'[v].at \in UnderLock => v = u
    BY <1>1, <2>2, Inside
  <2>4. QED
    BY <1>1, <2>1, <2>2, <2>3, Inside, CallsSafe DEF UnderLock
<1>3. CASE ~(call[u].left = 0 \/ p_rpos = p_wpos)
  <2>1. /\ got' = Append(got, ring[p_rpos % SPIPE_BUFSIZE]) /\ p_rpos' = p_rpos + 1
        /\ call' = [call EXCEPT ![u].left = @ - 1] /\ call[u].left # 0
    BY <1>3 DEF ReadByte
  <2>2. p_rpos \in Nat /\ p_wpos \in Nat /\ p_rpos < p_wpos
    BY <1>3 DEF SpipeInv, SpipeTypes, PipeIsFifo
  <2>3. ring[p_rpos % SPIPE_BUFSIZE] = p_rpos + 1
    BY <2>2 DEF SpipeInv, PipeIsFifo
  <2>4. got' = [i \in 1 .. p_rpos' |-> i]
    <3>1. got = [i \in 1 .. p_rpos |-> i] /\ got \in Seq(Nat) /\ Len(got) = p_rpos
      BY <2>2 DEF SpipeInv, PipeIsFifo
    <3>2. QED
      BY <2>1, <2>2, <2>3, <3>1
  <2>5. /\ call' \in [PipeUsers -> CallTypes]
        /\ call'[u].at = call[u].at /\ call'[u].op = call[u].op
        /\ \A v \in PipeUsers \ {u} : call'[v] = call[v]
    BY <1>1, <2>1, Inside, CallMoves
  <2>6. \A v \in PipeUsers : call'[v].at = call[v].at /\ call'[v].op = call[v].op
    BY <2>5
  <2>7. SpipeTypes'
    BY <1>1, <2>1, <2>2, <2>5, Inside DEF SpipeTypes, close_vars
  <2>8. PipeIsFifo'
    <3>1. \A i \in p_rpos' .. p_wpos' - 1 : i \in p_rpos .. p_wpos - 1
      BY <1>1, <2>1, <2>2
    <3>2. \A i \in p_rpos' .. p_wpos' - 1 : ring'[i % SPIPE_BUFSIZE] = i + 1
      BY <1>1, <3>1, Inside DEF PipeIsFifo
    <3>3. QED
      BY <1>1, <2>1, <2>2, <2>4, <2>6, <3>2, Inside DEF PipeIsFifo, close_vars
  <2>9. QED
    BY <1>1, <2>1, <2>2, <2>6, <2>7, <2>8, SpipeAssumption DEF SpipeInv, close_vars
<1>4. QED
  BY <1>2, <1>3

LEMMA WriteSafe ==
    ASSUME SpipeInv, NEW u \in PipeUsers, WriteByte(u)
    PROVE  SpipeInv'
<1>1. /\ call[u].at = "copy" /\ call[u].op = "write" /\ call[u].at \in UnderLock /\ ~pipe_closed
      /\ UNCHANGED <<p_rpos, got, close_vars, spipe_sem>>
  BY DEF WriteByte, UnderLock, SpipeInv
<1>2. CASE call[u].left = 0 \/ Full
  <2>1. PICK place \in {"done", "again"} : Goes(u, place)
    BY <1>2 DEF WriteByte
  <2>2. UNCHANGED <<state_vars, close_vars>> /\ place \in UnderLock
    BY <1>1, <1>2 DEF WriteByte, state_vars, UnderLock
  <2>3. /\ call' \in [PipeUsers -> CallTypes] /\ call'[u].at = place
        /\ \A v \in PipeUsers \ {u} : call'[v] = call[v]
    BY <1>1, <2>1, <2>2, Inside, CallMoves
  <2>4. \A v \in PipeUsers : call'[v].at \in UnderLock => v = u
    BY <1>1, <2>3, Inside
  <2>5. QED
    BY <1>1, <2>2, <2>3, <2>4, Inside, CallsSafe DEF UnderLock
<1>3. CASE call[u].left # 0 /\ ~Full
  <2>0. p_rpos \in Nat /\ p_wpos \in Nat /\ p_rpos <= p_wpos /\ SPIPE_BUFSIZE \in Nat \ {0}
    BY SpipeAssumption DEF SpipeInv, SpipeTypes, PipeIsFifo
  <2>1. /\ ring' = [ring EXCEPT ![p_wpos % SPIPE_BUFSIZE] = p_wpos + 1] /\ p_wpos' = p_wpos + 1
        /\ call' = [call EXCEPT ![u].left = @ - 1] /\ p_wpos - p_rpos < SPIPE_BUFSIZE
    BY <1>3, <2>0 DEF WriteByte, Full
  <2>2. /\ p_wpos % SPIPE_BUFSIZE \in 0 .. SPIPE_BUFSIZE - 1
        /\ ring \in [0 .. SPIPE_BUFSIZE - 1 -> Nat]
    BY <2>0, DivMod DEF SpipeInv, SpipeTypes
  <2>3. ASSUME NEW i \in p_rpos .. p_wpos' - 1 PROVE ring'[i % SPIPE_BUFSIZE] = i + 1
    <3>1. i \in Nat /\ i % SPIPE_BUFSIZE \in 0 .. SPIPE_BUFSIZE - 1
      BY <2>0, DivMod
    <3>2. CASE i = p_wpos
      BY <2>1, <2>2, <3>2
    <3>3. CASE i # p_wpos
      <4>1. i < p_wpos /\ p_wpos - i < SPIPE_BUFSIZE /\ i \in p_rpos .. p_wpos - 1
        BY <2>0, <2>1, <3>1, <3>3
      <4>2. i % SPIPE_BUFSIZE # p_wpos % SPIPE_BUFSIZE
        BY <2>0, <3>1, <4>1, PlacesDiffer
      <4>3. ring[i % SPIPE_BUFSIZE] = i + 1
        BY <4>1 DEF SpipeInv, PipeIsFifo
      <4>4. QED
        BY <2>1, <2>2, <3>1, <4>2, <4>3
    <3>4. QED
      BY <3>2, <3>3
  <2>4. /\ call' \in [PipeUsers -> CallTypes]
        /\ call'[u].at = call[u].at /\ call'[u].op = call[u].op
        /\ \A v \in PipeUsers \ {u} : call'[v] = call[v]
    BY <1>1, <2>1, <1>3, Inside, CallMoves
  <2>5. \A v \in PipeUsers : call'[v].at = call[v].at /\ call'[v].op = call[v].op
    BY <2>4
  <2>6. SpipeTypes'
    BY <1>1, <2>0, <2>1, <2>2, <2>4, Inside DEF SpipeTypes, close_vars
  <2>7. PipeIsFifo'
    BY <1>1, <2>0, <2>1, <2>3, <2>5, Inside DEF PipeIsFifo, close_vars
  <2>8. QED
    BY <1>1, <2>0, <2>1, <2>5, <2>6, <2>7 DEF SpipeInv, close_vars
<1>4. QED
  BY <1>2, <1>3

LEMMA SpipeInvInductive ==
    /\ SpipeInit => SpipeInv
    /\ SpipeInv /\ [SpipeNext]_spipe_vars => SpipeInv'
<1>1. ASSUME SpipeInit PROVE SpipeInv
  <2>1. SpipeTypes
    BY <1>1, SpipeAssumption DEF SpipeInit, SpipeTypes, NoCall, CallTypes
  <2>2. PipeIsFifo
    BY <1>1 DEF SpipeInit, PipeIsFifo, NoCall
  <2>3. QED
    BY <1>1, <2>1, <2>2, SpipeAssumption DEF SpipeInit, SpipeInv, NoCall, UnderLock
<1>2. ASSUME SpipeInv, [SpipeNext]_spipe_vars PROVE SpipeInv'
  <2>0. call \in [PipeUsers -> CallTypes]
    BY <1>2 DEF SpipeInv, SpipeTypes
  <2>1. ASSUME NEW u \in PipeUsers, NEW op \in {"read", "write", "close", "isclosed"}, NEW n \in Nat,
               SpipeCall(u, op, n)
        PROVE  SpipeInv'
    <3>1. /\ call' = [call EXCEPT ![u] = [at |-> "wait", op |-> op, left |-> n]]
          /\ UNCHANGED <<state_vars, close_vars, spipe_sem>>
      BY <2>1 DEF SpipeCall
    <3>2. [at |-> "wait", op |-> op, left |-> n] \in CallTypes
      BY DEF CallTypes
    <3>3. call' \in [PipeUsers -> CallTypes]
      BY <2>0, <3>1, <3>2
    <3>4. QED
      BY <1>2, <2>0, <3>1, <3>3, CallsSafe DEF SpipeInv, UnderLock, PipeIsFifo
  <2>2. ASSUME NEW u \in PipeUsers, TryAgain(u) PROVE SpipeInv'
    <3> DEFINE c == IF HandleOf[u] \in opened THEN [call[u] EXCEPT !.at = "wait"] ELSE NoCall
    <3>1. c \in CallTypes /\ c.at \in {"user", "wait"} /\ call' = [call EXCEPT ![u] = c]
      <4>1. call' = [call EXCEPT ![u] = c]
        BY <2>0, <2>2 DEF TryAgain
      <4>2. c \in CallTypes /\ c.at \in {"user", "wait"}
        BY <2>0 DEF CallTypes, NoCall
      <4>3. QED
        BY <4>1, <4>2
    <3> HIDE DEF c
    <3>2. UNCHANGED <<state_vars, close_vars, spipe_sem>>
      BY <2>2 DEF TryAgain
    <3>3. call' \in [PipeUsers -> CallTypes]
      BY <2>0, <3>1
    <3>4. QED
      BY <1>2, <2>0, <3>1, <3>2, <3>3, CallsSafe DEF SpipeInv, UnderLock, PipeIsFifo
  <2>3. ASSUME NEW u \in PipeUsers, SpipeLock(u) PROVE SpipeInv'
    <3>1. /\ spipe_sem = {} /\ spipe_sem' = {u} /\ Goes(u, "locked") /\ "locked" \in UnderLock
          /\ UNCHANGED <<state_vars, close_vars>>
      BY <2>3 DEF SpipeLock, UnderLock
    <3>2. /\ call' \in [PipeUsers -> CallTypes] /\ call'[u].at = "locked"
          /\ \A v \in PipeUsers \ {u} : call'[v] = call[v]
      BY <1>2, <3>1, CallMoves DEF SpipeInv
    <3>3. \A v \in PipeUsers : call[v].at \notin UnderLock
      BY <1>2, <3>1 DEF SpipeInv
    <3>4. QED
      BY <1>2, <3>1, <3>2, <3>3, CallsSafe DEF UnderLock
  <2>4. ASSUME NEW u \in PipeUsers, SpipeUnlock(u) PROVE SpipeInv'
    <3>1. PICK c : /\ c \in CallTypes /\ c.at \in {"user", "yield"} /\ call' = [call EXCEPT ![u] = c]
      <4>1. [call[u] EXCEPT !.at = "yield"] \in CallTypes /\ NoCall \in CallTypes
        BY <2>0 DEF CallTypes, NoCall
      <4>2. QED
        BY <2>0, <2>4, <4>1 DEF SpipeUnlock, Goes, NoCall, CallTypes
    <3>2. call[u].at \in UnderLock /\ UNCHANGED <<state_vars, close_vars>>
      BY <2>4 DEF SpipeUnlock, UnderLock
    <3>3. /\ call' \in [PipeUsers -> CallTypes]
          /\ \A v \in PipeUsers : call'[v].at \notin UnderLock
      BY <1>2, <2>0, <3>1, <3>2, Inside DEF UnderLock
    <3>4. QED
      BY <1>2, <3>2, <3>3, CallsSafe DEF UnderLock
  <2>5. ASSUME NEW h, SpipeKilled(h) PROVE SpipeInv'
    <3>1. /\ call' = [v \in PipeUsers |-> IF HandleOf[v] = h THEN [NoCall EXCEPT !.at = "gone"] ELSE call[v]]
          /\ UNCHANGED <<state_vars, close_vars, spipe_sem>>
      BY <2>5 DEF SpipeKilled
    <3>2. [NoCall EXCEPT !.at = "gone"] \in CallTypes /\ [NoCall EXCEPT !.at = "gone"].at = "gone"
      BY DEF NoCall, CallTypes
    <3> DEFINE gone == [NoCall EXCEPT !.at = "gone"]
    <3> HIDE DEF gone
    <3>3. /\ call' \in [PipeUsers -> CallTypes]
          /\ \A v \in PipeUsers : call'[v] = call[v] \/ call'[v].at = "gone"
      BY <2>0, <3>1, <3>2
    <3>4. QED
      BY <1>2, <3>1, <3>3, CallsSafe DEF SpipeInv, UnderLock, PipeIsFifo
  <2>6. CASE UNCHANGED spipe_vars
    BY <1>2, <2>0, <2>6, CallsSafe DEF spipe_vars, SpipeInv, PipeIsFifo, state_vars, close_vars
  <2>7. QED
    BY <1>2, <2>1, <2>2, <2>3, <2>4, <2>5, <2>6, LockedSafe, ReadSafe, WriteSafe DEF SpipeNext
<1>3. QED
  BY <1>1, <1>2

\* Whatever is written into a pipe is read, once and in order, and nothing is
\* written into a closed one, for a ring of any size and any number of users
\* that yield, close or are killed in the middle of their calls.
THEOREM PipesDeliver == SpipeSpec => []PipeIsFifo
<1>1. SpipeInv => PipeIsFifo
  BY DEF SpipeInv
<1>2. QED
  BY <1>1, SpipeInvInductive, PTL DEF SpipeSpec
-----------------------------------------------------------------------------
(* Resources *)

MakesChild == {"dup_sem_queue", "copy_mm", "link"}
Places == {"none", "run", "zombie", "copy_sem", "sem_queue_create", "load_icode", "ipc_sem_init"} \cup MakesChild
TaskRecord == [pc : Places, mm : Nat, queue : Nat]
ChildRecord == [mm : Nat, queue : Nat, flags : SUBSET {"CLONE_VM", "CLONE_SEM"}]
ResourceTypes ==
    task \in [Tasks -> TaskRecord] /\ child \in [Tasks -> ChildRecord] /\ waits \in [Tasks -> Nat]

\* What a process and the child it makes have, by the place it has reached.
Fits(pc, mm, semq, childs_mm, childs_queue) ==
    /\ pc \in {"none", "zombie", "sem_queue_create", "load_icode"} => mm = NULL
    /\ pc \in {"copy_sem"} \cup MakesChild => mm # NULL
    /\ mm # NULL \/ pc \in {"load_icode", "ipc_sem_init"} => semq # NULL
    /\ childs_queue # NULL <=> pc \in MakesChild
    /\ childs_mm # NULL <=> pc = "link"
HasByPlace ==
    \A p \in Tasks : Fits(task[p].pc, task[p].mm, task[p].queue, child[p].mm, child[p].queue)

MmsCounted ==
    /\ mm_count \in [DOMAIN mm_count -> Nat] /\ DOMAIN mm_count \subseteq MmIds
    /\ \A p \in Tasks : {task[p].mm, child[p].mm} \subseteq DOMAIN mm_count \cup {NULL}
    /\ \A m \in DOMAIN mm_count : mm_count[m] = Cardinality(Holders(m)) + Cardinality(Copies(m))
    /\ proc_mm_list = DOMAIN mm_count

\* The count of a list covers its zombies, too: they never put it.  A list that
\* is being filled belongs to one fork, which has the old one locked.
Keepers(q) == {p \in Tasks : task[p].queue = q}
Heirs(q) == {p \in Tasks : child[p].queue = q /\ task[p].pc # "dup_sem_queue"}
Queue == [count : Nat, sems : SUBSET SemIds, left : SUBSET SemIds, lock : Tasks \cup {NULL}]
QueuesCounted ==
    /\ sem_queue \in [DOMAIN sem_queue -> Queue]
    /\ DOMAIN sem_queue \subseteq QueueIds /\ IsFiniteSet(DOMAIN sem_queue)
    /\ \A p \in Tasks : {task[p].queue, child[p].queue} \subseteq DOMAIN sem_queue \cup {NULL}
    /\ \A q \in DOMAIN sem_queue : Cardinality(Keepers(q)) + Cardinality(Heirs(q)) <= sem_queue[q].count
    /\ \A p \in Tasks : task[p].pc = "dup_sem_queue" =>
          /\ \A r \in Tasks : /\ task[r].queue # child[p].queue
                              /\ r # p => child[r].queue # child[p].queue
          /\ sem_queue[task[p].queue].lock = p
          /\ sem_queue[task[p].queue].left \cap sem_queue[child[p].queue].sems = {}
    /\ \A q \in DOMAIN sem_queue :
          /\ sem_queue[q].left \subseteq sem_queue[q].sems
          /\ sem_queue[q].lock = NULL => sem_queue[q].left = {}

\* A process that waits for a semaphore finds it in its list, and valid.
ListsWith(s) == {q \in DOMAIN sem_queue : s \in sem_queue[q].sems}
SemsCounted ==
    /\ sem \in [DOMAIN sem -> [count : Nat, valid : BOOLEAN]] /\ DOMAIN sem \subseteq SemIds
    /\ \A q \in DOMAIN sem_queue : sem_queue[q].sems \subseteq DOMAIN sem
    /\ \A s \in DOMAIN sem : sem[s].count = Cardinality(ListsWith(s))
    /\ \A p \in Tasks : waits[p] # NULL =>
          /\ task[p].pc = "run" /\ task[p].queue # NULL
          /\ waits[p] \in sem_queue[task[p].queue].sems /\ sem[waits[p]].valid

ResourceInv == ResourceTypes /\ HasByPlace /\ MmsCounted /\ QueuesCounted /\ SemsCounted
\* How the number of elements changes with the membership of one.
LEMMA CountStep ==
    ASSUME NEW F \in SUBSET Tasks, NEW G \in SUBSET Tasks, NEW p \in Tasks, F \ {p} = G \ {p}
    PROVE  /\ Cardinality(F) \in Nat /\ Cardinality(G) \in Nat
           /\ Cardinality(G) = Cardinality(F) + (IF p \in G THEN 1 ELSE 0) - (IF p \in F THEN 1 ELSE 0)
<1>1. IsFiniteSet(F) /\ IsFiniteSet(G)
  BY FS_Subset, ResourcesAssumption
<1>2. /\ Cardinality(F) \in Nat /\ Cardinality(G) \in Nat /\ Cardinality(F \ {p}) \in Nat
      /\ IsFiniteSet(F \ {p})
  BY <1>1, FS_CardinalityType, FS_RemoveElement
<1>3. Cardinality(F) = Cardinality(F \ {p}) + (IF p \in F THEN 1 ELSE 0)
  <2>1. Cardinality(F \ {p}) = IF p \in F THEN Cardinality(F) - 1 ELSE Cardinality(F)
    BY <1>1, FS_RemoveElement
  <2>2. QED
    BY <2>1, <1>2
<1>4. Cardinality(G) = Cardinality(F \ {p}) + (IF p \in G THEN 1 ELSE 0)
  <2>1. Cardinality(G \ {p}) = IF p \in G THEN Cardinality(G) - 1 ELSE Cardinality(G)
    BY <1>1, FS_RemoveElement
  <2>2. Cardinality(G \ {p}) = Cardinality(F \ {p})
    OBVIOUS
  <2>3. QED
    BY <2>1, <2>2, <1>2
<1>5. QED
  BY <1>2, <1>3, <1>4

\* A count of one leaves nobody else.
LEMMA LastOne ==
    ASSUME NEW F \in SUBSET Tasks, NEW G \in SUBSET Tasks, NEW p \in F,
           Cardinality(F) + Cardinality(G) <= 1
    PROVE  F = {p} /\ G = {}
<1>1. IsFiniteSet(F) /\ IsFiniteSet(G) /\ Cardinality(F) \in Nat /\ Cardinality(G) \in Nat
  BY FS_Subset, FS_CardinalityType, ResourcesAssumption
<1>2. Cardinality(F \ {p}) = Cardinality(F) - 1 /\ IsFiniteSet(F \ {p}) /\ Cardinality(F \ {p}) \in Nat
  BY <1>1, FS_RemoveElement, FS_CardinalityType
<1>3. Cardinality(F \ {p}) = 0 /\ Cardinality(G) = 0
  BY <1>1, <1>2
<1>4. F \ {p} = {} /\ G = {}
  BY <1>1, <1>2, <1>3, FS_EmptySet
<1>5. QED
  BY <1>4

PutSemsOk(s, sems) ==
    /\ PutSems(s, sems) \in [DOMAIN PutSems(s, sems) -> [count : Nat, valid : BOOLEAN]]
    /\ DOMAIN PutSems(s, sems) \subseteq DOMAIN s
    /\ \A i \in DOMAIN s : i \in DOMAIN PutSems(s, sems) <=> s[i].count # (IF i \in sems THEN 1 ELSE 0)
    /\ \A i \in DOMAIN PutSems(s, sems) :
          /\ PutSems(s, sems)[i].count = s[i].count - (IF i \in sems THEN 1 ELSE 0)
          /\ PutSems(s, sems)[i].valid = s[i].valid
LEMMA PutSemsFacts ==
    ASSUME NEW s, NEW sems, s \in [DOMAIN s -> [count : Nat, valid : BOOLEAN]],
           \A i \in DOMAIN s : i \in sems => s[i].count > 0
    PROVE  PutSemsOk(s, sems)
<1> DEFINE less == [i \in DOMAIN s |-> IF i \in sems THEN [s[i] EXCEPT !.count = @ - 1] ELSE s[i]]
           zero == {i \in DOMAIN less : less[i].count = 0}
<1>1. /\ DOMAIN less = DOMAIN s
      /\ \A i \in DOMAIN s : /\ less[i] \in [count : Nat, valid : BOOLEAN] /\ less[i].valid = s[i].valid
                             /\ less[i].count = s[i].count - (IF i \in sems THEN 1 ELSE 0)
  OBVIOUS
<1>2. PutSems(s, sems) = Drop(less, zero)
  BY DEF PutSems
<1> HIDE DEF less, zero
<1>3. /\ DOMAIN PutSems(s, sems) = DOMAIN less \ zero
      /\ \A i \in DOMAIN less \ zero : PutSems(s, sems)[i] = less[i]
      /\ PutSems(s, sems) = [j \in DOMAIN PutSems(s, sems) |-> PutSems(s, sems)[j]]
  BY <1>2 DEF Drop
<1>4. QED
  BY <1>1, <1>3 DEF PutSemsOk, zero

\* The address spaces: steps that leave them alone, and the four that do not.
LEMMA MmKept ==
    ASSUME MmsCounted, UNCHANGED <<mm_count, proc_mm_list>>,
           \A r \in Tasks : task'[r].mm = task[r].mm /\ child'[r].mm = child[r].mm
    PROVE  MmsCounted'
<1>1. \A m : Holders(m)' = Holders(m) /\ Copies(m)' = Copies(m)
  BY DEF Holders, Copies
<1>2. QED
  BY <1>1 DEF MmsCounted

LEMMA MmPut ==
    ASSUME MmsCounted, NEW p \in Tasks, PutMm(task[p].mm), task'[p].mm = NULL,
           \A r \in Tasks \ {p} : task'[r].mm = task[r].mm,
           \A r \in Tasks : child'[r].mm = child[r].mm
    PROVE  MmsCounted'
<1> USE ResourcesAssumption
<1>1. CASE task[p].mm = NULL
  <2>1. UNCHANGED <<mm_count, proc_mm_list>> /\ \A r \in Tasks : task'[r].mm = task[r].mm
    BY <1>1 DEF PutMm
  <2>2. QED
    BY <2>1, MmKept
<1>2. CASE task[p].mm # NULL
  <2>0. PICK m : m = task[p].mm
    OBVIOUS
  <2>1. m \in DOMAIN mm_count /\ NULL \notin DOMAIN mm_count
    BY <1>2, <2>0 DEF MmsCounted, NULL
  <2>2. \A i : /\ Copies(i)' = Copies(i) /\ Holders(i) \in SUBSET Tasks /\ Copies(i) \in SUBSET Tasks
               /\ i # m /\ i # NULL => Holders(i)' = Holders(i)
    BY <2>0 DEF Holders, Copies
  <2>3. /\ Holders(m)' \in SUBSET Tasks /\ p \in Holders(m) /\ p \notin Holders(m)'
        /\ Holders(m) \ {p} = Holders(m)' \ {p}
    BY <1>2, <2>0 DEF Holders
  <2> DEFINE h == Cardinality(Holders(m))
             c == Cardinality(Copies(m))
  <2>4. h \in Nat /\ Cardinality(Holders(m)') = h - 1 /\ Cardinality(Holders(m)') \in Nat /\ c \in Nat
    <3>1. c \in Nat
      BY <2>2, CountStep
    <3>2. QED
      BY <2>2, <2>3, <3>1, CountStep
  <2>5. mm_count[m] = h + c
    BY <2>1 DEF MmsCounted
  <2>6. CASE mm_count[m] > 1
    <3>1. /\ mm_count' = [mm_count EXCEPT ![m] = @ - 1] /\ proc_mm_list' = proc_mm_list
      BY <1>2, <2>0, <2>6 DEF PutMm
    <3>2. /\ DOMAIN mm_count' = DOMAIN mm_count /\ mm_count'[m] = mm_count[m] - 1
          /\ \A i \in DOMAIN mm_count : i # m => mm_count'[i] = mm_count[i]
          /\ mm_count' \in [DOMAIN mm_count' -> Nat]
      BY <2>1, <2>4, <2>5, <2>6, <3>1 DEF MmsCounted
    <3>3. ASSUME NEW i \in DOMAIN mm_count'
          PROVE  mm_count'[i] = Cardinality(Holders(i)') + Cardinality(Copies(i)')
      <4>1. CASE i = m
        BY <2>2, <2>4, <2>5, <3>2, <4>1
      <4>2. CASE i # m
        BY <2>1, <2>2, <3>2, <4>2 DEF MmsCounted
      <4>3. QED
        BY <4>1, <4>2
    <3>4. \A r \in Tasks : {task'[r].mm, child'[r].mm} \subseteq DOMAIN mm_count' \cup {NULL}
      BY <3>2 DEF MmsCounted
    <3>5. QED
      BY <3>1, <3>2, <3>3, <3>4 DEF MmsCounted
  <2>7. CASE ~(mm_count[m] > 1)
    <3>1. /\ mm_count' = Drop(mm_count, {m}) /\ proc_mm_list' = proc_mm_list \ {m}
      BY <1>2, <2>0, <2>7 DEF PutMm
    <3>2. /\ DOMAIN mm_count' = DOMAIN mm_count \ {m}
          /\ \A i \in DOMAIN mm_count' : mm_count'[i] = mm_count[i]
          /\ mm_count' \in [DOMAIN mm_count' -> Nat]
      BY <3>1 DEF MmsCounted, Drop
    <3>3. Holders(m) = {p} /\ Copies(m) = {}
      <4>1. h + c <= 1
        BY <2>4, <2>5, <2>7
      <4>2. QED
        BY <2>2, <2>3, <4>1, LastOne
    <3>4. \A r \in Tasks : {task'[r].mm, child'[r].mm} \subseteq DOMAIN mm_count' \cup {NULL}
      BY <2>0, <3>2, <3>3 DEF MmsCounted, Holders, Copies
    <3>5. ASSUME NEW i \in DOMAIN mm_count'
          PROVE  mm_count'[i] = Cardinality(Holders(i)') + Cardinality(Copies(i)')
      BY <2>1, <2>2, <3>2 DEF MmsCounted
    <3>6. QED
      BY <3>1, <3>2, <3>4, <3>5 DEF MmsCounted
  <2>8. QED
    BY <2>6, <2>7
<1>3. QED
  BY <1>1, <1>2

\* A process, or the child it makes, gets an address space of its own or one
\* that is counted once more.
MmGained(m) ==
    /\ \/ m \notin DOMAIN mm_count /\ mm_count' = Put(mm_count, m, 1)
       \/ m \in DOMAIN mm_count /\ mm_count' = [mm_count EXCEPT ![m] = @ + 1]
    /\ proc_mm_list' = proc_mm_list \cup {m}
LEMMA MmGet ==
    ASSUME MmsCounted, NEW p \in Tasks, NEW m \in MmIds, MmGained(m),
           \/ /\ task[p].mm = NULL /\ task'[p].mm = m /\ child'[p].mm = child[p].mm
           \/ /\ child[p].mm = NULL /\ child'[p].mm = m /\ task'[p].mm = task[p].mm,
           \A r \in Tasks \ {p} : task'[r].mm = task[r].mm /\ child'[r].mm = child[r].mm
    PROVE  MmsCounted'
<1> USE ResourcesAssumption DEF MmGained
<1>1. NULL \notin DOMAIN mm_count /\ m # NULL
  BY DEF MmsCounted, NULL
<1>2. \A i : /\ Holders(i) \in SUBSET Tasks /\ Copies(i) \in SUBSET Tasks
             /\ i # m /\ i # NULL => Holders(i)' = Holders(i) /\ Copies(i)' = Copies(i)
  BY DEF Holders, Copies
<1>3. /\ Holders(m)' \in SUBSET Tasks /\ Holders(m)' \ {p} = Holders(m) \ {p}
      /\ Copies(m)' \in SUBSET Tasks /\ Copies(m)' \ {p} = Copies(m) \ {p}
      /\ \/ p \in Holders(m)' /\ p \notin Holders(m) /\ Copies(m)' = Copies(m)
         \/ p \in Copies(m)' /\ p \notin Copies(m) /\ Holders(m)' = Holders(m)
  BY <1>1 DEF Holders, Copies
<1>4. /\ Cardinality(Holders(m)) \in Nat /\ Cardinality(Copies(m)) \in Nat
      /\ Cardinality(Holders(m)') + Cardinality(Copies(m)')
            = Cardinality(Holders(m)) + Cardinality(Copies(m)) + 1
  <2>1. Cardinality(Holders(m)) \in Nat /\ Cardinality(Copies(m)) \in Nat
    BY <1>2, CountStep
  <2>2. CASE p \in Holders(m)' /\ p \notin Holders(m) /\ Copies(m)' = Copies(m)
    <3>1. Cardinality(Holders(m)') = Cardinality(Holders(m)) + 1
      BY <1>2, <1>3, <2>2, CountStep
    <3>2. QED
      BY <2>1, <2>2, <3>1
  <2>3. CASE p \in Copies(m)' /\ p \notin Copies(m) /\ Holders(m)' = Holders(m)
    <3>1. Cardinality(Copies(m)') = Cardinality(Copies(m)) + 1
      BY <1>2, <1>3, <2>3, CountStep
    <3>2. QED
      BY <2>1, <2>3, <3>1
  <2>4. QED
    BY <1>3, <2>1, <2>2, <2>3
<1>5. /\ DOMAIN mm_count' = DOMAIN mm_count \cup {m} /\ mm_count' \in [DOMAIN mm_count' -> Nat]
      /\ mm_count'[m] = IF m \in DOMAIN mm_count THEN mm_count[m] + 1 ELSE 1
      /\ \A i \in DOMAIN mm_count : i # m => mm_count'[i] = mm_count[i]
  <2>1. CASE m \in DOMAIN mm_count
    <3>1. mm_count' = [mm_count EXCEPT ![m] = mm_count[m] + 1] /\ mm_count[m] + 1 \in Nat
      BY <2>1 DEF MmsCounted
    <3>2. QED
      BY <2>1, <3>1 DEF MmsCounted
  <2>2. CASE m \notin DOMAIN mm_count
    BY <2>2 DEF MmsCounted, Put
  <2>3. QED
    BY <2>1, <2>2
<1>6. m \notin DOMAIN mm_count => Cardinality(Holders(m)) = 0 /\ Cardinality(Copies(m)) = 0
  <2>1. m \notin DOMAIN mm_count => Holders(m) = {} /\ Copies(m) = {}
    BY <1>1 DEF MmsCounted, Holders, Copies
  <2>2. QED
    BY <2>1, FS_EmptySet
<1>7. ASSUME NEW i \in DOMAIN mm_count'
      PROVE  mm_count'[i] = Cardinality(Holders(i)') + Cardinality(Copies(i)')
  <2>1. CASE i = m
    BY <1>4, <1>5, <1>6, <2>1 DEF MmsCounted
  <2>2. CASE i # m
    BY <1>1, <1>2, <1>5, <2>2 DEF MmsCounted
  <2>3. QED
    BY <2>1, <2>2
<1>8. \A r \in Tasks : {task'[r].mm, child'[r].mm} \subseteq DOMAIN mm_count' \cup {NULL}
  BY <1>5 DEF MmsCounted
<1>9. QED
  BY <1>5, <1>7, <1>8 DEF MmsCounted

LEMMA MmHandedOn ==
    ASSUME MmsCounted, NEW p \in Tasks, NEW c \in Tasks, UNCHANGED <<mm_count, proc_mm_list>>,
           task[c].mm = NULL, task'[c].mm = child[p].mm, child'[p].mm = NULL, child[p].mm # NULL,
           \A r \in Tasks \ {c} : task'[r].mm = task[r].mm,
           \A r \in Tasks \ {p} : child'[r].mm = child[r].mm
    PROVE  MmsCounted'
<1>0. PICK m : m = child[p].mm
  OBVIOUS
<1>1. NULL \notin DOMAIN mm_count /\ m # NULL
  BY <1>0, ResourcesAssumption DEF MmsCounted, NULL
<1>2. \A i : /\ Holders(i) \in SUBSET Tasks /\ Copies(i) \in SUBSET Tasks
             /\ i # m /\ i # NULL => Holders(i)' = Holders(i) /\ Copies(i)' = Copies(i)
  BY <1>0 DEF Holders, Copies
<1>3. /\ Holders(m)' \in SUBSET Tasks /\ Holders(m)' \ {c} = Holders(m) \ {c}
      /\ Copies(m)' \in SUBSET Tasks /\ Copies(m)' \ {p} = Copies(m) \ {p}
      /\ c \in Holders(m)' /\ c \notin Holders(m) /\ p \notin Copies(m)' /\ p \in Copies(m)
  BY <1>0, <1>1 DEF Holders, Copies
<1>4. /\ Cardinality(Holders(m)') = Cardinality(Holders(m)) + 1
      /\ Cardinality(Copies(m)') = Cardinality(Copies(m)) - 1
      /\ Cardinality(Holders(m)) \in Nat /\ Cardinality(Copies(m)) \in Nat
  BY <1>2, <1>3, CountStep
<1>5. ASSUME NEW i \in DOMAIN mm_count'
      PROVE  mm_count'[i] = Cardinality(Holders(i)') + Cardinality(Copies(i)')
  <2>1. CASE i = m
    BY <1>4, <2>1 DEF MmsCounted
  <2>2. CASE i # m
    BY <1>1, <1>2, <2>2 DEF MmsCounted
  <2>3. QED
    BY <2>1, <2>2
<1>6. \A r \in Tasks : {task'[r].mm, child'[r].mm} \subseteq DOMAIN mm_count' \cup {NULL}
  BY DEF MmsCounted
<1>7. QED
  BY <1>5, <1>6 DEF MmsCounted

\* The lists of semaphores.  Most steps leave the counts and the locks alone and
\* give no list to anybody.
Dups(r) == task[r].pc = "dup_sem_queue"
LEMMA QueueKept ==
    ASSUME QueuesCounted, DOMAIN sem_queue' = DOMAIN sem_queue,
           sem_queue' \in [DOMAIN sem_queue' -> Queue],
           \A q \in DOMAIN sem_queue :
              /\ sem_queue'[q].count = sem_queue[q].count /\ sem_queue'[q].lock = sem_queue[q].lock
              /\ sem_queue'[q].left \subseteq sem_queue'[q].sems
              /\ sem_queue'[q].lock = NULL => sem_queue'[q].left = {},
           \A r \in Tasks :
              /\ child'[r].queue = child[r].queue /\ (Dups(r)' <=> Dups(r))
              /\ task'[r].queue # task[r].queue => task'[r].queue = NULL /\ ~Dups(r)
              /\ Dups(r) => /\ child[r].queue # NULL /\ task[r].queue # NULL
                            /\ sem_queue'[task[r].queue].left \cap sem_queue'[child[r].queue].sems = {}
    PROVE  QueuesCounted'
<1> USE ResourcesAssumption
<1>0. NULL \notin DOMAIN sem_queue
  BY DEF QueuesCounted, NULL
<1>1. ASSUME NEW q \in DOMAIN sem_queue'
      PROVE  Cardinality(Keepers(q)') + Cardinality(Heirs(q)') <= sem_queue'[q].count
  <2>1. /\ Heirs(q)' = Heirs(q) /\ Keepers(q)' \in SUBSET Keepers(q)
        /\ Keepers(q) \in SUBSET Tasks /\ Heirs(q) \in SUBSET Tasks
    BY <1>0 DEF Keepers, Heirs, Dups
  <2>2. /\ IsFiniteSet(Keepers(q)) /\ IsFiniteSet(Keepers(q)') /\ IsFiniteSet(Heirs(q))
        /\ Cardinality(Keepers(q)') <= Cardinality(Keepers(q))
    BY <2>1, FS_Subset
  <2>3. Cardinality(Keepers(q)') \in Nat /\ Cardinality(Keepers(q)) \in Nat /\ Cardinality(Heirs(q)) \in Nat
    BY <2>2, FS_CardinalityType
  <2>4. /\ Cardinality(Keepers(q)) + Cardinality(Heirs(q)) <= sem_queue[q].count
        /\ sem_queue[q].count \in Nat /\ sem_queue'[q].count = sem_queue[q].count
    BY DEF QueuesCounted, Queue
  <2>5. QED
    BY <2>1, <2>2, <2>3, <2>4
<1>2. \A r \in Tasks : {task'[r].queue, child'[r].queue} \subseteq DOMAIN sem_queue' \cup {NULL}
  BY DEF QueuesCounted
<1>3. ASSUME NEW r \in Tasks, Dups(r)'
      PROVE  /\ \A t \in Tasks : /\ task'[t].queue # child'[r].queue
                                 /\ t # r => child'[t].queue # child'[r].queue
             /\ sem_queue'[task'[r].queue].lock = r
             /\ sem_queue'[task'[r].queue].left \cap sem_queue'[child'[r].queue].sems = {}
  <2>1. Dups(r) /\ task'[r].queue = task[r].queue /\ child'[r].queue = child[r].queue
    BY <1>3
  <2>2. task[r].queue \in DOMAIN sem_queue /\ sem_queue'[task'[r].queue].lock = r
    BY <2>1 DEF QueuesCounted, Dups
  <2>3. ASSUME NEW t \in Tasks
        PROVE  task'[t].queue # child'[r].queue /\ (t # r => child'[t].queue # child'[r].queue)
    BY <2>1 DEF QueuesCounted, Dups
  <2>4. QED
    BY <2>1, <2>2, <2>3
<1>4. QED
  BY <1>1, <1>2, <1>3 DEF QueuesCounted, Dups

\* Whoever keeps or inherits a list is counted: the sets and their sizes.
LEMMA QueueSets ==
    ASSUME NEW q
    PROVE  /\ Keepers(q) \in SUBSET Tasks /\ Heirs(q) \in SUBSET Tasks
           /\ Keepers(q)' \in SUBSET Tasks /\ Heirs(q)' \in SUBSET Tasks
           /\ Cardinality(Keepers(q)) \in Nat /\ Cardinality(Heirs(q)) \in Nat
           /\ Cardinality(Keepers(q)') \in Nat /\ Cardinality(Heirs(q)') \in Nat
<1>1. /\ Keepers(q) \in SUBSET Tasks /\ Heirs(q) \in SUBSET Tasks
      /\ Keepers(q)' \in SUBSET Tasks /\ Heirs(q)' \in SUBSET Tasks
  BY DEF Keepers, Heirs
<1>2. /\ IsFiniteSet(Keepers(q)) /\ IsFiniteSet(Heirs(q))
      /\ IsFiniteSet(Keepers(q)') /\ IsFiniteSet(Heirs(q)')
  BY <1>1, FS_Subset, ResourcesAssumption
<1>3. QED
  BY <1>1, <1>2, FS_CardinalityType

Outside(p) == ~Dups(p) /\ ~Dups(p)'
OthersStay(p) ==
    \A r \in Tasks \ {p} : /\ task'[r].queue = task[r].queue /\ child'[r].queue = child[r].queue
                           /\ Dups(r)' <=> Dups(r)
DupsHaveBoth == \A r \in Tasks : Dups(r) => child[r].queue # NULL /\ task[r].queue # NULL

\* One more gets a list: a new one, or one that is counted once more.
NobodyFills(q) == \A r \in Tasks : Dups(r) => child[r].queue # q
Joins(p, q) ==
    \/ task'[p].queue = q /\ child'[p].queue = child[p].queue
    \/ child'[p].queue = q /\ task'[p].queue = task[p].queue
QueueGained(q) ==
    \/ /\ q \notin DOMAIN sem_queue
       /\ sem_queue' = Put(sem_queue, q, [count |-> 1, sems |-> {}, left |-> {}, lock |-> NULL])
    \/ q \in DOMAIN sem_queue /\ sem_queue' = [sem_queue EXCEPT ![q].count = @ + 1]
LEMMA QueueGet ==
    ASSUME QueuesCounted, NEW p \in Tasks, NEW q \in QueueIds, Outside(p), QueueGained(q),
           Joins(p, q), OthersStay(p), DupsHaveBoth, NobodyFills(q)
    PROVE  QueuesCounted'
<1> USE ResourcesAssumption DEF QueueGained, Outside, OthersStay, DupsHaveBoth, NobodyFills, Joins
<1>0. NULL \notin DOMAIN sem_queue /\ q # NULL
  BY DEF QueuesCounted, NULL
<1>1. /\ DOMAIN sem_queue' = DOMAIN sem_queue \cup {q} /\ sem_queue' \in [DOMAIN sem_queue' -> Queue]
      /\ sem_queue'[q].count = IF q \in DOMAIN sem_queue THEN sem_queue[q].count + 1 ELSE 1
      /\ q \notin DOMAIN sem_queue => sem_queue'[q].left = {} /\ sem_queue'[q].sems = {}
      /\ \A i \in DOMAIN sem_queue : /\ i # q => sem_queue'[i] = sem_queue[i]
                                     /\ sem_queue'[i].sems = sem_queue[i].sems
                                     /\ sem_queue'[i].left = sem_queue[i].left
                                     /\ sem_queue'[i].lock = sem_queue[i].lock
  <2>1. CASE q \in DOMAIN sem_queue
    <3>1. sem_queue[q] \in Queue /\ sem_queue' = [sem_queue EXCEPT ![q].count = @ + 1]
      BY <2>1 DEF QueuesCounted
    <3>2. [sem_queue[q] EXCEPT !.count = @ + 1] \in Queue
      BY <3>1 DEF Queue
    <3>3. PICK x \in Queue : sem_queue' = [sem_queue EXCEPT ![q] = x]
             /\ x.count = sem_queue[q].count + 1 /\ x.sems = sem_queue[q].sems
             /\ x.left = sem_queue[q].left /\ x.lock = sem_queue[q].lock
      BY <3>1, <3>2 DEF Queue
    <3>4. /\ DOMAIN sem_queue' = DOMAIN sem_queue /\ sem_queue'[q] = x
          /\ \A i \in DOMAIN sem_queue : i # q => sem_queue'[i] = sem_queue[i]
      BY <2>1, <3>3
    <3>5. sem_queue' \in [DOMAIN sem_queue' -> Queue]
      BY <3>3, <3>4 DEF QueuesCounted
    <3>6. QED
      BY <2>1, <3>3, <3>4, <3>5, ZenonT(40)
  <2>2. CASE q \notin DOMAIN sem_queue
    BY <2>2 DEF QueuesCounted, Queue, Put
  <2>3. QED
    BY <2>1, <2>2
<1>2. IsFiniteSet(DOMAIN sem_queue') /\ DOMAIN sem_queue' \subseteq QueueIds
  BY <1>1, FS_AddElement DEF QueuesCounted
<1>3. \A r \in Tasks : {task'[r].queue, child'[r].queue} \subseteq DOMAIN sem_queue' \cup {NULL}
  BY <1>1 DEF QueuesCounted
<1>4. ASSUME NEW i \in DOMAIN sem_queue'
      PROVE  Cardinality(Keepers(i)') + Cardinality(Heirs(i)') <= sem_queue'[i].count
  <2>1. /\ Keepers(i)' \ {p} = Keepers(i) \ {p} /\ Heirs(i)' \ {p} = Heirs(i) \ {p}
        /\ i # q => (p \in Keepers(i)' => p \in Keepers(i)) /\ (p \in Heirs(i)' => p \in Heirs(i))
        /\ \/ p \in Keepers(i)' => p \in Keepers(i)
           \/ p \in Heirs(i)' => p \in Heirs(i)
    BY DEF Keepers, Heirs, Dups
  <2>2. /\ Cardinality(Keepers(i)') + Cardinality(Heirs(i)')
             <= Cardinality(Keepers(i)) + Cardinality(Heirs(i)) + (IF i = q THEN 1 ELSE 0)
    <3>1. Cardinality(Keepers(i)') <= Cardinality(Keepers(i))
              + (IF p \in Keepers(i)' /\ p \notin Keepers(i) THEN 1 ELSE 0)
      BY <2>1, QueueSets, CountStep
    <3>2. Cardinality(Heirs(i)') <= Cardinality(Heirs(i))
              + (IF p \in Heirs(i)' /\ p \notin Heirs(i) THEN 1 ELSE 0)
      BY <2>1, QueueSets, CountStep
    <3>3. QED
      BY <2>1, <3>1, <3>2, QueueSets
  <2>3. CASE i \in DOMAIN sem_queue
    BY <1>1, <2>2, <2>3, QueueSets DEF QueuesCounted, Queue
  <2>4. CASE i \notin DOMAIN sem_queue
    <3>1. i = q /\ Keepers(i) = {} /\ Heirs(i) = {}
      BY <1>0, <1>1, <2>4 DEF QueuesCounted, Keepers, Heirs
    <3>2. QED
      BY <1>1, <2>2, <2>4, <3>1, FS_EmptySet, QueueSets
  <2>5. QED
    BY <2>3, <2>4
<1>5. ASSUME NEW r \in Tasks, Dups(r)'
      PROVE  /\ \A t \in Tasks : /\ task'[t].queue # child'[r].queue
                                 /\ t # r => child'[t].queue # child'[r].queue
             /\ sem_queue'[task'[r].queue].lock = r
             /\ sem_queue'[task'[r].queue].left \cap sem_queue'[child'[r].queue].sems = {}
  <2>1. r # p /\ Dups(r) /\ task'[r].queue = task[r].queue /\ child'[r].queue = child[r].queue
    BY <1>5
  <2>2. /\ task[r].queue \in DOMAIN sem_queue /\ child[r].queue \in DOMAIN sem_queue
        /\ child[r].queue # q
    BY <2>1 DEF QueuesCounted
  <2>3. ASSUME NEW t \in Tasks
        PROVE  task'[t].queue # child'[r].queue /\ (t # r => child'[t].queue # child'[r].queue)
    BY <2>1, <2>2 DEF QueuesCounted, Dups
  <2>4. /\ sem_queue[task[r].queue].lock = r
        /\ sem_queue[task[r].queue].left \cap sem_queue[child[r].queue].sems = {}
    BY <2>1 DEF QueuesCounted, Dups
  <2>5. QED
    BY <1>1, <2>1, <2>2, <2>3, <2>4
<1>6. \A i \in DOMAIN sem_queue' : /\ sem_queue'[i].left \subseteq sem_queue'[i].sems
                                   /\ sem_queue'[i].lock = NULL => sem_queue'[i].left = {}
  BY <1>1 DEF QueuesCounted
<1>7. QED
  BY <1>1, <1>2, <1>3, <1>4, <1>5, <1>6 DEF QueuesCounted, Dups

\* A list given up by a process, or by a fork that fails: the last one to do so
\* is the last one that had it.
Leaves(p, q) ==
    \/ task[p].queue = q /\ task'[p].queue = NULL /\ child'[p].queue = child[p].queue
    \/ child[p].queue = q /\ child'[p].queue = NULL /\ task'[p].queue = task[p].queue
QueueLost(q) ==
    IF sem_queue[q].count > 1 THEN sem_queue' = [sem_queue EXCEPT ![q].count = @ - 1]
    ELSE sem_queue' = Drop(sem_queue, {q})
LEMMA QueuePut ==
    ASSUME QueuesCounted, NEW p \in Tasks, NEW q \in DOMAIN sem_queue, Outside(p), QueueLost(q),
           Leaves(p, q), OthersStay(p), DupsHaveBoth
    PROVE  /\ QueuesCounted'
           /\ sem_queue[q].count <= 1 => \A r \in Tasks : task'[r].queue # q
           /\ DOMAIN sem_queue' = DOMAIN sem_queue \ (IF sem_queue[q].count > 1 THEN {} ELSE {q})
           /\ \A i \in DOMAIN sem_queue' : sem_queue'[i].sems = sem_queue[i].sems
<1> USE ResourcesAssumption DEF QueueLost, Outside, OthersStay, DupsHaveBoth, Leaves
<1>0. NULL \notin DOMAIN sem_queue /\ sem_queue[q].count \in Nat
  BY DEF QueuesCounted, NULL, Queue
<1>1. /\ Keepers(q)' \ {p} = Keepers(q) \ {p} /\ Heirs(q)' \ {p} = Heirs(q) \ {p}
      /\ \/ p \in Keepers(q) /\ p \notin Keepers(q)' /\ Heirs(q)' = Heirs(q)
         \/ p \in Heirs(q) /\ p \notin Heirs(q)' /\ Keepers(q)' = Keepers(q)
      /\ \A i : i \notin {q, NULL} => Keepers(i)' = Keepers(i) /\ Heirs(i)' = Heirs(i)
  BY <1>0 DEF Keepers, Heirs, Dups
<1>2. Cardinality(Keepers(q)) + Cardinality(Heirs(q)) <= sem_queue[q].count
  BY DEF QueuesCounted
<1>3. ASSUME NEW r \in Tasks, Dups(r)'
      PROVE  /\ r # p /\ Dups(r) /\ task'[r].queue = task[r].queue /\ child'[r].queue = child[r].queue
             /\ task[r].queue \in DOMAIN sem_queue /\ child[r].queue \in DOMAIN sem_queue
             /\ child[r].queue # q
             /\ \A t \in Tasks : /\ task'[t].queue # child'[r].queue
                                 /\ t # r => child'[t].queue # child'[r].queue
             /\ sem_queue[task[r].queue].lock = r
             /\ sem_queue[task[r].queue].left \cap sem_queue[child[r].queue].sems = {}
  <2>1. r # p /\ Dups(r) /\ task'[r].queue = task[r].queue /\ child'[r].queue = child[r].queue
    BY <1>3
  <2>2. child[r].queue # q
    BY <2>1 DEF QueuesCounted, Dups
  <2>3. task[r].queue \in DOMAIN sem_queue /\ child[r].queue \in DOMAIN sem_queue
    BY <2>1 DEF QueuesCounted
  <2>4. ASSUME NEW t \in Tasks
        PROVE  task'[t].queue # child'[r].queue /\ (t # r => child'[t].queue # child'[r].queue)
    BY <1>0, <2>1, <2>3 DEF QueuesCounted, Dups
  <2>5. QED
    BY <2>1, <2>2, <2>3, <2>4 DEF QueuesCounted, Dups
<1>4. CASE sem_queue[q].count > 1
  <2>1. PICK x \in Queue : sem_queue' = [sem_queue EXCEPT ![q] = x]
           /\ x.count = sem_queue[q].count - 1 /\ x.sems = sem_queue[q].sems
           /\ x.left = sem_queue[q].left /\ x.lock = sem_queue[q].lock
    <3>1. sem_queue[q] \in Queue
      BY DEF QueuesCounted
    <3>2. [sem_queue[q] EXCEPT !.count = @ - 1] \in Queue
      BY <1>4, <3>1 DEF Queue
    <3>3. QED
      BY <1>4, <3>1, <3>2 DEF Queue
  <2>2. /\ DOMAIN sem_queue' = DOMAIN sem_queue /\ sem_queue'[q] = x
        /\ \A i \in DOMAIN sem_queue : i # q => sem_queue'[i] = sem_queue[i]
    BY <2>1
  <2>3. sem_queue' \in [DOMAIN sem_queue' -> Queue]
    BY <2>1, <2>2 DEF QueuesCounted
  <2>4. /\ \A i \in DOMAIN sem_queue : /\ sem_queue'[i].sems = sem_queue[i].sems
                                       /\ sem_queue'[i].left = sem_queue[i].left
                                       /\ sem_queue'[i].lock = sem_queue[i].lock
    BY <2>1, <2>2
  <2>5. ASSUME NEW i \in DOMAIN sem_queue'
        PROVE  Cardinality(Keepers(i)') + Cardinality(Heirs(i)') <= sem_queue'[i].count
    <3>1. CASE i = q
      <4>1. CASE p \in Keepers(q) /\ p \notin Keepers(q)' /\ Heirs(q)' = Heirs(q)
        <5>1. Cardinality(Keepers(q)') = Cardinality(Keepers(q)) - 1
          BY <1>1, <4>1, QueueSets, CountStep
        <5>2. QED
          BY <1>0, <1>2, <2>1, <2>2, <3>1, <4>1, <5>1, QueueSets
      <4>2. CASE p \in Heirs(q) /\ p \notin Heirs(q)' /\ Keepers(q)' = Keepers(q)
        <5>1. Cardinality(Heirs(q)') = Cardinality(Heirs(q)) - 1
          BY <1>1, <4>2, QueueSets, CountStep
        <5>2. QED
          BY <1>0, <1>2, <2>1, <2>2, <3>1, <4>2, <5>1, QueueSets
      <4>3. QED
        BY <1>1, <4>1, <4>2
    <3>2. CASE i # q
      BY <1>0, <1>1, <2>2, <3>2 DEF QueuesCounted
    <3>3. QED
      BY <3>1, <3>2
  <2>6. \A r \in Tasks : {task'[r].queue, child'[r].queue} \subseteq DOMAIN sem_queue' \cup {NULL}
    BY <2>2 DEF QueuesCounted
  <2>7. \A i \in DOMAIN sem_queue' : /\ sem_queue'[i].left \subseteq sem_queue'[i].sems
                                     /\ sem_queue'[i].lock = NULL => sem_queue'[i].left = {}
    BY <2>2, <2>4 DEF QueuesCounted
  <2>8. ASSUME NEW r \in Tasks, Dups(r)'
        PROVE  /\ sem_queue'[task'[r].queue].lock = r
               /\ sem_queue'[task'[r].queue].left \cap sem_queue'[child'[r].queue].sems = {}
    BY <1>3, <2>4, <2>8
  <2>9. DOMAIN sem_queue' \subseteq QueueIds /\ IsFiniteSet(DOMAIN sem_queue')
    BY <2>2 DEF QueuesCounted
  <2>10. QueuesCounted'
    BY <1>3, <2>3, <2>5, <2>6, <2>7, <2>8, <2>9 DEF QueuesCounted, Dups
  <2>11. ~(sem_queue[q].count <= 1)
    BY <1>0, <1>4
  <2>12. DOMAIN sem_queue' = DOMAIN sem_queue \ (IF sem_queue[q].count > 1 THEN {} ELSE {q})
    BY <1>4, <2>2
  <2>13. \A i \in DOMAIN sem_queue' : sem_queue'[i].sems = sem_queue[i].sems
    BY <2>2, <2>4
  <2>14. QED
    BY <2>10, <2>11, <2>12, <2>13
<1>5. CASE ~(sem_queue[q].count > 1)
  <2>1. /\ DOMAIN sem_queue' = DOMAIN sem_queue \ {q} /\ sem_queue' \in [DOMAIN sem_queue' -> Queue]
        /\ \A i \in DOMAIN sem_queue' : sem_queue'[i] = sem_queue[i]
    BY <1>5 DEF Drop, QueuesCounted
  <2>2. /\ Keepers(q) \cup Heirs(q) = {p}
        /\ p \notin Keepers(q) \/ Heirs(q) = {}
        /\ p \notin Heirs(q) \/ Keepers(q) = {}
    <3>1. /\ Cardinality(Keepers(q)) + Cardinality(Heirs(q)) <= 1
          /\ Cardinality(Heirs(q)) + Cardinality(Keepers(q)) <= 1
      BY <1>0, <1>2, <1>5, QueueSets
    <3>2. p \in Keepers(q) => Keepers(q) = {p} /\ Heirs(q) = {}
      BY <3>1, QueueSets, LastOne
    <3>3. p \in Heirs(q) => Heirs(q) = {p} /\ Keepers(q) = {}
      BY <3>1, QueueSets, LastOne
    <3>4. QED
      BY <1>1, <3>2, <3>3
  <2>3. \A r \in Tasks : task'[r].queue # q /\ child'[r].queue # q
    <3>1. SUFFICES ASSUME NEW r \in Tasks PROVE task'[r].queue # q /\ child'[r].queue # q
      OBVIOUS
    <3>2. Keepers(q)' = {} /\ Heirs(q)' = {}
      BY <1>1, <2>2
    <3>3. Dups(r)' => child'[r].queue # q
      BY <1>3
    <3>4. QED
      BY <3>2, <3>3 DEF Keepers, Heirs, Dups
  <2>4. DOMAIN sem_queue' \subseteq QueueIds /\ IsFiniteSet(DOMAIN sem_queue')
    BY <2>1, FS_RemoveElement DEF QueuesCounted
  <2>5. \A r \in Tasks : {task'[r].queue, child'[r].queue} \subseteq DOMAIN sem_queue' \cup {NULL}
    BY <2>1, <2>3 DEF QueuesCounted
  <2>6. ASSUME NEW i \in DOMAIN sem_queue'
        PROVE  Cardinality(Keepers(i)') + Cardinality(Heirs(i)') <= sem_queue'[i].count
    BY <1>0, <1>1, <2>1 DEF QueuesCounted
  <2>7. \A i \in DOMAIN sem_queue' : /\ sem_queue'[i].left \subseteq sem_queue'[i].sems
                                     /\ sem_queue'[i].lock = NULL => sem_queue'[i].left = {}
    BY <2>1 DEF QueuesCounted
  <2>8. ASSUME NEW r \in Tasks, Dups(r)'
        PROVE  /\ sem_queue'[task'[r].queue].lock = r
               /\ sem_queue'[task'[r].queue].left \cap sem_queue'[child'[r].queue].sems = {}
    BY <1>3, <2>1, <2>3, <2>8
  <2>9. QueuesCounted'
    BY <1>3, <2>1, <2>4, <2>5, <2>6, <2>7, <2>8 DEF QueuesCounted, Dups
  <2>10. QED
    BY <1>5, <2>1, <2>3, <2>9
<1>6. QED
  BY <1>4, <1>5

\* What an assignment to a field of a list changes.
SetTo(f, g, D, q, count, sems, left, lock) ==
    /\ g \in [D -> Queue]
    /\ g[q].count = count /\ g[q].sems = sems /\ g[q].left = left /\ g[q].lock = lock
    /\ \A i \in D : i # q => g[i] = f[i]
LEMMA FieldsSet ==
    ASSUME NEW D, NEW f \in [D -> Queue], NEW q \in D
    PROVE  /\ \A v \in Nat : SetTo(f, [f EXCEPT ![q].count = v], D, q, v, f[q].sems, f[q].left, f[q].lock)
           /\ \A v \in SUBSET SemIds :
                 /\ SetTo(f, [f EXCEPT ![q].sems = v], D, q, f[q].count, v, f[q].left, f[q].lock)
                 /\ SetTo(f, [f EXCEPT ![q].left = v], D, q, f[q].count, f[q].sems, v, f[q].lock)
           /\ \A v \in Tasks \cup {NULL} :
                 SetTo(f, [f EXCEPT ![q].lock = v], D, q, f[q].count, f[q].sems, f[q].left, v)
<1>1. f[q] \in Queue
  OBVIOUS
<1>2. ASSUME NEW v \in Nat
      PROVE  SetTo(f, [f EXCEPT ![q].count = v], D, q, v, f[q].sems, f[q].left, f[q].lock)
  BY <1>1 DEF SetTo, Queue
<1>3. ASSUME NEW v \in SUBSET SemIds
      PROVE  SetTo(f, [f EXCEPT ![q].sems = v], D, q, f[q].count, v, f[q].left, f[q].lock)
  BY <1>1 DEF SetTo, Queue
<1>4. ASSUME NEW v \in SUBSET SemIds
      PROVE  SetTo(f, [f EXCEPT ![q].left = v], D, q, f[q].count, f[q].sems, v, f[q].lock)
  BY <1>1 DEF SetTo, Queue
<1>5. ASSUME NEW v \in Tasks \cup {NULL}
      PROVE  SetTo(f, [f EXCEPT ![q].lock = v], D, q, f[q].count, f[q].sems, f[q].left, v)
  BY <1>1 DEF SetTo, Queue
<1>6. QED
  BY <1>2, <1>3, <1>4, <1>5

LEMMA LockedList ==
    ASSUME NEW D, NEW f \in [D -> Queue], NEW q \in D, NEW left \in SUBSET SemIds, NEW lock \in Tasks \cup {NULL}
    PROVE  SetTo(f, [f EXCEPT ![q].lock = lock, ![q].left = left], D, q, f[q].count, f[q].sems, left, lock)
<1>1. f[q] \in Queue
  OBVIOUS
<1>2. QED
  BY <1>1 DEF SetTo, Queue

\* Two lists change, each in one field.
LEMMA TwoLists ==
    ASSUME NEW D, NEW f \in [D -> Queue], NEW q \in D, NEW new \in D, q # new,
           NEW left \in SUBSET SemIds, NEW sems \in SUBSET SemIds
    PROVE  /\ SetTo([f EXCEPT ![new].sems = sems], [f EXCEPT ![q].left = left, ![new].sems = sems],
                    D, q, f[q].count, f[q].sems, left, f[q].lock)
           /\ SetTo([f EXCEPT ![new].count = 1], [f EXCEPT ![q].lock = NULL, ![new].count = 1],
                    D, q, f[q].count, f[q].sems, f[q].left, NULL)
<1>1. f[q] \in Queue /\ f[new] \in Queue
  OBVIOUS
<1>2. SetTo([f EXCEPT ![new].sems = sems], [f EXCEPT ![q].left = left, ![new].sems = sems],
            D, q, f[q].count, f[q].sems, left, f[q].lock)
  BY <1>1 DEF SetTo, Queue
<1>3. SetTo([f EXCEPT ![new].count = 1], [f EXCEPT ![q].lock = NULL, ![new].count = 1],
            D, q, f[q].count, f[q].sems, f[q].left, NULL)
  BY <1>1 DEF SetTo, Queue
<1>4. QED
  BY <1>2, <1>3

\* A fork fills a list of its own, with the old one locked ...
LEMMA QueueNew ==
    ASSUME QueuesCounted, NEW p \in Tasks, NEW q \in DOMAIN sem_queue, NEW new \in QueueIds \ DOMAIN sem_queue,
           task[p].queue = q, child[p].queue = NULL, ~Dups(p), sem_queue[q].lock = NULL,
           DOMAIN sem_queue' = DOMAIN sem_queue \cup {new}, sem_queue' \in [DOMAIN sem_queue' -> Queue],
           \A i \in DOMAIN sem_queue :
              /\ sem_queue'[i].count = sem_queue[i].count /\ sem_queue'[i].sems = sem_queue[i].sems
              /\ i # q => sem_queue'[i] = sem_queue[i],
           sem_queue'[q].left = sem_queue[q].sems, sem_queue'[q].lock = p,
           sem_queue'[new].count = 0, sem_queue'[new].sems = {}, sem_queue'[new].left = {},
           Dups(p)', task'[p].queue = q, child'[p].queue = new,
           OthersStay(p), DupsHaveBoth
    PROVE  QueuesCounted'
<1> USE ResourcesAssumption DEF OthersStay, DupsHaveBoth
<1>0. NULL \notin DOMAIN sem_queue /\ new # NULL /\ q # new
  BY DEF QueuesCounted, NULL
<1>1. \A r \in Tasks : {task'[r].queue, child'[r].queue} \subseteq DOMAIN sem_queue' \cup {NULL}
  BY DEF QueuesCounted
<1>2. DOMAIN sem_queue' \subseteq QueueIds /\ IsFiniteSet(DOMAIN sem_queue')
  <2>1. IsFiniteSet(DOMAIN sem_queue \cup {new})
    BY FS_AddElement DEF QueuesCounted
  <2>2. QED
    BY <2>1 DEF QueuesCounted
<1>3. ASSUME NEW i \in DOMAIN sem_queue'
      PROVE  Cardinality(Keepers(i)') + Cardinality(Heirs(i)') <= sem_queue'[i].count
  <2>1. CASE i = new
    <3>1. Keepers(i)' = {} /\ Heirs(i)' = {}
      BY <1>0, <2>1 DEF QueuesCounted, Keepers, Heirs, Dups
    <3>2. Cardinality({}) = 0
      BY FS_EmptySet
    <3>3. QED
      BY <2>1, <3>1, <3>2
  <2>2. CASE i # new
    <3>1. i \in DOMAIN sem_queue /\ Keepers(i)' = Keepers(i) /\ Heirs(i)' = Heirs(i)
      BY <1>0, <2>2 DEF Keepers, Heirs, Dups
    <3>2. QED
      BY <3>1 DEF QueuesCounted
  <2>3. QED
    BY <2>1, <2>2
<1>4. ASSUME NEW r \in Tasks, Dups(r)'
      PROVE  /\ \A t \in Tasks : /\ task'[t].queue # child'[r].queue
                                 /\ t # r => child'[t].queue # child'[r].queue
             /\ sem_queue'[task'[r].queue].lock = r
             /\ sem_queue'[task'[r].queue].left \cap sem_queue'[child'[r].queue].sems = {}
  <2>1. CASE r = p
    <3>1. \A t \in Tasks : task[t].queue # new /\ child[t].queue # new
      BY <1>0 DEF QueuesCounted
    <3>2. QED
      BY <1>0, <2>1, <3>1
  <2>2. CASE r # p
    <3>1. Dups(r) /\ task'[r].queue = task[r].queue /\ child'[r].queue = child[r].queue
      BY <1>4, <2>2
    <3>2. task[r].queue \in DOMAIN sem_queue /\ child[r].queue \in DOMAIN sem_queue
      BY <3>1 DEF QueuesCounted
    <3>3. sem_queue[task[r].queue].lock = r /\ r # NULL
      BY <3>1 DEF QueuesCounted, Dups, NULL
    <3>4. task[r].queue # q /\ child[r].queue # q
      BY <3>1, <3>3 DEF QueuesCounted, Dups
    <3>5. ASSUME NEW t \in Tasks
          PROVE  task'[t].queue # child'[r].queue /\ (t # r => child'[t].queue # child'[r].queue)
      BY <3>1, <3>2 DEF QueuesCounted, Dups
    <3>6. sem_queue[task[r].queue].left \cap sem_queue[child[r].queue].sems = {}
      BY <3>1 DEF QueuesCounted, Dups
    <3>7. QED
      BY <3>1, <3>2, <3>3, <3>4, <3>5, <3>6
  <2>3. QED
    BY <2>1, <2>2
<1>5. ASSUME NEW i \in DOMAIN sem_queue'
      PROVE  /\ sem_queue'[i].left \subseteq sem_queue'[i].sems
             /\ sem_queue'[i].lock = NULL => sem_queue'[i].left = {}
  <2>1. CASE i = q
    BY <2>1 DEF NULL
  <2>2. CASE i # q /\ i # new
    BY <2>2 DEF QueuesCounted
  <2>3. CASE i = new
    BY <2>3
  <2>4. QED
    BY <2>1, <2>2, <2>3
<1>6. QED
  BY <1>1, <1>2, <1>3, <1>4, <1>5 DEF QueuesCounted, Dups

\* ... and has it counted when it is full.
LEMMA QueueFilled ==
    ASSUME QueuesCounted, NEW p \in Tasks, NEW q, NEW new, Dups(p), ~Dups(p)',
           q = task[p].queue, new = child[p].queue, q # NULL, new # NULL,
           DOMAIN sem_queue' = DOMAIN sem_queue, sem_queue' \in [DOMAIN sem_queue' -> Queue],
           \A i \in DOMAIN sem_queue :
              /\ sem_queue'[i].sems = sem_queue[i].sems /\ sem_queue'[i].left = sem_queue[i].left
              /\ i # new => sem_queue'[i].count = sem_queue[i].count
              /\ i # q => sem_queue'[i].lock = sem_queue[i].lock,
           sem_queue'[new].count = 1, sem_queue[q].left = {},
           \A r \in Tasks : task'[r].queue = task[r].queue /\ child'[r].queue = child[r].queue,
           \A r \in Tasks \ {p} : Dups(r)' <=> Dups(r),
           DupsHaveBoth
    PROVE  QueuesCounted'
<1> USE ResourcesAssumption DEF DupsHaveBoth
<1>0. /\ NULL \notin DOMAIN sem_queue /\ q \in DOMAIN sem_queue /\ new \in DOMAIN sem_queue
      /\ sem_queue[q].lock = p
  BY DEF QueuesCounted, NULL, Dups
<1>1. ASSUME NEW i \in DOMAIN sem_queue'
      PROVE  Cardinality(Keepers(i)') + Cardinality(Heirs(i)') <= sem_queue'[i].count
  <2>1. CASE i = new
    <3>1. Keepers(i)' = {} /\ Heirs(i)' = {p}
      BY <2>1 DEF QueuesCounted, Keepers, Heirs, Dups
    <3>2. Cardinality({}) = 0 /\ Cardinality({p}) = 1
      BY FS_EmptySet, FS_Singleton
    <3>3. QED
      BY <2>1, <3>1, <3>2
  <2>2. CASE i # new
    <3>1. Keepers(i)' = Keepers(i) /\ Heirs(i)' = Heirs(i)
      BY <2>2 DEF Keepers, Heirs, Dups
    <3>2. QED
      BY <2>2, <3>1 DEF QueuesCounted
  <2>3. QED
    BY <2>1, <2>2
<1>2. ASSUME NEW r \in Tasks, Dups(r)'
      PROVE  /\ \A t \in Tasks : /\ task'[t].queue # child'[r].queue
                                 /\ t # r => child'[t].queue # child'[r].queue
             /\ sem_queue'[task'[r].queue].lock = r
             /\ sem_queue'[task'[r].queue].left \cap sem_queue'[child'[r].queue].sems = {}
  <2>1. r # p /\ Dups(r)
    BY <1>2
  <2>2. task[r].queue \in DOMAIN sem_queue /\ child[r].queue \in DOMAIN sem_queue
    BY <2>1 DEF QueuesCounted
  <2>3. sem_queue[task[r].queue].lock = r
    BY <2>1 DEF QueuesCounted, Dups
  <2>4. task[r].queue # q
    BY <1>0, <2>1, <2>3
  <2>5. ASSUME NEW t \in Tasks
        PROVE  task'[t].queue # child'[r].queue /\ (t # r => child'[t].queue # child'[r].queue)
    BY <2>1 DEF QueuesCounted, Dups
  <2>6. sem_queue[task[r].queue].left \cap sem_queue[child[r].queue].sems = {}
    BY <2>1 DEF QueuesCounted, Dups
  <2>7. QED
    BY <2>2, <2>3, <2>4, <2>5, <2>6
<1>3. ASSUME NEW i \in DOMAIN sem_queue'
      PROVE  /\ sem_queue'[i].left \subseteq sem_queue'[i].sems
             /\ sem_queue'[i].lock = NULL => sem_queue'[i].left = {}
  <2>1. CASE i = q
    BY <2>1
  <2>2. CASE i # q
    BY <2>2 DEF QueuesCounted
  <2>3. QED
    BY <2>1, <2>2
<1>4. QED
  BY <1>1, <1>2, <1>3 DEF QueuesCounted, Dups

\* The list of a fork that fails in the middle goes with it.
LEMMA QueueUndone ==
    ASSUME QueuesCounted, NEW p \in Tasks, NEW q, NEW new, Dups(p), ~Dups(p)',
           q = task[p].queue, new = child[p].queue, q # NULL, new # NULL,
           DOMAIN sem_queue' = DOMAIN sem_queue \ {new}, sem_queue' \in [DOMAIN sem_queue' -> Queue],
           \A i \in DOMAIN sem_queue' :
              /\ sem_queue'[i].count = sem_queue[i].count /\ sem_queue'[i].sems = sem_queue[i].sems
              /\ i # q => sem_queue'[i] = sem_queue[i],
           sem_queue'[q].left = {}, child'[p].queue = NULL, task'[p].queue = task[p].queue,
           OthersStay(p), DupsHaveBoth
    PROVE  QueuesCounted'
<1> USE ResourcesAssumption DEF OthersStay, DupsHaveBoth
<1>0. /\ NULL \notin DOMAIN sem_queue /\ q \in DOMAIN sem_queue /\ new \in DOMAIN sem_queue
      /\ sem_queue[q].lock = p /\ q # new
  BY DEF QueuesCounted, NULL, Dups
<1>1. \A r \in Tasks : task'[r].queue # new /\ child'[r].queue # new
  BY <1>0 DEF QueuesCounted, Dups
<1>2. \A r \in Tasks : {task'[r].queue, child'[r].queue} \subseteq DOMAIN sem_queue' \cup {NULL}
  BY <1>1 DEF QueuesCounted
<1>3. DOMAIN sem_queue' \subseteq QueueIds /\ IsFiniteSet(DOMAIN sem_queue')
  <2>1. IsFiniteSet(DOMAIN sem_queue \ {new})
    BY FS_RemoveElement DEF QueuesCounted
  <2>2. QED
    BY <2>1 DEF QueuesCounted
<1>4. ASSUME NEW i \in DOMAIN sem_queue'
      PROVE  Cardinality(Keepers(i)') + Cardinality(Heirs(i)') <= sem_queue'[i].count
  <2>1. i \in DOMAIN sem_queue /\ i # new /\ i # NULL
    BY <1>0
  <2>2. Keepers(i)' = Keepers(i) /\ Heirs(i)' = Heirs(i)
    BY <2>1 DEF Keepers, Heirs, Dups
  <2>3. QED
    BY <2>1, <2>2 DEF QueuesCounted
<1>5. ASSUME NEW r \in Tasks, Dups(r)'
      PROVE  /\ \A t \in Tasks : /\ task'[t].queue # child'[r].queue
                                 /\ t # r => child'[t].queue # child'[r].queue
             /\ sem_queue'[task'[r].queue].lock = r
             /\ sem_queue'[task'[r].queue].left \cap sem_queue'[child'[r].queue].sems = {}
  <2>1. r # p /\ Dups(r) /\ task'[r].queue = task[r].queue /\ child'[r].queue = child[r].queue
    BY <1>5
  <2>2. task[r].queue \in DOMAIN sem_queue' /\ child[r].queue \in DOMAIN sem_queue'
    BY <1>1, <2>1 DEF QueuesCounted
  <2>3. sem_queue[task[r].queue].lock = r
    BY <2>1 DEF QueuesCounted, Dups
  <2>4. task[r].queue # q
    BY <1>0, <2>1, <2>3
  <2>5. ASSUME NEW t \in Tasks
        PROVE  task'[t].queue # child'[r].queue /\ (t # r => child'[t].queue # child'[r].queue)
    BY <1>0, <2>1, <2>2 DEF QueuesCounted, Dups
  <2>6. sem_queue[task[r].queue].left \cap sem_queue[child[r].queue].sems = {}
    BY <2>1 DEF QueuesCounted, Dups
  <2>7. QED
    BY <2>1, <2>2, <2>3, <2>4, <2>5, <2>6
<1>6. ASSUME NEW i \in DOMAIN sem_queue'
      PROVE  /\ sem_queue'[i].left \subseteq sem_queue'[i].sems
             /\ sem_queue'[i].lock = NULL => sem_queue'[i].left = {}
  <2>1. CASE i = q
    BY <2>1
  <2>2. CASE i # q
    BY <2>2 DEF QueuesCounted
  <2>3. QED
    BY <2>1, <2>2
<1>7. QED
  BY <1>2, <1>3, <1>4, <1>5, <1>6 DEF QueuesCounted, Dups

\* The child takes over what the fork has prepared for it.
LEMMA QueueHandedOn ==
    ASSUME QueuesCounted, NEW p \in Tasks, NEW c \in Tasks, UNCHANGED sem_queue,
           Outside(p), Outside(c), child[p].queue # NULL,
           task'[c].queue = child[p].queue, child'[p].queue = NULL,
           \A r \in Tasks \ {c} : task'[r].queue = task[r].queue,
           \A r \in Tasks \ {p} : child'[r].queue = child[r].queue,
           \A r \in Tasks \ {p, c} : Dups(r)' <=> Dups(r),
           DupsHaveBoth
    PROVE  QueuesCounted'
<1> USE ResourcesAssumption DEF Outside, DupsHaveBoth
<1>0. PICK q : q = child[p].queue /\ q \in DOMAIN sem_queue /\ NULL \notin DOMAIN sem_queue
  BY DEF QueuesCounted, NULL
<1>1. \A r \in Tasks : {task'[r].queue, child'[r].queue} \subseteq DOMAIN sem_queue' \cup {NULL}
  BY DEF QueuesCounted
<1>2. ASSUME NEW i \in DOMAIN sem_queue'
      PROVE  Cardinality(Keepers(i)') + Cardinality(Heirs(i)') <= sem_queue'[i].count
  <2>1. i \in DOMAIN sem_queue /\ i # NULL
    BY <1>0
  <2>2. /\ Keepers(i)' \ {c} = Keepers(i) \ {c} /\ Heirs(i)' \ {p} = Heirs(i) \ {p}
        /\ c \in Keepers(i)' <=> i = q
        /\ p \notin Heirs(i)' /\ (p \in Heirs(i) <=> i = q)
    BY <1>0, <2>1 DEF Keepers, Heirs, Dups
  <2>3. Cardinality(Keepers(i)') <= Cardinality(Keepers(i)) + (IF i = q THEN 1 ELSE 0)
    BY <2>2, QueueSets, CountStep
  <2>4. Cardinality(Heirs(i)') = Cardinality(Heirs(i)) - (IF i = q THEN 1 ELSE 0)
    BY <2>2, QueueSets, CountStep
  <2>5. /\ Cardinality(Keepers(i)) + Cardinality(Heirs(i)) <= sem_queue[i].count
        /\ sem_queue[i].count \in Nat
    BY <2>1 DEF QueuesCounted, Queue
  <2>6. QED
    BY <2>3, <2>4, <2>5, QueueSets
<1>3. ASSUME NEW r \in Tasks, Dups(r)'
      PROVE  /\ \A t \in Tasks : /\ task'[t].queue # child'[r].queue
                                 /\ t # r => child'[t].queue # child'[r].queue
             /\ sem_queue'[task'[r].queue].lock = r
             /\ sem_queue'[task'[r].queue].left \cap sem_queue'[child'[r].queue].sems = {}
  <2>1. /\ r \notin {p, c} /\ Dups(r)
        /\ task'[r].queue = task[r].queue /\ child'[r].queue = child[r].queue
    BY <1>3
  <2>2. child[r].queue # child[p].queue
    BY <2>1 DEF QueuesCounted, Dups
  <2>3. ASSUME NEW t \in Tasks
        PROVE  task'[t].queue # child'[r].queue /\ (t # r => child'[t].queue # child'[r].queue)
    BY <2>1, <2>2 DEF QueuesCounted, Dups
  <2>4. QED
    BY <2>1, <2>3 DEF QueuesCounted, Dups
<1>4. QED
  BY <1>1, <1>2, <1>3 DEF QueuesCounted, Dups

\* The semaphores.  Most steps leave them alone, and whoever waits goes on waiting.
LEMMA SemsKept ==
    ASSUME SemsCounted, QueuesCounted, UNCHANGED sem, DOMAIN sem_queue \subseteq DOMAIN sem_queue',
           \A q \in DOMAIN sem_queue' :
              sem_queue'[q].sems = IF q \in DOMAIN sem_queue THEN sem_queue[q].sems ELSE {},
           \A r \in Tasks : waits'[r] # NULL =>
              waits'[r] = waits[r] /\ task'[r].pc = task[r].pc /\ task'[r].queue = task[r].queue
    PROVE  SemsCounted'
<1>1. \A s : ListsWith(s)' = ListsWith(s)
  BY DEF ListsWith
<1>2. ASSUME NEW r \in Tasks, waits'[r] # NULL
      PROVE  /\ task'[r].pc = "run" /\ task'[r].queue # NULL
             /\ waits'[r] \in sem_queue'[task'[r].queue].sems /\ sem'[waits'[r]].valid
  <2>1. /\ waits'[r] = waits[r] /\ task'[r].pc = task[r].pc /\ task'[r].queue = task[r].queue
        /\ task[r].pc = "run" /\ task[r].queue # NULL
        /\ waits[r] \in sem_queue[task[r].queue].sems /\ sem[waits[r]].valid
    BY <1>2 DEF SemsCounted
  <2>2. task[r].queue \in DOMAIN sem_queue
    BY <2>1 DEF QueuesCounted
  <2>3. QED
    BY <2>1, <2>2
<1>3. \A q \in DOMAIN sem_queue' : sem_queue'[q].sems \subseteq DOMAIN sem'
  BY DEF SemsCounted
<1>4. QED
  BY <1>1, <1>2, <1>3 DEF SemsCounted

\* Some entries of a list go: a semaphore goes with its last entry.
LEMMA SemsLess ==
    ASSUME SemsCounted, QueuesCounted, NEW q \in DOMAIN sem_queue, NEW gone \in SUBSET sem_queue[q].sems,
           sem' = PutSems(sem, gone),
           \A s : ListsWith(s)' = IF s \in gone THEN ListsWith(s) \ {q} ELSE ListsWith(s),
           UNCHANGED waits,
           \A r \in Tasks : waits[r] # NULL =>
              /\ task'[r].pc = task[r].pc /\ task'[r].queue = task[r].queue
              /\ task[r].queue \in DOMAIN sem_queue'
              /\ waits[r] \in sem_queue'[task[r].queue].sems
    PROVE  SemsCounted'
<1>1. ASSUME NEW s
      PROVE  /\ IsFiniteSet(ListsWith(s)) /\ Cardinality(ListsWith(s)) \in Nat
             /\ Cardinality(ListsWith(s)') = Cardinality(ListsWith(s)) - (IF s \in gone THEN 1 ELSE 0)
             /\ ListsWith(s)' = {} <=> Cardinality(ListsWith(s)') = 0
  <2>1. ListsWith(s) \in SUBSET DOMAIN sem_queue /\ (s \in gone => q \in ListsWith(s))
    BY DEF ListsWith
  <2>2. IsFiniteSet(ListsWith(s)) /\ Cardinality(ListsWith(s)) \in Nat
    BY <2>1, FS_Subset, FS_CardinalityType DEF QueuesCounted
  <2>3. /\ IsFiniteSet(ListsWith(s) \ {q})
        /\ s \in gone => Cardinality(ListsWith(s) \ {q}) = Cardinality(ListsWith(s)) - 1
    BY <2>1, <2>2, FS_RemoveElement
  <2>4. /\ IsFiniteSet(ListsWith(s)')
        /\ Cardinality(ListsWith(s)') = Cardinality(ListsWith(s)) - (IF s \in gone THEN 1 ELSE 0)
    BY <2>2, <2>3
  <2>5. QED
    BY <2>2, <2>4, FS_EmptySet
<1>2. \A s \in DOMAIN sem : s \in gone => sem[s].count > 0
  <2>1. SUFFICES ASSUME NEW s \in DOMAIN sem, s \in gone PROVE sem[s].count > 0
    OBVIOUS
  <2>2. q \in ListsWith(s) /\ sem[s].count = Cardinality(ListsWith(s))
    BY <2>1 DEF ListsWith, SemsCounted
  <2>3. QED
    BY <1>1, <2>2, FS_EmptySet
<1>3. sem \in [DOMAIN sem -> [count : Nat, valid : BOOLEAN]]
  BY DEF SemsCounted
<1>4. PutSemsOk(sem, gone)
  BY <1>2, <1>3, PutSemsFacts
<1>5. /\ sem' \in [DOMAIN sem' -> [count : Nat, valid : BOOLEAN]] /\ DOMAIN sem' \subseteq DOMAIN sem
      /\ \A s \in DOMAIN sem : s \in DOMAIN sem' <=> sem[s].count # (IF s \in gone THEN 1 ELSE 0)
      /\ \A s \in DOMAIN sem' : /\ sem'[s].count = sem[s].count - (IF s \in gone THEN 1 ELSE 0)
                                /\ sem'[s].valid = sem[s].valid
  BY <1>4 DEF PutSemsOk
<1>6. \A s \in DOMAIN sem' : sem'[s].count = Cardinality(ListsWith(s)')
  BY <1>1, <1>5 DEF SemsCounted
<1>7. ASSUME NEW i \in DOMAIN sem_queue', NEW s \in sem_queue'[i].sems
      PROVE  s \in DOMAIN sem'
  <2>1. i \in ListsWith(s)'
    BY <1>7 DEF ListsWith
  <2>2. i \in ListsWith(s) /\ Cardinality(ListsWith(s)') # 0
    BY <1>1, <2>1
  <2>3. s \in DOMAIN sem /\ sem[s].count = Cardinality(ListsWith(s))
    BY <2>2 DEF ListsWith, SemsCounted
  <2>4. QED
    BY <1>1, <1>5, <2>2, <2>3
<1>8. ASSUME NEW r \in Tasks, waits'[r] # NULL
      PROVE  /\ task'[r].pc = "run" /\ task'[r].queue # NULL
             /\ waits'[r] \in sem_queue'[task'[r].queue].sems /\ sem'[waits'[r]].valid
  <2>1. /\ task[r].pc = "run" /\ task[r].queue # NULL /\ sem[waits[r]].valid /\ waits[r] # NULL
    BY <1>8 DEF SemsCounted
  <2>2. waits[r] \in DOMAIN sem'
    BY <1>7, <2>1
  <2>3. QED
    BY <1>5, <2>1, <2>2
<1>9. QED
  BY <1>5, <1>6, <1>7, <1>8 DEF SemsCounted

\* A list gets an entry of a new semaphore, or of one that is counted once more.
SemGained(s) ==
    \/ s \notin DOMAIN sem /\ sem' = Put(sem, s, [count |-> 1, valid |-> TRUE])
    \/ s \in DOMAIN sem /\ sem' = [sem EXCEPT ![s].count = @ + 1]
LEMMA SemsMore ==
    ASSUME SemsCounted, QueuesCounted, NEW q \in DOMAIN sem_queue, NEW s \in SemIds,
           s \notin sem_queue[q].sems, SemGained(s),
           DOMAIN sem_queue' = DOMAIN sem_queue, sem_queue'[q].sems = sem_queue[q].sems \cup {s},
           \A i \in DOMAIN sem_queue : i # q => sem_queue'[i].sems = sem_queue[i].sems,
           UNCHANGED waits,
           \A r \in Tasks : waits[r] # NULL => task'[r].pc = task[r].pc /\ task'[r].queue = task[r].queue
    PROVE  SemsCounted'
<1>1. /\ DOMAIN sem' = DOMAIN sem \cup {s} /\ sem' \in [DOMAIN sem' -> [count : Nat, valid : BOOLEAN]]
      /\ sem'[s].count = IF s \in DOMAIN sem THEN sem[s].count + 1 ELSE 1
      /\ \A i \in DOMAIN sem : /\ i # s => sem'[i] = sem[i]
                               /\ sem'[i].valid = sem[i].valid
  <2>1. CASE s \in DOMAIN sem
    <3>1. sem' = [sem EXCEPT ![s] = [count |-> sem[s].count + 1, valid |-> sem[s].valid]]
          /\ sem[s].count + 1 \in Nat /\ sem[s].valid \in BOOLEAN
      BY <2>1 DEF SemsCounted, SemGained
    <3>2. QED
      BY <2>1, <3>1 DEF SemsCounted
  <2>2. CASE s \notin DOMAIN sem
    <3> DEFINE x == [count |-> 1, valid |-> TRUE]
    <3>1. x \in [count : Nat, valid : BOOLEAN] /\ x.count = 1
      OBVIOUS
    <3>2. sem' = Put(sem, s, x)
      BY <2>2 DEF SemGained
    <3> HIDE DEF x
    <3>3. /\ DOMAIN sem' = DOMAIN sem \cup {s} /\ sem'[s] = x
          /\ \A i \in DOMAIN sem : i # s => sem'[i] = sem[i]
          /\ sem' = [i \in DOMAIN sem' |-> sem'[i]]
      BY <3>2 DEF Put
    <3>4. QED
      BY <2>2, <3>1, <3>3 DEF SemsCounted
  <2>3. QED
    BY <2>1, <2>2
<1>2. \A i : ListsWith(i)' = IF i = s THEN ListsWith(i) \cup {q} ELSE ListsWith(i)
  BY DEF ListsWith
<1>3. /\ IsFiniteSet(ListsWith(s)) /\ Cardinality(ListsWith(s)) \in Nat
      /\ Cardinality(ListsWith(s)') = Cardinality(ListsWith(s)) + 1
  <2>1. ListsWith(s) \in SUBSET DOMAIN sem_queue /\ q \notin ListsWith(s)
    BY DEF ListsWith
  <2>2. IsFiniteSet(ListsWith(s)) /\ Cardinality(ListsWith(s)) \in Nat
    BY <2>1, FS_Subset, FS_CardinalityType DEF QueuesCounted
  <2>3. Cardinality(ListsWith(s) \cup {q}) = Cardinality(ListsWith(s)) + 1
    BY <2>1, <2>2, FS_AddElement
  <2>4. QED
    BY <1>2, <2>2, <2>3
<1>4. s \notin DOMAIN sem => Cardinality(ListsWith(s)) = 0
  <2>1. s \notin DOMAIN sem => ListsWith(s) = {}
    BY DEF ListsWith, SemsCounted
  <2>2. QED
    BY <2>1, FS_EmptySet
<1>5. ASSUME NEW i \in DOMAIN sem' PROVE sem'[i].count = Cardinality(ListsWith(i)')
  BY <1>1, <1>2, <1>3, <1>4 DEF SemsCounted
<1>6. DOMAIN sem' \subseteq SemIds /\ \A i \in DOMAIN sem_queue' : sem_queue'[i].sems \subseteq DOMAIN sem'
  BY <1>1 DEF SemsCounted
<1>7. ASSUME NEW r \in Tasks, waits'[r] # NULL
      PROVE  /\ task'[r].pc = "run" /\ task'[r].queue # NULL
             /\ waits'[r] \in sem_queue'[task'[r].queue].sems /\ sem'[waits'[r]].valid
  <2>1. /\ task[r].pc = "run" /\ task[r].queue # NULL /\ waits[r] # NULL
        /\ waits[r] \in sem_queue[task[r].queue].sems /\ sem[waits[r]].valid
    BY <1>7 DEF SemsCounted
  <2>2. task[r].queue \in DOMAIN sem_queue
    BY <2>1 DEF QueuesCounted
  <2>3. waits[r] \in DOMAIN sem
    BY <2>1, <2>2 DEF SemsCounted
  <2>4. QED
    BY <1>1, <2>1, <2>2, <2>3
<1>8. QED
  BY <1>1, <1>5, <1>6, <1>7 DEF SemsCounted

\* One process moves on, and has made this much of its child.
At(p, pc, mm, semq) ==
    /\ task' \in [Tasks -> TaskRecord]
    /\ task'[p].pc = pc /\ task'[p].mm = mm /\ task'[p].queue = semq
    /\ \A r \in Tasks \ {p} : task'[r] = task[r]
Makes(p, mm, semq) ==
    /\ child' \in [Tasks -> ChildRecord]
    /\ child'[p].mm = mm /\ child'[p].queue = semq
    /\ \A r \in Tasks \ {p} : child'[r] = child[r]

LEMMA TaskSet ==
    ASSUME ResourceTypes, NEW p \in Tasks, NEW pc \in Places, NEW mm \in Nat, NEW semq \in Nat
    PROVE  /\ task' = [task EXCEPT ![p].pc = pc] => At(p, pc, task[p].mm, task[p].queue)
           /\ task' = [task EXCEPT ![p].pc = pc, ![p].mm = mm] => At(p, pc, mm, task[p].queue)
           /\ task' = [task EXCEPT ![p].pc = pc, ![p].queue = semq] => At(p, pc, task[p].mm, semq)
           /\ task' = [task EXCEPT ![p] = [pc |-> pc, mm |-> mm, queue |-> semq]] => At(p, pc, mm, semq)
           /\ UNCHANGED task => At(p, task[p].pc, task[p].mm, task[p].queue)
<1>1. task[p] \in TaskRecord /\ task \in [Tasks -> TaskRecord]
  BY DEF ResourceTypes
<1>2. task' = [task EXCEPT ![p].pc = pc] => At(p, pc, task[p].mm, task[p].queue)
  BY <1>1 DEF At, TaskRecord
<1>3. ASSUME task' = [task EXCEPT ![p].pc = pc, ![p].mm = mm]
      PROVE  At(p, pc, mm, task[p].queue)
  BY <1>1, <1>3 DEF At, TaskRecord
<1>4. ASSUME task' = [task EXCEPT ![p].pc = pc, ![p].queue = semq]
      PROVE  At(p, pc, task[p].mm, semq)
  BY <1>1, <1>4 DEF At, TaskRecord
<1>5. ASSUME task' = [task EXCEPT ![p] = [pc |-> pc, mm |-> mm, queue |-> semq]]
      PROVE  At(p, pc, mm, semq)
  BY <1>1, <1>5 DEF At, TaskRecord
<1>6. UNCHANGED task => At(p, task[p].pc, task[p].mm, task[p].queue)
  BY <1>1 DEF At, TaskRecord
<1>7. QED
  BY <1>2, <1>3, <1>4, <1>5, <1>6

LEMMA ChildSet ==
    ASSUME ResourceTypes, NEW p \in Tasks, NEW mm \in Nat, NEW semq \in Nat,
           NEW flags \in SUBSET {"CLONE_VM", "CLONE_SEM"}
    PROVE  /\ child' = [child EXCEPT ![p].flags = flags] => Makes(p, child[p].mm, child[p].queue)
           /\ child' = [child EXCEPT ![p].queue = semq] => Makes(p, child[p].mm, semq)
           /\ child' = [child EXCEPT ![p].mm = mm] => Makes(p, mm, child[p].queue)
           /\ child' = [child EXCEPT ![p] = Nobody] => Makes(p, NULL, NULL)
           /\ UNCHANGED child => Makes(p, child[p].mm, child[p].queue)
<1>1. child[p] \in ChildRecord /\ child \in [Tasks -> ChildRecord]
  BY DEF ResourceTypes
<1>2. child' = [child EXCEPT ![p].flags = flags] => Makes(p, child[p].mm, child[p].queue)
  BY <1>1 DEF Makes, ChildRecord
<1>3. child' = [child EXCEPT ![p].queue = semq] => Makes(p, child[p].mm, semq)
  BY <1>1 DEF Makes, ChildRecord
<1>4. child' = [child EXCEPT ![p].mm = mm] => Makes(p, mm, child[p].queue)
  BY <1>1 DEF Makes, ChildRecord
<1>5. child' = [child EXCEPT ![p] = Nobody] => Makes(p, NULL, NULL)
  BY <1>1 DEF Makes, ChildRecord, Nobody, NULL
<1>6. UNCHANGED child => Makes(p, child[p].mm, child[p].queue)
  BY <1>1 DEF Makes, ChildRecord
<1>7. QED
  BY <1>2, <1>3, <1>4, <1>5, <1>6

LEMMA StaysFitting ==
    ASSUME ResourceTypes, HasByPlace, NEW p \in Tasks, NEW pc, NEW mm, NEW semq, NEW childs_mm, NEW childs_queue,
           At(p, pc, mm, semq), Makes(p, childs_mm, childs_queue), waits' \in [Tasks -> Nat],
           Fits(pc, mm, semq, childs_mm, childs_queue)
    PROVE  ResourceTypes' /\ HasByPlace'
<1>1. ResourceTypes'
  BY DEF ResourceTypes, At, Makes
<1>2. \A r \in Tasks : Fits(task'[r].pc, task'[r].mm, task'[r].queue, child'[r].mm, child'[r].queue)
  BY DEF HasByPlace, At, Makes
<1>3. QED
  BY <1>1, <1>2 DEF HasByPlace

\* What each step needs of the invariant.
DupsHold(r) ==
    /\ task[r].queue \in DOMAIN sem_queue /\ child[r].queue \in DOMAIN sem_queue
    /\ task[r].queue # child[r].queue /\ task[r].queue # NULL /\ child[r].queue # NULL
    /\ sem_queue[task[r].queue].lock = r
    /\ sem_queue[task[r].queue].left \cap sem_queue[child[r].queue].sems = {}
LEMMA InvFacts ==
    ASSUME ResourceInv
    PROVE  /\ \A r \in Tasks : Dups(r) => DupsHold(r)
           /\ \A r \in Tasks : /\ Fits(task[r].pc, task[r].mm, task[r].queue, child[r].mm, child[r].queue)
                               /\ task[r] \in TaskRecord /\ child[r] \in ChildRecord
                               /\ task[r].pc # "run" => waits[r] = NULL
                               /\ task[r].queue \in DOMAIN sem_queue \cup {NULL}
                               /\ child[r].queue \in DOMAIN sem_queue \cup {NULL}
                               /\ task[r].mm \in DOMAIN mm_count \cup {NULL}
           /\ NULL \in Nat /\ NULL \notin Tasks
<1>1. \A r \in Tasks : /\ Fits(task[r].pc, task[r].mm, task[r].queue, child[r].mm, child[r].queue)
                       /\ task[r] \in TaskRecord /\ child[r] \in ChildRecord
                       /\ task[r].pc # "run" => waits[r] = NULL
                       /\ task[r].queue \in DOMAIN sem_queue \cup {NULL}
                       /\ child[r].queue \in DOMAIN sem_queue \cup {NULL}
                       /\ task[r].mm \in DOMAIN mm_count \cup {NULL}
  BY DEF ResourceInv, ResourceTypes, HasByPlace, SemsCounted, QueuesCounted, MmsCounted
<1>2. ASSUME NEW r \in Tasks, Dups(r) PROVE DupsHold(r)
  <2>1. task[r].queue # NULL /\ child[r].queue # NULL
    BY <1>1, <1>2 DEF Dups, Fits, MakesChild
  <2>2. QED
    BY <1>1, <1>2, <2>1 DEF DupsHold, Dups, ResourceInv, QueuesCounted
<1>3. NULL \in Nat /\ NULL \notin Tasks
  BY ResourcesAssumption DEF NULL
<1>4. QED
  BY <1>1, <1>2, <1>3

LEMMA MmStays ==
    ASSUME MmsCounted, NEW p \in Tasks, NEW pc, NEW semq, NEW childs_queue,
           At(p, pc, task[p].mm, semq), Makes(p, child[p].mm, childs_queue),
           UNCHANGED <<mm_count, proc_mm_list>>
    PROVE  MmsCounted'
<1>1. \A r \in Tasks : task'[r].mm = task[r].mm /\ child'[r].mm = child[r].mm
  BY DEF At, Makes
<1>2. QED
  BY <1>1, MmKept

LEMMA QueueStays ==
    ASSUME ResourceInv, NEW p \in Tasks, NEW pc, NEW mm, NEW semq, NEW childs_mm,
           At(p, pc, mm, semq), Makes(p, childs_mm, child[p].queue), UNCHANGED sem_queue,
           Dups(p) <=> pc = "dup_sem_queue", semq = task[p].queue \/ (semq = NULL /\ ~Dups(p))
    PROVE  QueuesCounted'
<1>1. QueuesCounted /\ sem_queue \in [DOMAIN sem_queue -> Queue]
  BY DEF ResourceInv, QueuesCounted
<1>2. \A q \in DOMAIN sem_queue : /\ sem_queue[q].left \subseteq sem_queue[q].sems
                                  /\ sem_queue[q].lock = NULL => sem_queue[q].left = {}
  BY <1>1 DEF QueuesCounted
<1>3. \A r \in Tasks :
         /\ child'[r].queue = child[r].queue /\ (Dups(r)' <=> Dups(r))
         /\ task'[r].queue # task[r].queue => task'[r].queue = NULL /\ ~Dups(r)
  BY DEF At, Makes, Dups
<1>4. \A r \in Tasks : Dups(r) => DupsHold(r)
  BY InvFacts
<1>5. QED
  BY <1>1, <1>2, <1>3, <1>4, QueueKept DEF DupsHold

LEMMA SemsStay ==
    ASSUME ResourceInv, NEW p \in Tasks, NEW pc, NEW mm, NEW semq, At(p, pc, mm, semq),
           UNCHANGED <<sem, waits>>, DOMAIN sem_queue \subseteq DOMAIN sem_queue',
           \A q \in DOMAIN sem_queue' :
              sem_queue'[q].sems = IF q \in DOMAIN sem_queue THEN sem_queue[q].sems ELSE {},
           waits[p] = NULL
    PROVE  SemsCounted'
<1>1. SemsCounted /\ QueuesCounted
  BY DEF ResourceInv
<1>2. \A r \in Tasks : waits'[r] # NULL =>
         waits'[r] = waits[r] /\ task'[r].pc = task[r].pc /\ task'[r].queue = task[r].queue
  BY DEF At
<1>3. QED
  BY <1>1, <1>2, SemsKept

\* A step of one process that leaves the structures alone.
LEMMA OnlyMoves ==
    ASSUME ResourceInv, NEW p \in Tasks, NEW pc, NEW semq,
           At(p, pc, task[p].mm, semq), Makes(p, child[p].mm, child[p].queue),
           UNCHANGED <<mm_count, proc_mm_list, sem_queue, sem, waits>>, waits[p] = NULL,
           Fits(pc, task[p].mm, semq, child[p].mm, child[p].queue),
           Dups(p) <=> pc = "dup_sem_queue", semq = task[p].queue \/ (semq = NULL /\ ~Dups(p))
    PROVE  ResourceInv'
<1>1. ResourceTypes /\ HasByPlace /\ MmsCounted /\ waits' \in [Tasks -> Nat]
  BY DEF ResourceInv, ResourceTypes
<1>2. ResourceTypes' /\ HasByPlace'
  BY <1>1, StaysFitting
<1>3. MmsCounted'
  BY <1>1, MmStays
<1>4. QueuesCounted'
  BY QueueStays
<1>5. SemsCounted'
  BY SemsStay DEF ResourceInv, QueuesCounted
<1>6. QED
  BY <1>2, <1>3, <1>4, <1>5 DEF ResourceInv

LEMMA ForkEnterKeeps ==
    ASSUME ResourceInv, NEW p \in Tasks, NEW flags \in SUBSET {"CLONE_VM", "CLONE_SEM"}, ForkEnter(p, flags)
    PROVE  ResourceInv'
<1>1. ResourceTypes /\ "copy_sem" \in Places /\ task[p].mm \in Nat /\ task[p].queue \in Nat
  BY DEF ResourceInv, ResourceTypes, Places, TaskRecord
<1>2. At(p, "copy_sem", task[p].mm, task[p].queue)
  BY <1>1, TaskSet DEF ForkEnter, Goto
<1>3. Makes(p, child[p].mm, child[p].queue)
  BY <1>1, ChildSet DEF ForkEnter
<1>4. Fits("copy_sem", task[p].mm, task[p].queue, child[p].mm, child[p].queue) /\ ~Dups(p)
  BY InvFacts DEF ForkEnter, Running, Fits, MakesChild, Dups
<1>5. UNCHANGED <<mm_count, proc_mm_list, sem_queue, sem, waits>> /\ waits[p] = NULL
  BY DEF ForkEnter, Running
<1>6. Dups(p) <=> "copy_sem" = "dup_sem_queue"
  BY <1>4
<1>7. QED
  BY <1>2, <1>3, <1>4, <1>5, <1>6, OnlyMoves

LEMMA ForkShareQueueKeeps ==
    ASSUME ResourceInv, NEW p \in Tasks, ForkShareQueue(p)
    PROVE  ResourceInv'
<1>0. PICK q : q = task[p].queue
  OBVIOUS
<1>1. ResourceTypes /\ HasByPlace /\ QueuesCounted /\ MmsCounted /\ "copy_mm" \in Places
      /\ task[p].mm \in Nat /\ q \in Nat /\ waits' \in [Tasks -> Nat] /\ waits[p] = NULL
  BY <1>0, InvFacts DEF ResourceInv, ResourceTypes, Places, MakesChild, TaskRecord, ForkShareQueue
<1>2. At(p, "copy_mm", task[p].mm, q)
  BY <1>0, <1>1, TaskSet DEF ForkShareQueue, Goto
<1>3. Makes(p, child[p].mm, q)
  BY <1>0, <1>1, ChildSet DEF ForkShareQueue
<1>4. q # NULL /\ q \in DOMAIN sem_queue /\ ~Dups(p) /\ Fits("copy_mm", task[p].mm, q, child[p].mm, q)
  BY <1>0, InvFacts DEF ForkShareQueue, Fits, MakesChild, Dups
<1>5. ResourceTypes' /\ HasByPlace'
  BY <1>1, <1>2, <1>3, <1>4, StaysFitting
<1>6. MmsCounted'
  BY <1>0, <1>1, <1>2, <1>3, MmStays DEF ForkShareQueue
<1>7. sem_queue' = [sem_queue EXCEPT ![q].count = @ + 1]
  BY <1>0 DEF ForkShareQueue
<1>8. QueuesCounted'
  <2>1. Outside(p) /\ OthersStay(p) /\ Joins(p, q)
    BY <1>0, <1>2, <1>3, <1>4 DEF At, Makes, Dups, Outside, OthersStay, Joins
  <2>2. DupsHaveBoth /\ NobodyFills(q)
    <3>1. \A r \in Tasks : Dups(r) => DupsHold(r) /\ child[r].queue # q
      BY <1>0, <1>1, InvFacts DEF QueuesCounted, Dups
    <3>2. QED
      BY <3>1 DEF DupsHold, DupsHaveBoth, NobodyFills
  <2>3. q \in QueueIds /\ QueueGained(q)
    BY <1>1, <1>4, <1>7 DEF QueuesCounted, QueueGained
  <2>4. QED
    BY <1>1, <2>1, <2>2, <2>3, QueueGet
<1>9. SemsCounted'
  <2>1. /\ DOMAIN sem_queue' = DOMAIN sem_queue
        /\ \A i \in DOMAIN sem_queue : sem_queue'[i].sems = sem_queue[i].sems
    BY <1>1, <1>4, <1>7 DEF QueuesCounted, Queue
  <2>2. QED
    BY <1>1, <1>2, <2>1, SemsStay DEF ForkShareQueue
<1>10. QED
  BY <1>5, <1>6, <1>8, <1>9 DEF ResourceInv

LEMMA ForkNewQueueKeeps ==
    ASSUME ResourceInv, NEW p \in Tasks, ForkNewQueue(p)
    PROVE  ResourceInv'
<1>0. PICK q : q = task[p].queue
  OBVIOUS
<1> DEFINE f == [sem_queue EXCEPT ![q].lock = p, ![q].left = sem_queue[q].sems]
           empty == [count |-> 0, sems |-> {}, left |-> {}, lock |-> NULL]
<1>1. PICK new \in Free(QueueIds, sem_queue) :
         /\ sem_queue' = Put(f, new, empty)
         /\ child' = [child EXCEPT ![p].queue = new]
  BY <1>0 DEF ForkNewQueue
<1>2. ResourceTypes /\ HasByPlace /\ QueuesCounted /\ MmsCounted /\ "dup_sem_queue" \in Places
      /\ task[p].mm \in Nat /\ q \in Nat /\ waits' \in [Tasks -> Nat] /\ waits[p] = NULL
  BY <1>0, InvFacts DEF ResourceInv, ResourceTypes, Places, MakesChild, TaskRecord, ForkNewQueue
<1>3. new \in QueueIds \ DOMAIN sem_queue /\ new \in Nat /\ new # NULL
  BY ResourcesAssumption DEF Free, NULL
<1>4. At(p, "dup_sem_queue", task[p].mm, q)
  BY <1>0, <1>2, TaskSet DEF ForkNewQueue, Goto
<1>5. Makes(p, child[p].mm, new)
  BY <1>1, <1>2, <1>3, ChildSet
<1>6. /\ q # NULL /\ q \in DOMAIN sem_queue /\ ~Dups(p) /\ child[p].queue = NULL
      /\ Fits("dup_sem_queue", task[p].mm, q, child[p].mm, new) /\ sem_queue[q].lock = NULL
  BY <1>0, <1>3, InvFacts DEF ForkNewQueue, Fits, MakesChild, Dups
<1>7. ResourceTypes' /\ HasByPlace'
  BY <1>2, <1>4, <1>5, <1>6, StaysFitting
<1>8. MmsCounted'
  BY <1>0, <1>2, <1>4, <1>5, MmStays DEF ForkNewQueue
<1>9. sem_queue \in [DOMAIN sem_queue -> Queue] /\ sem_queue[q] \in Queue
  BY <1>2, <1>6 DEF QueuesCounted
<1>10. /\ f \in [DOMAIN sem_queue -> Queue]
       /\ f[q].count = sem_queue[q].count /\ f[q].sems = sem_queue[q].sems
       /\ f[q].left = sem_queue[q].sems /\ f[q].lock = p
       /\ \A i \in DOMAIN sem_queue : i # q => f[i] = sem_queue[i]
  <2>1. sem_queue[q].sems \in SUBSET SemIds
    BY <1>9 DEF Queue
  <2>2. QED
    <3>1. SetTo(sem_queue, f, DOMAIN sem_queue, q, sem_queue[q].count, sem_queue[q].sems, sem_queue[q].sems, p)
      BY <1>6, <1>9, <2>1, LockedList
    <3> HIDE DEF f
    <3>2. QED
      BY <3>1 DEF SetTo
<1>11. empty \in Queue /\ empty.count = 0 /\ empty.sems = {} /\ empty.left = {}
  BY DEF Queue
<1> HIDE DEF f, empty
<1>12. /\ DOMAIN sem_queue' = DOMAIN sem_queue \cup {new} /\ sem_queue' \in [DOMAIN sem_queue' -> Queue]
       /\ sem_queue'[new] = empty
       /\ \A i \in DOMAIN sem_queue : sem_queue'[i] = f[i]
  <2>1. DOMAIN f = DOMAIN sem_queue
    BY <1>10
  <2>2. /\ DOMAIN sem_queue' = DOMAIN sem_queue \cup {new} /\ sem_queue'[new] = empty
        /\ \A i \in DOMAIN sem_queue : sem_queue'[i] = f[i]
    BY <1>1, <1>3, <2>1 DEF Put
  <2>3. sem_queue' \in [DOMAIN sem_queue \cup {new} -> Queue]
    BY <1>1, <1>10, <1>11, <2>1 DEF Put
  <2>4. QED
    BY <2>2, <2>3
<1>13. QueuesCounted'
  <2>1. /\ OthersStay(p) /\ Dups(p)' /\ task'[p].queue = q /\ child'[p].queue = new
    BY <1>4, <1>5 DEF At, Makes, Dups, OthersStay
  <2>2. DupsHaveBoth
    BY InvFacts DEF DupsHold, DupsHaveBoth
  <2>3. /\ \A i \in DOMAIN sem_queue :
              /\ sem_queue'[i].count = sem_queue[i].count /\ sem_queue'[i].sems = sem_queue[i].sems
              /\ i # q => sem_queue'[i] = sem_queue[i]
        /\ sem_queue'[q].left = sem_queue[q].sems /\ sem_queue'[q].lock = p
        /\ sem_queue'[new].count = 0 /\ sem_queue'[new].sems = {} /\ sem_queue'[new].left = {}
    BY <1>6, <1>10, <1>11, <1>12
  <2>4. QED
    BY <1>0, <1>2, <1>3, <1>6, <1>12, <2>1, <2>2, <2>3, QueueNew
<1>14. SemsCounted'
  <2>1. /\ DOMAIN sem_queue \subseteq DOMAIN sem_queue'
        /\ \A i \in DOMAIN sem_queue' :
              sem_queue'[i].sems = IF i \in DOMAIN sem_queue THEN sem_queue[i].sems ELSE {}
    BY <1>6, <1>10, <1>11, <1>12
  <2>2. QED
    BY <1>2, <1>4, <2>1, SemsStay DEF ForkNewQueue
<1>15. QED
  BY <1>7, <1>8, <1>13, <1>14 DEF ResourceInv

\* Two forks that fill lists work on four different ones.
LEMMA DupsApart ==
    ASSUME ResourceInv, NEW p \in Tasks, Dups(p), NEW r \in Tasks \ {p}, Dups(r)
    PROVE  {task[r].queue, child[r].queue} \cap {task[p].queue, child[p].queue} = {}
<1>1. DupsHold(p) /\ DupsHold(r)
  BY InvFacts
<1>2. /\ child[r].queue \notin {task[p].queue, child[p].queue}
      /\ task[r].queue # child[p].queue
  BY DEF ResourceInv, QueuesCounted, Dups
<1>3. task[r].queue # task[p].queue
  BY <1>1 DEF DupsHold
<1>4. QED
  BY <1>2, <1>3

\* One entry of the old list is looked at.
LookedAt(q, new, s) ==
    /\ DOMAIN sem_queue' = DOMAIN sem_queue /\ sem_queue' \in [DOMAIN sem_queue' -> Queue]
    /\ \A i \in DOMAIN sem_queue :
          /\ sem_queue'[i].count = sem_queue[i].count /\ sem_queue'[i].lock = sem_queue[i].lock
          /\ sem_queue'[i].left = IF i = q THEN sem_queue[i].left \ {s} ELSE sem_queue[i].left
          /\ i # new => sem_queue'[i].sems = sem_queue[i].sems
    /\ sem_queue'[new].sems \in {sem_queue[new].sems, sem_queue[new].sems \cup {s}}
LEMMA DupQueueKept ==
    ASSUME ResourceInv, NEW p \in Tasks, Dups(p), NEW q, NEW new, NEW s,
           q = task[p].queue, new = child[p].queue, s \in sem_queue[q].left,
           UNCHANGED <<task, child>>, LookedAt(q, new, s)
    PROVE  QueuesCounted'
<1> USE DEF LookedAt
<1>1. DupsHold(p) /\ q # NULL /\ q # new /\ q \in DOMAIN sem_queue /\ new \in DOMAIN sem_queue
      /\ QueuesCounted
  BY InvFacts DEF DupsHold, ResourceInv
<1>2. ASSUME NEW i \in DOMAIN sem_queue
      PROVE  /\ sem_queue'[i].count = sem_queue[i].count /\ sem_queue'[i].lock = sem_queue[i].lock
             /\ sem_queue'[i].left \subseteq sem_queue'[i].sems
             /\ sem_queue'[i].lock = NULL => sem_queue'[i].left = {}
  <2>1. /\ sem_queue[i].left \subseteq sem_queue[i].sems
        /\ sem_queue[i].lock = NULL => sem_queue[i].left = {}
    BY <1>1 DEF QueuesCounted
  <2>2. sem_queue'[i].left \subseteq sem_queue[i].left /\ sem_queue[i].sems \subseteq sem_queue'[i].sems
    BY <1>1
  <2>3. sem_queue'[i].count = sem_queue[i].count /\ sem_queue'[i].lock = sem_queue[i].lock
    OBVIOUS
  <2>4. QED
    BY <2>1, <2>2, <2>3
<1>3. ASSUME NEW r \in Tasks, Dups(r)
      PROVE  /\ child[r].queue # NULL /\ task[r].queue # NULL
             /\ sem_queue'[task[r].queue].left \cap sem_queue'[child[r].queue].sems = {}
  <2>1. DupsHold(r)
    BY <1>3, InvFacts
  <2>2. CASE r = p
    BY <1>1, <2>1, <2>2 DEF DupsHold
  <2>3. CASE r # p
    <3>1. {task[r].queue, child[r].queue} \cap {q, new} = {}
      BY <1>3, <2>3, DupsApart
    <3>2. QED
      BY <2>1, <3>1 DEF DupsHold
  <2>4. QED
    BY <2>2, <2>3
<1>4. \A r \in Tasks : /\ child'[r].queue = child[r].queue /\ (Dups(r)' <=> Dups(r))
                       /\ task'[r].queue # task[r].queue => task'[r].queue = NULL /\ ~Dups(r)
  BY DEF Dups
<1>5. QED
  BY <1>1, <1>2, <1>3, <1>4, QueueKept

LEMMA ForkDupSemKeeps ==
    ASSUME ResourceInv, NEW p \in Tasks, ForkDupSem(p)
    PROVE  ResourceInv'
<1>0. PICK q, new : q = task[p].queue /\ new = child[p].queue
  OBVIOUS
<1>1. PICK s \in sem_queue[q].left :
         IF sem[s].valid
         THEN /\ sem_queue' = [sem_queue EXCEPT ![q].left = @ \ {s}, ![new].sems = @ \cup {s}]
              /\ sem' = [sem EXCEPT ![s].count = @ + 1]
         ELSE sem_queue' = [sem_queue EXCEPT ![q].left = @ \ {s}] /\ UNCHANGED sem
  BY <1>0 DEF ForkDupSem
<1>2. UNCHANGED <<task, child, mm_count, proc_mm_list, waits>> /\ Dups(p)
  BY DEF ForkDupSem, Dups
<1>3. ResourceTypes' /\ HasByPlace' /\ MmsCounted' /\ SemsCounted /\ QueuesCounted
  <2>1. ResourceTypes /\ HasByPlace /\ MmsCounted /\ SemsCounted /\ QueuesCounted
    BY DEF ResourceInv
  <2>2. ResourceTypes' /\ HasByPlace'
    BY <1>2, <2>1 DEF ResourceTypes, HasByPlace
  <2>3. MmsCounted'
    BY <1>2, <2>1, MmKept
  <2>4. QED
    BY <2>1, <2>2, <2>3
<1>4. /\ q # new /\ q \in DOMAIN sem_queue /\ new \in DOMAIN sem_queue
      /\ sem_queue[q].left \cap sem_queue[new].sems = {}
  BY <1>0, <1>2, InvFacts DEF DupsHold
<1>5. /\ sem_queue \in [DOMAIN sem_queue -> Queue] /\ sem_queue[q] \in Queue /\ sem_queue[new] \in Queue
      /\ s \in DOMAIN sem /\ s \in SemIds
  <2>1. sem_queue \in [DOMAIN sem_queue -> Queue] /\ sem_queue[q].left \subseteq sem_queue[q].sems
    BY <1>3, <1>4 DEF QueuesCounted
  <2>2. sem_queue[q].sems \subseteq DOMAIN sem /\ DOMAIN sem \subseteq SemIds
    BY <1>3, <1>4 DEF SemsCounted
  <2>3. QED
    BY <1>4, <2>1, <2>2
<1>6. PICK left \in SUBSET SemIds : left = sem_queue[q].left \ {s}
  BY <1>5 DEF Queue
<1>7. PICK sems \in SUBSET SemIds : sems = sem_queue[new].sems \cup {s}
  BY <1>5 DEF Queue
<1>8. CASE sem[s].valid
  <2> DEFINE g == [sem_queue EXCEPT ![new].sems = sems]
             h == [sem_queue EXCEPT ![q].left = left, ![new].sems = sems]
  <2>1. sem_queue' = [sem_queue EXCEPT ![q].left = @ \ {s}, ![new].sems = @ \cup {s}] /\ SemGained(s)
    BY <1>1, <1>5, <1>8 DEF SemGained
  <2>2. sem_queue' = h
    BY <1>4, <1>5, <1>6, <1>7, <2>1
  <2>3. SetTo(g, h, DOMAIN sem_queue, q, sem_queue[q].count, sem_queue[q].sems, left, sem_queue[q].lock)
    BY <1>4, <1>5, TwoLists
  <2>4. SetTo(sem_queue, g, DOMAIN sem_queue, new, sem_queue[new].count, sems, sem_queue[new].left, sem_queue[new].lock)
    BY <1>4, <1>5, FieldsSet
  <2> HIDE DEF g, h
  <2>5. /\ DOMAIN sem_queue' = DOMAIN sem_queue /\ sem_queue' \in [DOMAIN sem_queue' -> Queue]
        /\ \A i \in DOMAIN sem_queue :
              /\ sem_queue'[i].count = sem_queue[i].count /\ sem_queue'[i].lock = sem_queue[i].lock
              /\ sem_queue'[i].left = IF i = q THEN sem_queue[i].left \ {s} ELSE sem_queue[i].left
              /\ i # new => sem_queue'[i].sems = sem_queue[i].sems
        /\ sem_queue'[new].sems = sem_queue[new].sems \cup {s}
    BY <1>4, <1>6, <1>7, <2>2, <2>3, <2>4 DEF SetTo
  <2>6. QueuesCounted'
    <3>1. LookedAt(q, new, s)
      BY <2>5 DEF LookedAt
    <3>2. QED
      BY <1>0, <1>2, <3>1, DupQueueKept
  <2>7. SemsCounted'
    BY <1>2, <1>3, <1>4, <1>5, <2>1, <2>5, SemsMore
  <2>8. QED
    BY <1>3, <2>6, <2>7 DEF ResourceInv
<1>9. CASE ~sem[s].valid
  <2> DEFINE h == [sem_queue EXCEPT ![q].left = left]
  <2>1. sem_queue' = h /\ UNCHANGED sem
    BY <1>1, <1>6, <1>9
  <2>2. SetTo(sem_queue, h, DOMAIN sem_queue, q, sem_queue[q].count, sem_queue[q].sems, left, sem_queue[q].lock)
    BY <1>4, <1>5, FieldsSet
  <2> HIDE DEF h
  <2>3. /\ DOMAIN sem_queue' = DOMAIN sem_queue /\ sem_queue' \in [DOMAIN sem_queue' -> Queue]
        /\ \A i \in DOMAIN sem_queue :
              /\ sem_queue'[i].count = sem_queue[i].count /\ sem_queue'[i].lock = sem_queue[i].lock
              /\ sem_queue'[i].left = IF i = q THEN sem_queue[i].left \ {s} ELSE sem_queue[i].left
              /\ sem_queue'[i].sems = sem_queue[i].sems
    BY <1>4, <1>6, <2>1, <2>2 DEF SetTo
  <2>4. QueuesCounted'
    <3>1. LookedAt(q, new, s)
      BY <1>4, <2>3 DEF LookedAt
    <3>2. QED
      BY <1>0, <1>2, <3>1, DupQueueKept
  <2>5. SemsCounted'
    BY <1>2, <1>3, <2>1, <2>3, SemsKept
  <2>6. QED
    BY <1>3, <2>4, <2>5 DEF ResourceInv
<1>10. QED
  BY <1>8, <1>9

LEMMA ForkQueueDoneKeeps ==
    ASSUME ResourceInv, NEW p \in Tasks, ForkQueueDone(p)
    PROVE  ResourceInv'
<1>0. PICK q, new : q = task[p].queue /\ new = child[p].queue
  OBVIOUS
<1>1. ResourceTypes /\ HasByPlace /\ QueuesCounted /\ MmsCounted /\ "copy_mm" \in Places
      /\ task[p].mm \in Nat /\ q \in Nat /\ waits' \in [Tasks -> Nat] /\ waits[p] = NULL
  BY <1>0, InvFacts DEF ResourceInv, ResourceTypes, Places, MakesChild, TaskRecord, ForkQueueDone
<1>2. At(p, "copy_mm", task[p].mm, q)
  BY <1>0, <1>1, TaskSet DEF ForkQueueDone, Goto
<1>3. Makes(p, child[p].mm, new) /\ Dups(p)
  BY <1>0, <1>1, ChildSet DEF ForkQueueDone, Dups
<1>4. /\ q # new /\ q \in DOMAIN sem_queue /\ new \in DOMAIN sem_queue /\ q # NULL /\ new # NULL
  BY <1>0, <1>3, InvFacts DEF DupsHold
<1>5. Fits("copy_mm", task[p].mm, q, child[p].mm, new)
  BY <1>0, <1>3, InvFacts DEF Dups, Fits, MakesChild
<1>6. ResourceTypes' /\ HasByPlace'
  BY <1>1, <1>2, <1>3, <1>5, StaysFitting
<1>7. MmsCounted'
  BY <1>1, <1>2, <1>3, MmStays DEF ForkQueueDone
<1>8. /\ DOMAIN sem_queue' = DOMAIN sem_queue /\ sem_queue' \in [DOMAIN sem_queue' -> Queue]
      /\ \A i \in DOMAIN sem_queue :
            /\ sem_queue'[i].sems = sem_queue[i].sems /\ sem_queue'[i].left = sem_queue[i].left
            /\ i # new => sem_queue'[i].count = sem_queue[i].count
            /\ i # q => sem_queue'[i].lock = sem_queue[i].lock
      /\ sem_queue'[new].count = 1
  <2> DEFINE g == [sem_queue EXCEPT ![new].count = 1]
             h == [sem_queue EXCEPT ![q].lock = NULL, ![new].count = 1]
  <2>1. sem_queue' = h
    BY <1>0 DEF ForkQueueDone
  <2>2. sem_queue \in [DOMAIN sem_queue -> Queue]
    BY <1>1 DEF QueuesCounted
  <2>3. SetTo(g, h, DOMAIN sem_queue, q, sem_queue[q].count, sem_queue[q].sems, sem_queue[q].left, NULL)
    BY <1>4, <2>2, TwoLists
  <2>4. SetTo(sem_queue, g, DOMAIN sem_queue, new, 1, sem_queue[new].sems, sem_queue[new].left, sem_queue[new].lock)
    BY <1>4, <2>2, FieldsSet
  <2> HIDE DEF g, h
  <2>5. QED
    BY <1>4, <2>1, <2>3, <2>4 DEF SetTo
<1>9. QueuesCounted'
  <2>1. /\ ~Dups(p)' /\ \A r \in Tasks \ {p} : Dups(r)' <=> Dups(r)
        /\ \A r \in Tasks : task'[r].queue = task[r].queue /\ child'[r].queue = child[r].queue
    BY <1>0, <1>2, <1>3 DEF At, Makes, Dups
  <2>2. DupsHaveBoth /\ sem_queue[q].left = {}
    BY <1>0, InvFacts DEF DupsHold, DupsHaveBoth, ForkQueueDone
  <2>3. QED
    BY <1>0, <1>1, <1>3, <1>4, <1>8, <2>1, <2>2, QueueFilled
<1>10. SemsCounted'
  BY <1>1, <1>2, <1>8, SemsStay DEF ForkQueueDone
<1>11. QED
  BY <1>6, <1>7, <1>9, <1>10 DEF ResourceInv

LEMMA ForkMmKeeps ==
    ASSUME ResourceInv, NEW p \in Tasks, ForkMm(p)
    PROVE  ResourceInv'
<1>1. ResourceTypes /\ HasByPlace /\ MmsCounted /\ "link" \in Places /\ waits' \in [Tasks -> Nat]
      /\ task[p].mm \in Nat /\ task[p].queue \in Nat /\ waits[p] = NULL
      /\ UNCHANGED <<sem_queue, sem, waits>>
  BY InvFacts DEF ResourceInv, ResourceTypes, Places, MakesChild, TaskRecord, ForkMm
<1>2. /\ task[p].mm # NULL /\ task[p].mm \in DOMAIN mm_count /\ child[p].mm = NULL /\ ~Dups(p)
      /\ child[p].queue # NULL /\ task[p].queue # NULL
  BY InvFacts DEF ForkMm, Fits, MakesChild, Dups
<1>3. PICK m : child' = [child EXCEPT ![p].mm = m] /\ m \in MmIds /\ MmGained(m)
  <2>1. CASE "CLONE_VM" \in child[p].flags
    <3>1. task[p].mm \in MmIds /\ proc_mm_list = proc_mm_list \cup {task[p].mm}
      BY <1>1, <1>2 DEF MmsCounted
    <3>2. /\ mm_count' = [mm_count EXCEPT ![task[p].mm] = @ + 1] /\ proc_mm_list' = proc_mm_list
          /\ child' = [child EXCEPT ![p].mm = task[p].mm]
      BY <2>1 DEF ForkMm
    <3>3. MmGained(task[p].mm)
      BY <1>2, <3>1, <3>2 DEF MmGained
    <3>4. QED
      BY <3>1, <3>2, <3>3
  <2>2. CASE "CLONE_VM" \notin child[p].flags
    <3>1. PICK m \in Free(MmIds, mm_count) :
             /\ mm_count' = Put(mm_count, m, 1)
             /\ child' = [child EXCEPT ![p].mm = m]
             /\ proc_mm_list' = proc_mm_list \cup {m}
      BY <2>2 DEF ForkMm
    <3>2. m \in MmIds /\ m \notin DOMAIN mm_count
      BY DEF Free
    <3>3. MmGained(m)
      BY <3>1, <3>2 DEF MmGained
    <3>4. QED
      BY <3>1, <3>2, <3>3
  <2>3. QED
    BY <2>1, <2>2
<1>4. m \in Nat /\ m # NULL
  BY <1>3, ResourcesAssumption DEF NULL
<1>5. At(p, "link", task[p].mm, task[p].queue)
  BY <1>1, TaskSet DEF ForkMm, Goto
<1>6. Makes(p, m, child[p].queue)
  BY <1>1, <1>3, <1>4, ChildSet
<1>7. Fits("link", task[p].mm, task[p].queue, m, child[p].queue)
  BY <1>2, <1>4 DEF Fits, MakesChild
<1>8. ResourceTypes' /\ HasByPlace'
  BY <1>1, <1>5, <1>6, <1>7, StaysFitting
<1>9. MmsCounted'
  <2>1. /\ child[p].mm = NULL /\ child'[p].mm = m /\ task'[p].mm = task[p].mm
        /\ \A r \in Tasks \ {p} : task'[r].mm = task[r].mm /\ child'[r].mm = child[r].mm
    BY <1>2, <1>5, <1>6 DEF At, Makes
  <2>2. QED
    BY <1>1, <1>3, <2>1, MmGet
<1>10. QueuesCounted'
  <2>1. Dups(p) <=> "link" = "dup_sem_queue"
    BY <1>2
  <2>2. QED
    BY <1>1, <1>5, <1>6, <2>1, QueueStays
<1>11. SemsCounted'
  BY <1>1, <1>5, SemsStay DEF ResourceInv, QueuesCounted
<1>12. QED
  BY <1>8, <1>9, <1>10, <1>11 DEF ResourceInv

LEMMA ForkLinkKeeps ==
    ASSUME ResourceInv, NEW p \in Tasks, NEW c \in Tasks, ForkLink(p, c)
    PROVE  ResourceInv'
<1>1. ResourceTypes /\ HasByPlace /\ MmsCounted /\ QueuesCounted /\ SemsCounted
      /\ waits[p] = NULL /\ waits[c] = NULL /\ p # c /\ task[p].pc = "link" /\ task[c].pc = "none"
      /\ UNCHANGED <<mm_count, proc_mm_list, sem_queue, sem, waits>>
  BY InvFacts DEF ResourceInv, ForkLink
<1>2. /\ child[p].mm # NULL /\ child[p].queue # NULL /\ task[p].mm # NULL /\ task[p].queue # NULL
      /\ child[c].mm = NULL /\ child[c].queue = NULL /\ task[c].mm = NULL
      /\ ~Dups(p) /\ ~Dups(c)
  BY <1>1, InvFacts DEF Fits, MakesChild, Dups
<1>3. Makes(p, NULL, NULL)
  <2>1. NULL \in Nat /\ {} \in SUBSET {"CLONE_VM", "CLONE_SEM"}
    BY InvFacts
  <2>2. QED
    BY <1>1, <2>1, ChildSet DEF ForkLink
<1> DEFINE born == [pc |-> "run", mm |-> child[p].mm, queue |-> child[p].queue]
<1>4. /\ task' \in [Tasks -> TaskRecord]
      /\ task'[p].pc = "run" /\ task'[p].mm = task[p].mm /\ task'[p].queue = task[p].queue
      /\ task'[c].pc = "run" /\ task'[c].mm = child[p].mm /\ task'[c].queue = child[p].queue
      /\ \A r \in Tasks \ {p, c} : task'[r] = task[r]
  <2>1. task \in [Tasks -> TaskRecord] /\ task[p] \in TaskRecord /\ child[p] \in ChildRecord /\ "run" \in Places
    BY <1>1 DEF ResourceTypes, Places
  <2>2. /\ born \in TaskRecord /\ born.pc = "run" /\ born.mm = child[p].mm /\ born.queue = child[p].queue
    BY <2>1 DEF TaskRecord, ChildRecord
  <2>3. task' = [task EXCEPT ![c] = born, ![p].pc = "run"]
    BY DEF ForkLink
  <2> HIDE DEF born
  <2>4. [task[p] EXCEPT !.pc = "run"] \in TaskRecord
    BY <2>1 DEF TaskRecord
  <2>5. /\ task' \in [Tasks -> TaskRecord] /\ task'[c] = born /\ task'[p] = [task[p] EXCEPT !.pc = "run"]
        /\ \A r \in Tasks \ {p, c} : task'[r] = task[r]
    BY <1>1, <2>1, <2>2, <2>3, <2>4
  <2>6. QED
    BY <2>1, <2>2, <2>5 DEF TaskRecord
<1>5. /\ child' \in [Tasks -> ChildRecord] /\ child'[p].mm = NULL /\ child'[p].queue = NULL
      /\ \A r \in Tasks \ {p} : child'[r] = child[r]
  BY <1>3 DEF Makes
<1>6. ResourceTypes'
  BY <1>1, <1>4, <1>5 DEF ResourceTypes
<1>7. HasByPlace'
  <2>1. SUFFICES ASSUME NEW r \in Tasks
                 PROVE  Fits(task'[r].pc, task'[r].mm, task'[r].queue, child'[r].mm, child'[r].queue)
    BY DEF HasByPlace
  <2>2. CASE r \in {p, c}
    BY <1>1, <1>2, <1>4, <1>5, <2>2 DEF Fits, MakesChild
  <2>3. CASE r \notin {p, c}
    BY <1>1, <1>4, <1>5, <2>3 DEF HasByPlace
  <2>4. QED
    BY <2>2, <2>3
<1>8. MmsCounted'
  <2>1. \A r \in Tasks \ {c} : task'[r].mm = task[r].mm
    BY <1>4
  <2>2. \A r \in Tasks \ {p} : child'[r].mm = child[r].mm
    BY <1>5
  <2>3. QED
    BY <1>1, <1>2, <1>4, <1>5, <2>1, <2>2, MmHandedOn
<1>9. QueuesCounted'
  <2>1. Outside(p) /\ Outside(c) /\ DupsHaveBoth
    BY <1>2, <1>4, InvFacts DEF Outside, Dups, DupsHaveBoth, DupsHold
  <2>2. /\ \A r \in Tasks \ {c} : task'[r].queue = task[r].queue
        /\ \A r \in Tasks \ {p} : child'[r].queue = child[r].queue
        /\ \A r \in Tasks \ {p, c} : Dups(r)' <=> Dups(r)
    BY <1>4, <1>5 DEF Dups
  <2>3. QED
    BY <1>1, <1>2, <1>4, <1>5, <2>1, <2>2, QueueHandedOn
<1>10. SemsCounted'
  <2>1. \A r \in Tasks : waits'[r] # NULL =>
           waits'[r] = waits[r] /\ task'[r].pc = task[r].pc /\ task'[r].queue = task[r].queue
    BY <1>1, <1>4
  <2>2. QED
    BY <1>1, <2>1, SemsKept
<1>11. QED
  BY <1>6, <1>7, <1>8, <1>9, <1>10 DEF ResourceInv

LEMMA ForkFailsEarlyKeeps ==
    ASSUME ResourceInv, NEW p \in Tasks, ForkFailsEarly(p)
    PROVE  ResourceInv'
<1>1. /\ ResourceTypes /\ "run" \in Places /\ task[p].mm \in Nat /\ task[p].queue \in Nat
      /\ NULL \in Nat /\ {} \in SUBSET {"CLONE_VM", "CLONE_SEM"}
  BY InvFacts DEF ResourceInv, ResourceTypes, Places, TaskRecord
<1>2. child[p].mm = NULL /\ child[p].queue = NULL /\ task[p].queue # NULL /\ ~Dups(p)
      /\ UNCHANGED <<mm_count, proc_mm_list, sem_queue, sem, waits>> /\ waits[p] = NULL
  BY InvFacts DEF ForkFailsEarly, Fits, MakesChild, Dups
<1>3. At(p, "run", task[p].mm, task[p].queue)
  BY <1>1, TaskSet DEF ForkFailsEarly, Goto
<1>4. Makes(p, child[p].mm, child[p].queue)
  <2>1. Makes(p, NULL, NULL)
    BY <1>1, ChildSet DEF ForkFailsEarly
  <2>2. QED
    BY <1>2, <2>1
<1>5. Fits("run", task[p].mm, task[p].queue, child[p].mm, child[p].queue)
  BY <1>2 DEF Fits, MakesChild
<1>6. Dups(p) <=> "run" = "dup_sem_queue"
  BY <1>2
<1>7. QED
  BY <1>2, <1>3, <1>4, <1>5, <1>6, OnlyMoves

\* A list is put: if it goes, its entries go with it.
LEMMA QueueGone ==
    ASSUME ResourceInv, NEW p \in Tasks, NEW q \in DOMAIN sem_queue, put_sem_queue(q),
           Outside(p), Leaves(p, q), OthersStay(p), UNCHANGED waits,
           \A r \in Tasks : waits[r] # NULL => task'[r] = task[r]
    PROVE  QueuesCounted' /\ SemsCounted'
<1>1. QueuesCounted /\ SemsCounted /\ DupsHaveBoth
  BY InvFacts DEF ResourceInv, DupsHold, DupsHaveBoth
<1>2. q # NULL
  BY <1>1, ResourcesAssumption DEF QueuesCounted, NULL
<1>3. QueueLost(q)
  BY <1>2 DEF put_sem_queue, QueueLost
<1>4. /\ QueuesCounted'
      /\ sem_queue[q].count <= 1 => \A r \in Tasks : task'[r].queue # q
      /\ DOMAIN sem_queue' = DOMAIN sem_queue \ (IF sem_queue[q].count > 1 THEN {} ELSE {q})
      /\ \A i \in DOMAIN sem_queue' : sem_queue'[i].sems = sem_queue[i].sems
  BY <1>1, <1>3, QueuePut
<1>5. CASE sem_queue[q].count > 1
  <2>1. UNCHANGED sem
    BY <1>2, <1>5 DEF put_sem_queue
  <2>2. /\ DOMAIN sem_queue \subseteq DOMAIN sem_queue'
        /\ \A i \in DOMAIN sem_queue' :
              sem_queue'[i].sems = IF i \in DOMAIN sem_queue THEN sem_queue[i].sems ELSE {}
    BY <1>4, <1>5
  <2>3. \A r \in Tasks : waits'[r] # NULL =>
           waits'[r] = waits[r] /\ task'[r].pc = task[r].pc /\ task'[r].queue = task[r].queue
    OBVIOUS
  <2>4. QED
    BY <1>1, <1>4, <2>1, <2>2, <2>3, SemsKept
<1>6. CASE ~(sem_queue[q].count > 1)
  <2>1. PICK gone : gone = sem_queue[q].sems
    OBVIOUS
  <2>2. sem' = PutSems(sem, gone)
    BY <1>2, <1>6, <2>1 DEF put_sem_queue
  <2>3. \A s : ListsWith(s)' = IF s \in gone THEN ListsWith(s) \ {q} ELSE ListsWith(s)
    BY <1>4, <1>6, <2>1 DEF ListsWith
  <2>4. ASSUME NEW r \in Tasks, waits[r] # NULL
        PROVE  /\ task'[r].pc = task[r].pc /\ task'[r].queue = task[r].queue
               /\ task[r].queue \in DOMAIN sem_queue'
               /\ waits[r] \in sem_queue'[task[r].queue].sems
    <3>1. task'[r] = task[r] /\ task[r].queue # NULL /\ waits[r] \in sem_queue[task[r].queue].sems
      BY <1>1, <2>4 DEF SemsCounted
    <3>2. sem_queue[q].count \in Nat
      BY <1>1 DEF QueuesCounted, Queue
    <3>3. task[r].queue \in DOMAIN sem_queue /\ task[r].queue # q
      BY <1>1, <1>4, <1>6, <3>1, <3>2 DEF QueuesCounted
    <3>4. QED
      BY <1>4, <3>1, <3>3
  <2>5. SemsCounted'
    BY <1>1, <2>1, <2>2, <2>3, <2>4, SemsLess
  <2>6. QED
    BY <1>4, <2>5
<1>7. QED
  BY <1>4, <1>5, <1>6

LEMMA ForkFailsInDupKeeps ==
    ASSUME ResourceInv, NEW p \in Tasks, ForkFailsInDup(p)
    PROVE  ResourceInv'
<1>0. PICK q, new : q = task[p].queue /\ new = child[p].queue
  OBVIOUS
<1>1. /\ ResourceTypes /\ HasByPlace /\ MmsCounted /\ QueuesCounted /\ SemsCounted
      /\ "run" \in Places /\ task[p].mm \in Nat /\ q \in Nat /\ Dups(p) /\ waits[p] = NULL
      /\ NULL \in Nat /\ {} \in SUBSET {"CLONE_VM", "CLONE_SEM"}
      /\ UNCHANGED <<mm_count, proc_mm_list, waits>>
  BY <1>0, InvFacts DEF ResourceInv, ResourceTypes, Places, TaskRecord, ForkFailsInDup, Dups
<1>2. /\ q # new /\ q \in DOMAIN sem_queue /\ new \in DOMAIN sem_queue /\ q # NULL /\ new # NULL
      /\ child[p].mm = NULL /\ DupsHaveBoth
  BY <1>0, <1>1, InvFacts DEF DupsHold, DupsHaveBoth, Dups, Fits
<1>3. At(p, "run", task[p].mm, q)
  BY <1>0, <1>1, TaskSet DEF ForkFailsInDup, Goto
<1>4. Makes(p, NULL, NULL)
  BY <1>1, ChildSet DEF ForkFailsInDup
<1>5. Fits("run", task[p].mm, q, NULL, NULL)
  BY <1>2 DEF Fits, MakesChild
<1>6. ResourceTypes' /\ HasByPlace'
  BY <1>1, <1>3, <1>4, <1>5, StaysFitting DEF ResourceTypes
<1>7. MmsCounted'
  BY <1>1, <1>2, <1>3, <1>4, MmStays
<1> DEFINE f == [sem_queue EXCEPT ![q].lock = NULL, ![q].left = {}]
<1>8. SetTo(sem_queue, f, DOMAIN sem_queue, q, sem_queue[q].count, sem_queue[q].sems, {}, NULL)
  <2>1. sem_queue \in [DOMAIN sem_queue -> Queue] /\ {} \in SUBSET SemIds /\ NULL \in Tasks \cup {NULL}
    BY <1>1 DEF QueuesCounted
  <2>2. QED
    BY <1>2, <2>1, LockedList
<1>9. sem_queue' = Drop(f, {new})
  BY <1>0 DEF ForkFailsInDup
<1> HIDE DEF f
<1>10. /\ DOMAIN sem_queue' = DOMAIN sem_queue \ {new} /\ sem_queue' \in [DOMAIN sem_queue' -> Queue]
       /\ \A i \in DOMAIN sem_queue' : sem_queue'[i] = f[i]
  BY <1>8, <1>9 DEF SetTo, Drop
<1>11. /\ \A i \in DOMAIN sem_queue' :
             /\ sem_queue'[i].count = sem_queue[i].count /\ sem_queue'[i].sems = sem_queue[i].sems
             /\ i # q => sem_queue'[i] = sem_queue[i]
       /\ sem_queue'[q].left = {}
  BY <1>2, <1>8, <1>10 DEF SetTo
<1>12. /\ ~Dups(p)' /\ OthersStay(p) /\ child'[p].queue = NULL /\ task'[p].queue = task[p].queue
  BY <1>0, <1>3, <1>4 DEF At, Makes, Dups, OthersStay
<1>13. QueuesCounted'
  BY <1>0, <1>1, <1>2, <1>10, <1>11, <1>12, QueueUndone
<1>14. SemsCounted'
  <2>1. PICK gone : gone = sem_queue[new].sems
    OBVIOUS
  <2>2. sem' = PutSems(sem, gone)
    BY <1>0, <2>1 DEF ForkFailsInDup
  <2>3. \A s : ListsWith(s)' = IF s \in gone THEN ListsWith(s) \ {new} ELSE ListsWith(s)
    BY <1>10, <1>11, <2>1 DEF ListsWith
  <2>4. ASSUME NEW r \in Tasks, waits[r] # NULL
        PROVE  /\ task'[r].pc = task[r].pc /\ task'[r].queue = task[r].queue
               /\ task[r].queue \in DOMAIN sem_queue'
               /\ waits[r] \in sem_queue'[task[r].queue].sems
    <3>1. r # p /\ task'[r] = task[r] /\ task[r].queue # NULL /\ waits[r] \in sem_queue[task[r].queue].sems
      BY <1>1, <1>3, <2>4 DEF SemsCounted, At
    <3>2. task[r].queue \in DOMAIN sem_queue /\ task[r].queue # new
      BY <1>0, <1>1, <3>1 DEF QueuesCounted, Dups
    <3>3. QED
      BY <1>10, <1>11, <3>1, <3>2
  <2>5. QED
    BY <1>1, <1>2, <2>1, <2>2, <2>3, <2>4, SemsLess
<1>15. QED
  BY <1>6, <1>7, <1>13, <1>14 DEF ResourceInv

LEMMA ForkFailsInMmKeeps ==
    ASSUME ResourceInv, NEW p \in Tasks, ForkFailsInMm(p)
    PROVE  ResourceInv'
<1>1. /\ ResourceTypes /\ HasByPlace /\ MmsCounted
      /\ "run" \in Places /\ task[p].mm \in Nat /\ task[p].queue \in Nat /\ waits[p] = NULL
      /\ NULL \in Nat /\ {} \in SUBSET {"CLONE_VM", "CLONE_SEM"}
      /\ UNCHANGED <<mm_count, proc_mm_list, waits>>
  BY InvFacts DEF ResourceInv, ResourceTypes, Places, TaskRecord, ForkFailsInMm
<1>2. /\ child[p].queue \in DOMAIN sem_queue /\ child[p].mm = NULL /\ task[p].queue # NULL /\ ~Dups(p)
  BY InvFacts DEF ForkFailsInMm, Fits, MakesChild, Dups
<1>3. At(p, "run", task[p].mm, task[p].queue)
  BY <1>1, TaskSet DEF ForkFailsInMm, Goto
<1>4. Makes(p, NULL, NULL)
  BY <1>1, ChildSet DEF ForkFailsInMm
<1>5. Fits("run", task[p].mm, task[p].queue, NULL, NULL)
  BY <1>2 DEF Fits, MakesChild
<1>6. ResourceTypes' /\ HasByPlace'
  BY <1>1, <1>3, <1>4, <1>5, StaysFitting DEF ResourceTypes
<1>7. MmsCounted'
  BY <1>1, <1>2, <1>3, <1>4, MmStays
<1>8. QueuesCounted' /\ SemsCounted'
  <2>1. PICK q : q = child[p].queue
    OBVIOUS
  <2>2. Outside(p) /\ OthersStay(p) /\ Leaves(p, q)
    BY <1>2, <1>3, <1>4, <2>1 DEF At, Makes, Dups, Outside, OthersStay, Leaves
  <2>3. put_sem_queue(q) /\ q \in DOMAIN sem_queue
    BY <1>2, <2>1 DEF ForkFailsInMm
  <2>4. \A r \in Tasks : waits[r] # NULL => task'[r] = task[r]
    BY <1>1, <1>3 DEF At
  <2>5. QED
    BY <1>1, <2>2, <2>3, <2>4, QueueGone
<1>9. QED
  BY <1>6, <1>7, <1>8 DEF ResourceInv

LEMMA ExecEnterKeeps ==
    ASSUME ResourceInv, NEW p \in Tasks, ExecEnter(p)
    PROVE  ResourceInv'
<1>1. /\ ResourceTypes /\ HasByPlace /\ MmsCounted /\ QueuesCounted /\ SemsCounted
      /\ "sem_queue_create" \in Places /\ NULL \in Nat /\ waits[p] = NULL
      /\ UNCHANGED <<child, waits>>
  BY InvFacts DEF ResourceInv, Places, ExecEnter, Running
<1>2. child[p].mm = NULL /\ child[p].queue = NULL /\ ~Dups(p)
  BY InvFacts DEF ExecEnter, Running, Fits, MakesChild, Dups
<1>3. At(p, "sem_queue_create", NULL, NULL)
  BY <1>1, TaskSet DEF ExecEnter
<1>4. Makes(p, NULL, NULL)
  <2>1. Makes(p, child[p].mm, child[p].queue)
    BY <1>1, ChildSet
  <2>2. QED
    BY <1>2, <2>1
<1>5. Fits("sem_queue_create", NULL, NULL, NULL, NULL)
  BY DEF Fits, MakesChild
<1>6. ResourceTypes' /\ HasByPlace'
  BY <1>1, <1>3, <1>4, <1>5, StaysFitting DEF ResourceTypes
<1>7. MmsCounted'
  <2>1. /\ PutMm(task[p].mm) /\ task'[p].mm = NULL
        /\ \A r \in Tasks \ {p} : task'[r].mm = task[r].mm
        /\ \A r \in Tasks : child'[r].mm = child[r].mm
    BY <1>1, <1>3 DEF ExecEnter, At
  <2>2. QED
    BY <1>1, <2>1, MmPut
<1>8. QueuesCounted' /\ SemsCounted'
  <2>1. PICK q : q = task[p].queue
    OBVIOUS
  <2>2. put_sem_queue(q)
    BY <2>1 DEF ExecEnter
  <2>3. CASE q = NULL
    <3>1. UNCHANGED <<sem_queue, sem>>
      BY <2>2, <2>3 DEF put_sem_queue
    <3>2. At(p, "sem_queue_create", NULL, q) /\ Makes(p, NULL, child[p].queue)
      BY <1>2, <1>3, <1>4, <2>3
    <3>3. Dups(p) <=> "sem_queue_create" = "dup_sem_queue"
      BY <1>2
    <3>4. QueuesCounted'
      BY <2>1, <3>1, <3>2, <3>3, QueueStays
    <3>5. SemsCounted'
      BY <1>1, <1>3, <3>1, SemsStay DEF QueuesCounted
    <3>6. QED
      BY <3>4, <3>5
  <2>4. CASE q # NULL
    <3>1. q \in DOMAIN sem_queue
      BY <2>1, <2>4, InvFacts
    <3>2. Outside(p) /\ OthersStay(p) /\ Leaves(p, q)
      BY <1>2, <1>3, <1>4, <2>1 DEF At, Makes, Dups, Outside, OthersStay, Leaves
    <3>3. \A r \in Tasks : waits[r] # NULL => task'[r] = task[r]
      BY <1>1, <1>3 DEF At
    <3>4. QED
      BY <1>1, <2>2, <3>1, <3>2, <3>3, QueueGone
  <2>5. QED
    BY <2>3, <2>4
<1>9. QED
  BY <1>6, <1>7, <1>8 DEF ResourceInv

LEMMA ExecQueueKeeps ==
    ASSUME ResourceInv, NEW p \in Tasks, ExecQueue(p)
    PROVE  ResourceInv'
<1> DEFINE new == [count |-> 1, sems |-> {}, left |-> {}, lock |-> NULL]
<1>0. PICK q \in Free(QueueIds, sem_queue) :
         /\ sem_queue' = Put(sem_queue, q, new)
         /\ task' = [task EXCEPT ![p].pc = "load_icode", ![p].queue = q]
  BY DEF ExecQueue
<1>1. /\ ResourceTypes /\ HasByPlace /\ MmsCounted /\ QueuesCounted
      /\ "load_icode" \in Places /\ NULL \in Nat /\ waits[p] = NULL /\ task[p].mm \in Nat
      /\ UNCHANGED <<child, mm_count, proc_mm_list, sem, waits>>
  BY InvFacts DEF ResourceInv, Places, TaskRecord, ExecQueue
<1>2. q \in QueueIds /\ q \notin DOMAIN sem_queue /\ q \in Nat /\ q # NULL
  BY ResourcesAssumption DEF Free, NULL
<1>3. child[p].mm = NULL /\ child[p].queue = NULL /\ task[p].mm = NULL /\ ~Dups(p)
  BY InvFacts DEF ExecQueue, Fits, MakesChild, Dups
<1>4. At(p, "load_icode", task[p].mm, q)
  BY <1>0, <1>1, <1>2, TaskSet
<1>5. Makes(p, child[p].mm, child[p].queue)
  BY <1>1, ChildSet
<1>6. Fits("load_icode", task[p].mm, q, child[p].mm, child[p].queue)
  BY <1>2, <1>3 DEF Fits, MakesChild
<1>7. ResourceTypes' /\ HasByPlace'
  BY <1>1, <1>4, <1>5, <1>6, StaysFitting DEF ResourceTypes
<1>8. MmsCounted'
  BY <1>1, <1>4, <1>5, MmStays
<1>9. QueueGained(q)
  BY <1>0, <1>2 DEF QueueGained
<1>10. QueuesCounted'
  <2>1. Outside(p) /\ OthersStay(p) /\ Joins(p, q)
    BY <1>3, <1>4, <1>5 DEF At, Makes, Dups, Outside, OthersStay, Joins
  <2>2. DupsHaveBoth /\ NobodyFills(q)
    BY <1>2, InvFacts DEF DupsHold, DupsHaveBoth, NobodyFills
  <2>3. QED
    BY <1>1, <1>2, <1>9, <2>1, <2>2, QueueGet
<1>11. SemsCounted'
  <2>1. new.sems = {}
    OBVIOUS
  <2> HIDE DEF new
  <2>2. /\ DOMAIN sem_queue \subseteq DOMAIN sem_queue'
        /\ \A i \in DOMAIN sem_queue' :
              sem_queue'[i].sems = IF i \in DOMAIN sem_queue THEN sem_queue[i].sems ELSE {}
    BY <1>0, <1>2, <2>1 DEF Put
  <2>3. QED
    BY <1>1, <1>4, <2>2, SemsStay
<1>12. QED
  BY <1>7, <1>8, <1>10, <1>11 DEF ResourceInv

LEMMA ExecLoadKeeps ==
    ASSUME ResourceInv, NEW p \in Tasks, ExecLoad(p)
    PROVE  ResourceInv'
<1>0. PICK m \in Free(MmIds, mm_count) :
         /\ mm_count' = Put(mm_count, m, 1) /\ proc_mm_list' = proc_mm_list \cup {m}
         /\ task' = [task EXCEPT ![p].pc = "run", ![p].mm = m]
  BY DEF ExecLoad
<1>1. /\ ResourceTypes /\ HasByPlace /\ MmsCounted /\ QueuesCounted
      /\ "run" \in Places /\ NULL \in Nat /\ waits[p] = NULL /\ task[p].queue \in Nat
      /\ UNCHANGED <<child, sem_queue, sem, waits>>
  BY InvFacts DEF ResourceInv, Places, TaskRecord, ExecLoad
<1>2. m \in MmIds /\ m \in Nat /\ m # NULL /\ MmGained(m)
  BY <1>0, ResourcesAssumption DEF Free, NULL, MmGained
<1>3. child[p].mm = NULL /\ child[p].queue = NULL /\ task[p].mm = NULL /\ task[p].queue # NULL /\ ~Dups(p)
  BY InvFacts DEF ExecLoad, Fits, MakesChild, Dups
<1>4. At(p, "run", m, task[p].queue)
  BY <1>0, <1>1, <1>2, TaskSet
<1>5. Makes(p, child[p].mm, child[p].queue)
  BY <1>1, ChildSet
<1>6. Fits("run", m, task[p].queue, child[p].mm, child[p].queue)
  BY <1>2, <1>3 DEF Fits, MakesChild
<1>7. ResourceTypes' /\ HasByPlace'
  BY <1>1, <1>4, <1>5, <1>6, StaysFitting DEF ResourceTypes
<1>8. MmsCounted'
  <2>1. /\ task[p].mm = NULL /\ task'[p].mm = m /\ child'[p].mm = child[p].mm
        /\ \A r \in Tasks \ {p} : task'[r].mm = task[r].mm /\ child'[r].mm = child[r].mm
    BY <1>3, <1>4, <1>5 DEF At, Makes
  <2>2. QED
    BY <1>1, <1>2, <2>1, MmGet
<1>9. QueuesCounted'
  <2>1. Dups(p) <=> "run" = "dup_sem_queue"
    BY <1>3
  <2>2. QED
    BY <1>1, <1>4, <1>5, <2>1, QueueStays
<1>10. SemsCounted'
  BY <1>1, <1>4, SemsStay DEF QueuesCounted
<1>11. QED
  BY <1>7, <1>8, <1>9, <1>10 DEF ResourceInv

LEMMA ExitKeeps ==
    ASSUME ResourceInv, NEW p \in Tasks, do_exit(p)
    PROVE  ResourceInv'
<1>1. /\ ResourceTypes /\ HasByPlace /\ MmsCounted /\ QueuesCounted
      /\ "zombie" \in Places /\ NULL \in Nat /\ waits[p] = NULL /\ task[p].queue \in Nat
      /\ UNCHANGED <<child, sem_queue, sem, waits>>
  BY InvFacts DEF ResourceInv, Places, TaskRecord, do_exit, Running
<1>2. child[p].mm = NULL /\ child[p].queue = NULL /\ ~Dups(p)
  BY InvFacts DEF do_exit, Running, Fits, MakesChild, Dups
<1>3. At(p, "zombie", NULL, task[p].queue)
  BY <1>1, TaskSet DEF do_exit
<1>4. Makes(p, child[p].mm, child[p].queue)
  BY <1>1, ChildSet
<1>5. Fits("zombie", NULL, task[p].queue, child[p].mm, child[p].queue)
  BY <1>2 DEF Fits, MakesChild
<1>6. ResourceTypes' /\ HasByPlace'
  BY <1>1, <1>3, <1>4, <1>5, StaysFitting DEF ResourceTypes
<1>7. MmsCounted'
  <2>1. /\ PutMm(task[p].mm) /\ task'[p].mm = NULL
        /\ \A r \in Tasks \ {p} : task'[r].mm = task[r].mm
        /\ \A r \in Tasks : child'[r].mm = child[r].mm
    BY <1>1, <1>3 DEF do_exit, At
  <2>2. QED
    BY <1>1, <2>1, MmPut
<1>8. QueuesCounted'
  <2>1. Dups(p) <=> "zombie" = "dup_sem_queue"
    BY <1>2
  <2>2. QED
    BY <1>1, <1>3, <1>4, <2>1, QueueStays
<1>9. SemsCounted'
  BY <1>1, <1>3, SemsStay DEF QueuesCounted
<1>10. QED
  BY <1>6, <1>7, <1>8, <1>9 DEF ResourceInv

LEMMA ReapKeeps ==
    ASSUME ResourceInv, NEW p \in Tasks, ReapTask(p)
    PROVE  ResourceInv'
<1>1. /\ ResourceTypes /\ "none" \in Places /\ NULL \in Nat /\ waits[p] = NULL /\ task[p].mm \in Nat
      /\ UNCHANGED <<child, mm_count, proc_mm_list, sem_queue, sem, waits>>
  BY InvFacts DEF ResourceInv, Places, TaskRecord, ReapTask
<1>2. child[p].mm = NULL /\ child[p].queue = NULL /\ task[p].mm = NULL /\ ~Dups(p)
  BY InvFacts DEF ReapTask, Fits, MakesChild, Dups
<1>3. At(p, "none", task[p].mm, NULL)
  BY <1>1, TaskSet DEF ReapTask
<1>4. Makes(p, child[p].mm, child[p].queue)
  BY <1>1, ChildSet
<1>5. Fits("none", task[p].mm, NULL, child[p].mm, child[p].queue)
  BY <1>2 DEF Fits, MakesChild
<1>6. Dups(p) <=> "none" = "dup_sem_queue"
  BY <1>2
<1>7. QED
  BY <1>1, <1>2, <1>3, <1>4, <1>5, <1>6, OnlyMoves

\* The semaphore calls leave the processes alone.
LEMMA CallsLeave ==
    ASSUME ResourceInv, UNCHANGED <<task, child, mm_count, proc_mm_list>>, waits' \in [Tasks -> Nat]
    PROVE  /\ ResourceTypes' /\ HasByPlace' /\ MmsCounted'
           /\ UNCHANGED sem_queue => QueuesCounted'
<1>1. ResourceTypes' /\ HasByPlace'
  BY DEF ResourceInv, ResourceTypes, HasByPlace
<1>2. MmsCounted'
  BY MmKept DEF ResourceInv
<1>3. ASSUME UNCHANGED sem_queue PROVE QueuesCounted'
  <2>1. \A q : Keepers(q)' = Keepers(q) /\ Heirs(q)' = Heirs(q)
    BY DEF Keepers, Heirs
  <2>2. QED
    BY <1>3, <2>1 DEF ResourceInv, QueuesCounted
<1>4. QED
  BY <1>1, <1>2, <1>3

\* The entries of a list that nobody has locked change.
HasList(q) == q # NULL /\ \E p \in Tasks : task[p].queue = q
ListsKept == \A r \in Tasks : task'[r].queue = task[r].queue /\ (Dups(r)' <=> Dups(r))
SemsSet(q, sems) ==
    SetTo(sem_queue, sem_queue', DOMAIN sem_queue, q, sem_queue[q].count, sems,
          sem_queue[q].left, sem_queue[q].lock)
LEMMA EntriesChange ==
    ASSUME ResourceInv, NEW q \in DOMAIN sem_queue, HasList(q), UNCHANGED child, ListsKept,
           sem_queue[q].lock = NULL, NEW sems \in SUBSET SemIds, SemsSet(q, sems)
    PROVE  /\ QueuesCounted' /\ DOMAIN sem_queue' = DOMAIN sem_queue /\ sem_queue'[q].sems = sems
           /\ \A i \in DOMAIN sem_queue : i # q => sem_queue'[i].sems = sem_queue[i].sems
<1> USE DEF HasList, ListsKept
<1>1. QueuesCounted /\ q \in DOMAIN sem_queue
  BY DEF ResourceInv
<1>2. sem_queue[q].left = {}
  BY <1>1 DEF QueuesCounted
<1>3. /\ DOMAIN sem_queue' = DOMAIN sem_queue /\ sem_queue' \in [DOMAIN sem_queue' -> Queue]
      /\ sem_queue'[q].count = sem_queue[q].count /\ sem_queue'[q].sems = sems
      /\ sem_queue'[q].left = {} /\ sem_queue'[q].lock = sem_queue[q].lock
      /\ \A i \in DOMAIN sem_queue : i # q => sem_queue'[i] = sem_queue[i]
  BY <1>1, <1>2 DEF SemsSet, SetTo
<1>4. ASSUME NEW i \in DOMAIN sem_queue
      PROVE  /\ sem_queue'[i].count = sem_queue[i].count /\ sem_queue'[i].lock = sem_queue[i].lock
             /\ sem_queue'[i].left \subseteq sem_queue'[i].sems
             /\ sem_queue'[i].lock = NULL => sem_queue'[i].left = {}
  BY <1>1, <1>3 DEF QueuesCounted
<1>5. ASSUME NEW r \in Tasks, Dups(r)
      PROVE  /\ child[r].queue # NULL /\ task[r].queue # NULL
             /\ sem_queue'[task[r].queue].left \cap sem_queue'[child[r].queue].sems = {}
  <2>1. DupsHold(r) /\ child[r].queue # q
    BY <1>1, <1>5, InvFacts DEF QueuesCounted, Dups
  <2>2. QED
    BY <1>3, <2>1 DEF DupsHold
<1>6. \A r \in Tasks : /\ child'[r].queue = child[r].queue /\ (Dups(r)' <=> Dups(r))
                       /\ task'[r].queue # task[r].queue => task'[r].queue = NULL /\ ~Dups(r)
  BY DEF Dups
<1>7. QueuesCounted'
  BY <1>1, <1>3, <1>4, <1>5, <1>6, QueueKept
<1>8. QED
  BY <1>3, <1>7

LEMMA SemCreateKeeps ==
    ASSUME ResourceInv, NEW p \in Tasks, SemCreate(p)
    PROVE  ResourceInv'
<1>1. ResourceTypes /\ "ipc_sem_init" \in Places /\ task[p].mm \in Nat /\ task[p].queue \in Nat
  BY DEF ResourceInv, ResourceTypes, Places, TaskRecord
<1>2. At(p, "ipc_sem_init", task[p].mm, task[p].queue)
  BY <1>1, TaskSet DEF SemCreate, Goto
<1>3. Makes(p, child[p].mm, child[p].queue)
  BY <1>1, ChildSet, InvFacts DEF SemCreate, ChildRecord
<1>4. Fits("ipc_sem_init", task[p].mm, task[p].queue, child[p].mm, child[p].queue) /\ ~Dups(p)
  BY InvFacts DEF SemCreate, Running, Fits, MakesChild, Dups
<1>5. UNCHANGED <<mm_count, proc_mm_list, sem_queue, sem, waits>> /\ waits[p] = NULL
  BY DEF SemCreate, Running
<1>6. Dups(p) <=> "ipc_sem_init" = "dup_sem_queue"
  BY <1>4
<1>7. QED
  BY <1>2, <1>3, <1>4, <1>5, <1>6, OnlyMoves

LEMMA SemLinkKeeps ==
    ASSUME ResourceInv, NEW p \in Tasks, SemLink(p)
    PROVE  ResourceInv'
<1>0. PICK q : q = task[p].queue
  OBVIOUS
<1>1. PICK s \in Free(SemIds, sem) :
         /\ sem' = Put(sem, s, [count |-> 1, valid |-> TRUE])
         /\ sem_queue' = [sem_queue EXCEPT ![q].sems = @ \cup {s}]
  BY <1>0 DEF SemLink
<1>2. /\ UNCHANGED <<child, mm_count, proc_mm_list, waits>> /\ task[p].pc = "ipc_sem_init"
      /\ sem_queue[q].lock = NULL /\ q # NULL /\ waits[p] = NULL
      /\ ResourceTypes /\ HasByPlace /\ MmsCounted /\ QueuesCounted /\ SemsCounted
      /\ waits' \in [Tasks -> Nat] /\ "run" \in Places /\ task[p].mm \in Nat /\ task[p].queue \in Nat
  BY <1>0, InvFacts DEF SemLink, ResourceInv, ResourceTypes, Fits, Places, TaskRecord
<1>3. s \in SemIds /\ s \notin DOMAIN sem /\ q \in DOMAIN sem_queue /\ SemGained(s)
  BY <1>0, <1>1, <1>2, InvFacts DEF Free, SemGained
<1>4. s \notin sem_queue[q].sems
  BY <1>2, <1>3 DEF SemsCounted
<1>5. At(p, "run", task[p].mm, task[p].queue) /\ Makes(p, child[p].mm, child[p].queue)
  <2>1. At(p, "run", task[p].mm, task[p].queue)
    BY <1>2, TaskSet DEF SemLink, Goto
  <2>2. Makes(p, child[p].mm, child[p].queue)
    BY <1>2, ChildSet, InvFacts DEF ChildRecord
  <2>3. QED
    BY <2>1, <2>2
<1>6. ResourceTypes' /\ HasByPlace' /\ MmsCounted'
  <2>1. Fits("run", task[p].mm, task[p].queue, child[p].mm, child[p].queue)
    BY <1>2, InvFacts DEF Fits, MakesChild
  <2>2. ResourceTypes' /\ HasByPlace'
    BY <1>2, <1>5, <2>1, StaysFitting
  <2>3. MmsCounted'
    BY <1>2, <1>5, MmStays
  <2>4. QED
    BY <2>2, <2>3
<1>7. /\ \A r \in Tasks : task'[r].queue = task[r].queue /\ (Dups(r)' <=> Dups(r))
      /\ \A r \in Tasks : waits[r] # NULL => task'[r].pc = task[r].pc
  BY <1>2, <1>5 DEF At, Dups
<1>8. PICK sems \in SUBSET SemIds : sems = sem_queue[q].sems \cup {s}
  <2>1. sem_queue \in [DOMAIN sem_queue -> Queue]
    BY <1>2 DEF QueuesCounted
  <2>2. sem_queue[q].sems \in SUBSET SemIds
    BY <1>3, <2>1 DEF Queue
  <2>3. QED
    BY <1>3, <2>2
<1>9. SemsSet(q, sems)
  <2>1. sem_queue' = [sem_queue EXCEPT ![q].sems = sems]
    BY <1>1, <1>8
  <2>2. SetTo(sem_queue, [sem_queue EXCEPT ![q].sems = sems], DOMAIN sem_queue, q, sem_queue[q].count, sems,
              sem_queue[q].left, sem_queue[q].lock)
    BY <1>2, <1>3, FieldsSet DEF QueuesCounted
  <2>3. QED
    BY <2>1, <2>2 DEF SemsSet
<1>10. /\ QueuesCounted' /\ DOMAIN sem_queue' = DOMAIN sem_queue /\ sem_queue'[q].sems = sems
       /\ \A i \in DOMAIN sem_queue : i # q => sem_queue'[i].sems = sem_queue[i].sems
  <2>1. UNCHANGED child
    BY <1>2
  <2>2. sem_queue[q].lock = NULL /\ HasList(q)
    BY <1>0, <1>2 DEF HasList
  <2>3. ListsKept
    BY <1>7 DEF ListsKept
  <2>4. QED
    BY <1>3, <1>9, <2>1, <2>2, <2>3, EntriesChange
<1>11. SemsCounted'
  <2>1. UNCHANGED waits
    BY <1>2
  <2>2. QED
    BY <1>2, <1>3, <1>4, <1>7, <1>8, <1>10, <2>1, SemsMore
<1>12. QED
  BY <1>6, <1>10, <1>11 DEF ResourceInv

LEMMA SearchDropsKeeps ==
    ASSUME ResourceInv, NEW p \in Tasks, NEW s \in SemIds, SearchDrops(p, s)
    PROVE  ResourceInv'
<1>0. PICK q : q = task[p].queue
  OBVIOUS
<1>1. /\ sem_queue' = [sem_queue EXCEPT ![q].sems = @ \ {s}] /\ sem' = PutSems(sem, {s})
      /\ s \in sem_queue[q].sems /\ ~sem[s].valid
  BY <1>0 DEF SearchDrops
<1>2. /\ UNCHANGED <<task, child, mm_count, proc_mm_list, waits>> /\ sem_queue[q].lock = NULL /\ q # NULL
      /\ QueuesCounted /\ SemsCounted /\ waits' \in [Tasks -> Nat]
  BY <1>0 DEF SearchDrops, InList, ResourceInv, ResourceTypes
<1>3. q \in DOMAIN sem_queue
  BY <1>0, <1>2, InvFacts
<1>4. ResourceTypes' /\ HasByPlace' /\ MmsCounted'
  BY <1>2, CallsLeave
<1>5. sem_queue \in [DOMAIN sem_queue -> Queue]
  BY <1>2 DEF QueuesCounted
<1>6. PICK sems \in SUBSET SemIds : sems = sem_queue[q].sems \ {s}
  BY <1>3, <1>5 DEF Queue
<1>7. SemsSet(q, sems)
  <2>1. sem_queue' = [sem_queue EXCEPT ![q].sems = sems]
    BY <1>1, <1>6
  <2>2. SetTo(sem_queue, [sem_queue EXCEPT ![q].sems = sems], DOMAIN sem_queue, q, sem_queue[q].count, sems,
              sem_queue[q].left, sem_queue[q].lock)
    BY <1>3, <1>5, FieldsSet
  <2>3. QED
    BY <2>1, <2>2 DEF SemsSet
<1>8. /\ QueuesCounted' /\ DOMAIN sem_queue' = DOMAIN sem_queue /\ sem_queue'[q].sems = sems
      /\ \A i \in DOMAIN sem_queue : i # q => sem_queue'[i].sems = sem_queue[i].sems
  <2>1. ListsKept
    BY <1>2 DEF Dups, ListsKept
  <2>2. UNCHANGED child
    BY <1>2
  <2>3. sem_queue[q].lock = NULL /\ HasList(q)
    BY <1>0, <1>2 DEF HasList
  <2>4. QED
    BY <1>3, <1>7, <2>1, <2>2, <2>3, EntriesChange
<1>9. SemsCounted'
  <2>1. PICK gone : gone = {s} /\ gone \in SUBSET sem_queue[q].sems
    BY <1>1
  <2>2. sem' = PutSems(sem, gone)
    BY <1>1, <2>1
  <2>3. \A i : ListsWith(i)' = IF i \in gone THEN ListsWith(i) \ {q} ELSE ListsWith(i)
    BY <1>6, <1>8, <2>1 DEF ListsWith
  <2>4. ASSUME NEW r \in Tasks, waits[r] # NULL
        PROVE  /\ task'[r].pc = task[r].pc /\ task'[r].queue = task[r].queue
               /\ task[r].queue \in DOMAIN sem_queue'
               /\ waits[r] \in sem_queue'[task[r].queue].sems
    <3>1. /\ task[r].queue # NULL /\ waits[r] \in sem_queue[task[r].queue].sems /\ waits[r] # s
      BY <1>1, <1>2, <2>4 DEF SemsCounted
    <3>2. task[r].queue \in DOMAIN sem_queue
      BY <3>1, InvFacts
    <3>3. QED
      BY <1>2, <1>6, <1>8, <3>1, <3>2
  <2>5. UNCHANGED waits
    BY <1>2
  <2>6. QED
    BY <1>2, <1>3, <2>1, <2>2, <2>3, <2>4, <2>5, SemsLess
<1>10. QED
  BY <1>4, <1>8, <1>9 DEF ResourceInv

LEMMA WaitsKeep ==
    ASSUME ResourceInv, NEW p \in Tasks,
           SemWaitEnds(p) \/ \E s \in SemIds : SemWait(p, s) \/ SemFree(p, s)
    PROVE  ResourceInv'
<1>1. UNCHANGED <<task, child, mm_count, proc_mm_list, sem_queue>> /\ SemsCounted /\ waits \in [Tasks -> Nat]
  BY DEF SemWaitEnds, SemWait, SemFree, ResourceInv, ResourceTypes
<1>2. \A i : ListsWith(i)' = ListsWith(i)
  BY <1>1 DEF ListsWith
<1>3. CASE SemWaitEnds(p)
  <2>1. waits' = [waits EXCEPT ![p] = NULL] /\ UNCHANGED sem /\ NULL \in Nat
    BY <1>3 DEF SemWaitEnds, NULL
  <2>2. waits' \in [Tasks -> Nat] /\ \A r \in Tasks : waits'[r] # NULL => waits'[r] = waits[r]
    BY <1>1, <2>1
  <2>3. SemsCounted'
    BY <1>1, <1>2, <2>1, <2>2 DEF SemsCounted
  <2>4. QED
    BY <1>1, <2>2, <2>3, CallsLeave DEF ResourceInv
<1>4. ASSUME NEW s \in SemIds, SemWait(p, s)
      PROVE  ResourceInv'
  <2>1. /\ waits' = [waits EXCEPT ![p] = s] /\ UNCHANGED sem /\ s \in Nat
        /\ task[p].pc = "run" /\ task[p].queue # NULL
        /\ s \in sem_queue[task[p].queue].sems /\ sem[s].valid
    BY <1>4, ResourcesAssumption DEF SemWait, InList, Running
  <2>2. /\ waits' \in [Tasks -> Nat] /\ waits'[p] = s
        /\ \A r \in Tasks \ {p} : waits'[r] = waits[r]
    BY <1>1, <2>1
  <2>3. SemsCounted'
    BY <1>1, <1>2, <2>1, <2>2 DEF SemsCounted
  <2>4. QED
    BY <1>1, <2>2, <2>3, CallsLeave DEF ResourceInv
<1>5. ASSUME NEW s \in SemIds, SemFree(p, s)
      PROVE  ResourceInv'
  <2>1. /\ sem' = [sem EXCEPT ![s].valid = FALSE]
        /\ waits' = [q \in Tasks |-> IF waits[q] = s THEN NULL ELSE waits[q]]
    BY <1>5 DEF SemFree
  <2>2. /\ waits' \in [Tasks -> Nat]
        /\ \A r \in Tasks : waits'[r] # NULL => waits'[r] = waits[r] /\ waits[r] # s
    BY <1>1, <2>1 DEF NULL
  <2>3. /\ DOMAIN sem' = DOMAIN sem /\ sem' \in [DOMAIN sem' -> [count : Nat, valid : BOOLEAN]]
        /\ \A i \in DOMAIN sem : sem'[i].count = sem[i].count /\ (i # s => sem'[i].valid = sem[i].valid)
    <3>1. sem \in [DOMAIN sem -> [count : Nat, valid : BOOLEAN]]
      BY <1>1 DEF SemsCounted
    <3>2. PICK g : g = [sem[s] EXCEPT !.valid = FALSE]
      OBVIOUS
    <3>3. s \in DOMAIN sem => g \in [count : Nat, valid : BOOLEAN] /\ g.count = sem[s].count
      BY <3>1, <3>2
    <3>4. sem' = [sem EXCEPT ![s] = g]
      BY <2>1, <3>2
    <3>5. /\ DOMAIN sem' = DOMAIN sem
          /\ \A i \in DOMAIN sem : sem'[i] = IF i = s THEN g ELSE sem[i]
      BY <3>1, <3>4
    <3>6. \A i \in DOMAIN sem : sem'[i] \in [count : Nat, valid : BOOLEAN]
      BY <3>1, <3>3, <3>5
    <3>7. sem' = [i \in DOMAIN sem' |-> sem'[i]]
      BY <3>4
    <3>8. QED
      BY <3>3, <3>5, <3>6, <3>7
  <2>4. ASSUME NEW r \in Tasks, waits'[r] # NULL
        PROVE  /\ task'[r].pc = "run" /\ task'[r].queue # NULL
               /\ waits'[r] \in sem_queue'[task'[r].queue].sems /\ sem'[waits'[r]].valid
    <3>1. /\ waits'[r] = waits[r] /\ waits[r] # s /\ task[r].pc = "run" /\ task[r].queue # NULL
          /\ waits[r] \in sem_queue[task[r].queue].sems /\ sem[waits[r]].valid
      BY <1>1, <2>2, <2>4 DEF SemsCounted
    <3>2. waits[r] \in DOMAIN sem
      BY <1>1, <3>1, InvFacts DEF SemsCounted
    <3>3. QED
      BY <1>1, <2>3, <3>1, <3>2
  <2>5. SemsCounted'
    BY <1>1, <1>2, <2>3, <2>4 DEF SemsCounted
  <2>6. QED
    BY <1>1, <2>2, <2>5, CallsLeave DEF ResourceInv
<1>6. QED
  BY <1>3, <1>4, <1>5

LEMMA ResourceInvInductive ==
    /\ ResourcesInit => ResourceInv
    /\ ResourceInv /\ [ResourcesNext]_resource_vars => ResourceInv'
<1>1. ASSUME ResourcesInit PROVE ResourceInv
  <2>1. ResourceTypes
    BY <1>1 DEF ResourcesInit, ResourceTypes, Nobody, TaskRecord, ChildRecord, Places, NULL
  <2>2. HasByPlace
    BY <1>1 DEF ResourcesInit, HasByPlace, Fits, MakesChild, Nobody
  <2>3. DOMAIN mm_count = {} /\ DOMAIN sem_queue = {} /\ DOMAIN sem = {}
    BY <1>1 DEF ResourcesInit
  <2>4. MmsCounted
    BY <1>1, <2>3 DEF ResourcesInit, MmsCounted, Nobody
  <2>5. QueuesCounted
    <3>1. IsFiniteSet({})
      BY FS_EmptySet
    <3>2. QED
      BY <1>1, <2>3, <3>1 DEF ResourcesInit, QueuesCounted, Nobody
  <2>6. SemsCounted
    BY <1>1, <2>3 DEF ResourcesInit, SemsCounted
  <2>7. QED
    BY <2>1, <2>2, <2>4, <2>5, <2>6 DEF ResourceInv
<1>2. ASSUME ResourceInv, NEW p \in Tasks, ForkStep(p) PROVE ResourceInv'
  BY <1>2, ForkEnterKeeps, ForkShareQueueKeeps, ForkNewQueueKeeps, ForkDupSemKeeps, ForkQueueDoneKeeps,
     ForkMmKeeps, ForkLinkKeeps, ForkFailsEarlyKeeps, ForkFailsInDupKeeps, ForkFailsInMmKeeps DEF ForkStep
<1>3. ASSUME ResourceInv, ResourcesNext PROVE ResourceInv'
  BY <1>2, <1>3, ExecEnterKeeps, ExecQueueKeeps, ExecLoadKeeps, ExitKeeps, ReapKeeps,
     SemCreateKeeps, SemLinkKeeps, SearchDropsKeeps, WaitsKeep DEF ResourcesNext
<1>4. ASSUME ResourceInv, UNCHANGED resource_vars PROVE ResourceInv'
  <2>1. /\ UNCHANGED <<task, child, mm_count, proc_mm_list, sem_queue, sem, waits>>
        /\ waits' \in [Tasks -> Nat] /\ SemsCounted
    BY <1>4 DEF resource_vars, ResourceInv, ResourceTypes
  <2>2. SemsCounted'
    BY <2>1 DEF SemsCounted, ListsWith
  <2>3. QED
    BY <1>4, <2>1, <2>2, CallsLeave DEF ResourceInv
<1>5. QED
  BY <1>1, <1>3, <1>4

\* For any number of processes, structures and semaphores: through every failed
\* and completed do_fork(), do_execve() and do_exit(), and every call on a
\* semaphore in between, mm_count and the counts of the semaphores are the
\* numbers of those who use them, and nothing is freed while it is used.
THEOREM SharersAreCounted == ResourcesSpec => []SharersCounted
<1>1. ASSUME ResourceInv PROVE SharersCounted
  <2>1. MmsCounted /\ QueuesCounted /\ SemsCounted
    BY <1>1 DEF ResourceInv
  <2>2. \A q \in DOMAIN sem_queue :
           Cardinality(Users(q)) + Cardinality({p \in Tasks : child[p].queue = q /\ task[p].pc # "dup_sem_queue"})
              <= sem_queue[q].count
    <3>1. SUFFICES ASSUME NEW q \in DOMAIN sem_queue
                   PROVE  Cardinality(Users(q)) + Cardinality(Heirs(q)) <= sem_queue[q].count
      BY DEF Heirs
    <3>2. Users(q) \subseteq Keepers(q) /\ IsFiniteSet(Keepers(q))
      BY QueueSets, FS_Subset, ResourcesAssumption DEF Users, Keepers
    <3>3. IsFiniteSet(Users(q)) /\ Cardinality(Users(q)) <= Cardinality(Keepers(q))
      BY <3>2, FS_Subset
    <3>4. /\ Cardinality(Users(q)) \in Nat /\ Cardinality(Keepers(q)) \in Nat
          /\ Cardinality(Heirs(q)) \in Nat /\ sem_queue[q].count \in Nat
      BY <2>1, <3>3, QueueSets, FS_CardinalityType DEF QueuesCounted, Queue
    <3>5. Cardinality(Keepers(q)) + Cardinality(Heirs(q)) <= sem_queue[q].count
      BY <2>1 DEF QueuesCounted
    <3>6. QED
      BY <3>3, <3>4, <3>5
  <2>3. \A p \in Tasks : waits[p] # NULL => waits[p] \in DOMAIN sem
    BY <2>1 DEF QueuesCounted, SemsCounted
  <2>4. NoUseAfterFree
    BY <2>1, <2>2, <2>3 DEF NoUseAfterFree, QueuesCounted, SemsCounted
  <2>5. QED
    BY <2>1, <2>4 DEF SharersCounted, MmsCounted, SemsCounted, ListsWith
<1>2. QED
  BY <1>1, ResourceInvInductive, PTL DEF ResourcesSpec

-----------------------------------------------------------------------------
(* Mlfq *)

Waits(p) == state[p] = "RUNNABLE" /\ p # current

\* Every queue holds, once each, the processes that wait in it.
QueuesMatch ==
    \A l \in Level : /\ Distinct(queue[l])
                     /\ Queued(l) = {p \in Procs : rq[p] = l /\ Waits(p)}

\* A process that waits has a queue and a slice; nobody has more than the slice
\* of its queue.
SlicesFit ==
    \A p \in Procs : /\ Waits(p) => rq[p] # 0 /\ time_slice[p] > 0
                     /\ rq[p] = 0 => time_slice[p] = 0
                     /\ rq[p] # 0 => time_slice[p] <= max_time_slice(rq[p])

MlfqInv == TypeOK /\ QueuesMatch /\ SlicesFit /\ Sched!WaitStateWhileSleeping

-----------------------------------------------------------------------------
(* Mlfq: the slices *)

\* 1 << i is positive, and every queue has a slice of at least one tick.
LEMMA LeftShiftFacts == LeftShift \in [Nat -> Nat \ {0}]
<1> DEFINE P == Nat \ {0}
           Shifts(f) == f = [i \in Nat |-> IF i = 0 THEN 1 ELSE 2 * f[i - 1]]
<1>1. \E f \in [Nat -> P] : Shifts(f)
  <2> DEFINE double == [n \in P |-> 2 * n]
  <2>1. 1 \in P /\ double \in [P -> P]
    OBVIOUS
  <2> HIDE DEF P, double
  <2>2. PICK f : Iterates(f, P, 1, double)
    BY <2>1, NatRecursion
  <2>3. \A i \in Nat : f[i] = IF i = 0 THEN 1 ELSE 2 * f[i - 1]
    <3>1. ASSUME NEW i \in Nat \ {0} PROVE f[i] = 2 * f[i - 1]
      <4>1. i - 1 \in Nat /\ i = (i - 1) + 1
        OBVIOUS
      <4>2. f[i] = double[f[i - 1]] /\ f[i - 1] \in P
        BY <2>2, <4>1 DEF Iterates
      <4>3. QED
        BY <4>2 DEF double
    <3>2. QED
      BY <2>2, <3>1 DEF Iterates
  <2>4. f \in [Nat -> P] /\ Shifts(f)
    BY <2>2, <2>3 DEF Iterates
  <2>5. QED
    BY <2>4
<1>2. Shifts(LeftShift)
  BY <1>1 DEF LeftShift
<1>3. \A i \in Nat : LeftShift[i] = IF i = 0 THEN 1 ELSE 2 * LeftShift[i - 1]
  BY <1>2
<1> DEFINE Positive == {i \in Nat : LeftShift[i] \in P}
<1>4. 0 \in Positive
  BY <1>3
<1>5. ASSUME NEW i \in Positive PROVE i + 1 \in Positive
  <2>1. i + 1 \in Nat /\ i + 1 # 0 /\ (i + 1) - 1 = i
    OBVIOUS
  <2>2. LeftShift[i + 1] = 2 * LeftShift[i]
    BY <1>3, <2>1
  <2>3. QED
    BY <2>1, <2>2
<1> HIDE DEF Positive
<1>6. Positive = Nat
  <2>1. Positive \in SUBSET Nat
    BY DEF Positive
  <2>2. QED
    BY <1>4, <1>5, <2>1, NatSetInduction
<1>7. QED
  BY <1>2, <1>6 DEF Positive

LEMMA SliceFacts ==
    ASSUME NEW l \in Level
    PROVE  max_time_slice(l) \in Nat \ {0}
<1>1. l - 1 \in Nat
  BY MlfqAssumption DEF Level
<1>2. LeftShift[l - 1] \in Nat \ {0}
  BY <1>1, LeftShiftFacts
<1>3. \A a, b \in Nat : a > 0 /\ b > 0 => a * b \in Nat /\ a * b > 0
  OBVIOUS
<1>4. QED
  BY <1>2, <1>3, MlfqAssumption DEF max_time_slice

-----------------------------------------------------------------------------
(* What the operators of the class do *)

\* The processes in the queues.
LEMMA LinkedFacts ==
    ASSUME NEW Q, NEW R, NEW W, \A p \in W : R[p] \in Level,
           \A l \in Level : \A p : p \in Elements(Q[l]) <=> p \in W /\ R[p] = l
    PROVE  UNION {Elements(Q[l]) : l \in Level} = W
  OBVIOUS

LEMMA LinkedWait ==
    ASSUME MlfqInv
    PROVE  Linked = {p \in Procs : Waits(p)}
<1> DEFINE W == {p \in Procs : Waits(p)}
<1>1. \A p \in W : rq[p] \in Level
  BY MlfqAssumption DEF MlfqInv, TypeOK, SlicesFit, Level
<1>2. \A l \in Level : \A p : p \in Elements(queue[l]) <=> p \in W /\ rq[p] = l
  BY DEF MlfqInv, QueuesMatch, Queued
<1> HIDE DEF W
<1>3. UNION {Elements(queue[l]) : l \in Level} = W
  BY <1>1, <1>2, LinkedFacts
<1>4. QED
  BY <1>3 DEF Linked, Queued, W

\* What enqueue() does for a process that is in no queue.
LEMMA EnqueueFacts ==
    ASSUME MlfqInv, NEW p \in Procs, ~Waits(p), NEW ts \in Nat
    PROVE  LET e == Enqueue(p, ts) IN
           /\ e.queue \in [Level -> Seq(Procs)] /\ e.rq \in [Procs -> 0 .. Levels]
           /\ e.rq[p] \in Level /\ \A q \in Procs : q # p => e.rq[q] = rq[q]
           /\ \A l \in Level :
                 /\ Distinct(e.queue[l])
                 /\ Elements(e.queue[l]) = Queued(l) \cup (IF l = e.rq[p] THEN {p} ELSE {})
           /\ e.slice \in Nat \ {0} /\ e.slice <= max_time_slice(e.rq[p])
<1> DEFINE l == LevelFor(p, ts)
           slice == IF ts = 0 \/ ts > max_time_slice(l) THEN max_time_slice(l) ELSE ts
           e == Enqueue(p, ts)
<1>1. l \in Level
  BY MlfqAssumption DEF MlfqInv, TypeOK, LevelFor, Level
<1>2. e.queue = [queue EXCEPT ![l] = AddLast(@, p)] /\ e.rq = [rq EXCEPT ![p] = l] /\ e.slice = slice
  BY DEF Enqueue, AddLast
<1> HIDE DEF l, e
<1>3. slice \in Nat \ {0} /\ slice <= max_time_slice(l)
  BY <1>1, SliceFacts
<1>4. p \notin Queued(l) /\ queue[l] \in Seq(Procs) /\ Distinct(queue[l])
  BY <1>1 DEF MlfqInv, TypeOK, QueuesMatch
<1>5. /\ AddLast(queue[l], p) \in Seq(Procs) /\ Distinct(AddLast(queue[l], p))
      /\ Elements(AddLast(queue[l], p)) = Queued(l) \cup {p}
  BY <1>4, AddLastFacts DEF Queued
<1>6. /\ e.rq \in [Procs -> 0 .. Levels] /\ e.rq[p] = l
      /\ \A q \in Procs : q # p => e.rq[q] = rq[q]
  BY <1>1, <1>2 DEF MlfqInv, TypeOK, Level
<1>7. /\ e.queue \in [Level -> Seq(Procs)]
      /\ \A k \in Level : e.queue[k] = IF k = l THEN AddLast(queue[l], p) ELSE queue[k]
  BY <1>1, <1>2, <1>5 DEF MlfqInv, TypeOK
<1>8. ASSUME NEW k \in Level
      PROVE  /\ Distinct(e.queue[k])
             /\ Elements(e.queue[k]) = Queued(k) \cup (IF k = l THEN {p} ELSE {})
  <2>1. CASE k = l
    BY <1>5, <1>7, <2>1
  <2>2. CASE k # l
    BY <1>7, <2>2 DEF MlfqInv, QueuesMatch, Queued
  <2>3. QED
    BY <2>1, <2>2
<1>9. QED
  BY <1>1, <1>2, <1>3, <1>6, <1>7, <1>8 DEF e

\* MLFQ_pick_next() finds a process whenever there is one.
LEMMA FirstFacts ==
    ASSUME NEW q \in [Level -> Seq(Procs)], \E l \in Level : q[l] # <<>>
    PROVE  FirstQueue(q) \in Level /\ q[FirstQueue(q)] # <<>>
<1> DEFINE T == {l \in Level : q[l] # <<>>}
<1>1. T # {} /\ T \subseteq Nat
  BY DEF Level
<1>2. PICK l \in T : \A k \in T : ~ (<<k, l>> \in OpToRel(<, Nat))
  BY <1>1, NatLessThanWellFounded, WFMin
<1>3. \A k \in T : ~ (k < l)
  BY <1>1, <1>2 DEF OpToRel
<1>4. l \in Level /\ q[l] # <<>> /\ \A k \in 1 .. l - 1 : k \in Level /\ k < l
  <2>1. l \in 1 .. Levels /\ q[l] # <<>> /\ Levels \in Nat
    BY <1>2, MlfqAssumption DEF Level
  <2>2. \A k \in 1 .. l - 1 : k \in 1 .. Levels /\ k < l
    BY <2>1
  <2>3. QED
    BY <2>1, <2>2 DEF Level
<1>5. \A k \in 1 .. l - 1 : q[k] = <<>>
  BY <1>3, <1>4
<1>6. QED
  BY <1>4, <1>5 DEF FirstQueue

LEMMA MlfqInit == Init => MlfqInv
<1> SUFFICES ASSUME Init PROVE MlfqInv
  OBVIOUS
<1> USE DEF Init
<1>1. TypeOK
  <2>1. Linked = {}
    BY DEF Linked, Queued, Elements
  <2>2. QED
    BY <2>1, MlfqAssumption DEF TypeOK, Sched!SchedTypeOK, Sched!ProcStates, Sched!Assertions
<1>2. QueuesMatch
  BY DEF QueuesMatch, Queued, Elements, Distinct, Waits
<1>3. SlicesFit
  BY DEF SlicesFit, Waits
<1>4. Sched!WaitStateWhileSleeping
  BY DEF Sched!WaitStateWhileSleeping
<1>5. QED
  BY <1>1, <1>2, <1>3, <1>4 DEF MlfqInv

-----------------------------------------------------------------------------
(* Steps.  Each keeps the invariant and is one of SchedNext, or changes     *)
(* nothing that the scheduler of the other modules has.                    *)

\* A process gets runnable and joins a queue; nobody's slice grows but its own.
LEMMA JoinSafe ==
    ASSUME MlfqInv, NEW p \in Procs, p # current, state[p] \in {"SLEEPING", "UNINIT"},
           NEW ts \in Nat,
           queue' = Enqueue(p, ts).queue, rq' = Enqueue(p, ts).rq,
           time_slice' \in [Procs -> Nat], time_slice'[p] = Enqueue(p, ts).slice,
           \A q \in Procs \ {p} : /\ time_slice'[q] <= time_slice[q]
                                  /\ time_slice'[q] = time_slice[q] \/ q = current,
           state' = [state EXCEPT ![p] = "RUNNABLE"],
           wait_state' = [wait_state EXCEPT ![p] = "none"],
           UNCHANGED <<current, panic, need_resched>>
    PROVE  MlfqInv' /\ Sched!SchedNext
<1>1. /\ TypeOK /\ ~Waits(p)
      /\ \A q \in Procs : state'[q] = IF q = p THEN "RUNNABLE" ELSE state[q]
      /\ \A q \in Procs : wait_state'[q] = IF q = p THEN "none" ELSE wait_state[q]
      /\ \A q \in Procs : Waits(q)' <=> Waits(q) \/ q = p
  BY DEF MlfqInv, TypeOK, Sched!SchedTypeOK, Waits
<1>2. /\ queue' \in [Level -> Seq(Procs)] /\ rq' \in [Procs -> 0 .. Levels]
      /\ rq'[p] \in Level /\ \A q \in Procs : q # p => rq'[q] = rq[q]
      /\ \A l \in Level :
            /\ Distinct(queue'[l])
            /\ Elements(queue'[l]) = Queued(l) \cup (IF l = rq'[p] THEN {p} ELSE {})
      /\ time_slice'[p] \in Nat \ {0} /\ time_slice'[p] <= max_time_slice(rq'[p])
  <2> DEFINE e == Enqueue(p, ts)
  <2>1. /\ e.queue \in [Level -> Seq(Procs)] /\ e.rq \in [Procs -> 0 .. Levels]
        /\ e.rq[p] \in Level /\ \A q \in Procs : q # p => e.rq[q] = rq[q]
        /\ \A l \in Level :
              /\ Distinct(e.queue[l])
              /\ Elements(e.queue[l]) = Queued(l) \cup (IF l = e.rq[p] THEN {p} ELSE {})
        /\ e.slice \in Nat \ {0} /\ e.slice <= max_time_slice(e.rq[p])
    BY <1>1, EnqueueFacts
  <2>2. queue' = e.queue /\ rq' = e.rq /\ time_slice'[p] = e.slice
    OBVIOUS
  <2> HIDE DEF e
  <2>3. QED
    BY <2>1, <2>2
<1> DEFINE W == {q \in Procs : Waits(q)}
<1>3. \A l \in Level : \A q : q \in Elements(queue'[l]) <=> q \in W \cup {p} /\ rq'[q] = l
  <2>1. \A l \in Level : \A q : q \in Queued(l) <=> q \in W /\ rq[q] = l
    BY DEF MlfqInv, QueuesMatch
  <2>2. p \notin W /\ \A q \in W : rq'[q] = rq[q]
    BY <1>1, <1>2
  <2>3. \A l \in Level : \A q :
           q \in Elements(queue'[l]) <=> q \in Queued(l) \/ (q = p /\ l = rq'[p])
    BY <1>2
  <2> HIDE DEF W
  <2>4. QED
    BY <2>1, <2>2, <2>3
<1>4. \A q \in W \cup {p} : rq'[q] \in Level
  <2>1. \A q \in W : rq[q] # 0
    BY DEF MlfqInv, SlicesFit
  <2>2. \A q \in W : rq'[q] = rq[q] /\ rq[q] \in 0 .. Levels
    BY <1>1, <1>2 DEF TypeOK
  <2> HIDE DEF W
  <2>3. \A q \in W : rq'[q] \in Level
    BY <2>1, <2>2, MlfqAssumption DEF Level
  <2>4. rq'[p] \in Level
    BY <1>2
  <2>5. QED
    BY <2>3, <2>4
<1>5. W \cup {p} \in SUBSET Procs /\ Linked = W
  BY LinkedWait
<1> HIDE DEF W
<1>6. Linked' = W \cup {p}
  <2>1. UNION {Elements(queue'[l]) : l \in Level} = W \cup {p}
    BY <1>3, <1>4, LinkedFacts
  <2>2. QED
    BY <2>1 DEF Linked, Queued
<1>7. TypeOK'
  BY <1>1, <1>2, <1>5, <1>6 DEF TypeOK, Sched!SchedTypeOK, Sched!ProcStates
<1>8. QueuesMatch'
  <2>1. \A q : q \in W \cup {p} <=> q \in Procs /\ Waits(q)'
    BY <1>1 DEF W
  <2>2. QED
    BY <1>2, <1>3, <2>1 DEF QueuesMatch, Queued
<1>9. SlicesFit'
  <2>1. p # current /\ \A q \in Procs \ {p} : Waits(q) => q # current
    BY DEF Waits
  <2>2. ASSUME NEW q \in Procs, q # p
        PROVE  /\ Waits(q)' => rq'[q] # 0 /\ time_slice'[q] > 0
               /\ rq'[q] = 0 => time_slice'[q] = 0
               /\ rq'[q] # 0 => time_slice'[q] <= max_time_slice(rq'[q])
    <3>1. /\ rq'[q] = rq[q] /\ time_slice'[q] \in Nat /\ time_slice[q] \in Nat
          /\ rq[q] # 0 => max_time_slice(rq[q]) \in Nat
          /\ time_slice'[q] <= time_slice[q] /\ (Waits(q) => time_slice'[q] = time_slice[q])
      BY <1>1, <1>2, <2>1, <2>2, SliceFacts, MlfqAssumption, SMTT(40) DEF TypeOK, Level
    <3>2. QED
      BY <1>1, <2>2, <3>1 DEF MlfqInv, SlicesFit
  <2>3. QED
    BY <1>1, <1>2, <2>2, MlfqAssumption DEF SlicesFit, Level
<1>10. Sched!WaitStateWhileSleeping'
  BY <1>1 DEF MlfqInv, Sched!WaitStateWhileSleeping
<1>11. Sched!Wakeup({p})
  <2>1. state[p] # "RUNNABLE" /\ state[p] # "ZOMBIE" /\ p # current
    OBVIOUS
  <2>2. /\ state' = [q \in Procs |-> IF q = p THEN "RUNNABLE" ELSE state[q]]
        /\ wait_state' = [q \in Procs |-> IF q = p THEN "none" ELSE wait_state[q]]
    BY <1>1 DEF TypeOK, Sched!SchedTypeOK
  <2>3. {q \in {p} : state[q] # "RUNNABLE"} = {p} /\ {p} \ {current} = {p}
    BY <2>1
  <2>4. QED
    BY <1>5, <1>6, <2>1, <2>2, <2>3 DEF Sched!Wakeup
<1>12. Sched!SchedNext
  BY <1>11 DEF Sched!SchedNext
<1>13. QED
  BY <1>7, <1>8, <1>9, <1>10, <1>12 DEF MlfqInv

LEMMA WakeupSafe ==
    ASSUME MlfqInv, NEW p \in Procs, Wakeup(p)
    PROVE  MlfqInv' /\ Sched!SchedNext
<1>1. TypeOK /\ state[p] = "SLEEPING" /\ time_slice[p] \in Nat
  BY DEF MlfqInv, TypeOK, Wakeup
<1>2. CASE p = current
  <2>1. /\ state' = [state EXCEPT ![p] = "RUNNABLE"]
        /\ wait_state' = [wait_state EXCEPT ![p] = "none"]
        /\ UNCHANGED <<queue, rq, time_slice, current, panic, need_resched>>
    BY <1>2 DEF Wakeup
  <2>2. /\ \A q \in Procs : state'[q] = IF q = p THEN "RUNNABLE" ELSE state[q]
        /\ \A q \in Procs : wait_state'[q] = IF q = p THEN "none" ELSE wait_state[q]
        /\ \A q \in Procs : Waits(q)' <=> Waits(q)
        /\ Linked' = Linked
    BY <1>1, <1>2, <2>1 DEF TypeOK, Sched!SchedTypeOK, Waits, Linked, Queued
  <2>3. TypeOK'
    BY <1>1, <2>1, <2>2 DEF TypeOK, Sched!SchedTypeOK, Sched!ProcStates
  <2>4. QueuesMatch' /\ SlicesFit'
    BY <2>1, <2>2 DEF MlfqInv, QueuesMatch, SlicesFit, Queued
  <2>5. Sched!WaitStateWhileSleeping'
    BY <2>2 DEF MlfqInv, Sched!WaitStateWhileSleeping
  <2>6. Sched!Wakeup({p})
    <3>1. /\ state' = [q \in Procs |-> IF q = p THEN "RUNNABLE" ELSE state[q]]
          /\ wait_state' = [q \in Procs |-> IF q = p THEN "none" ELSE wait_state[q]]
      BY <1>1, <2>1, <2>2 DEF TypeOK, Sched!SchedTypeOK
    <3>2. {q \in {p} : state[q] # "RUNNABLE"} = {p} /\ {p} \ {current} = {} /\ state[p] # "ZOMBIE"
      BY <1>1, <1>2
    <3>3. QED
      BY <2>1, <2>2, <3>1, <3>2 DEF Sched!Wakeup
  <2>7. QED
    BY <1>1, <2>3, <2>4, <2>5, <2>6 DEF MlfqInv, Sched!SchedNext
<1>3. CASE p # current
  <2>1. /\ queue' = Enqueue(p, time_slice[p]).queue /\ rq' = Enqueue(p, time_slice[p]).rq
        /\ time_slice' = [time_slice EXCEPT ![p] = Enqueue(p, time_slice[p]).slice]
        /\ state' = [state EXCEPT ![p] = "RUNNABLE"]
        /\ wait_state' = [wait_state EXCEPT ![p] = "none"]
        /\ UNCHANGED <<current, panic, need_resched>>
    BY <1>3 DEF Wakeup
  <2>2. Enqueue(p, time_slice[p]).slice \in Nat
    BY <1>1, EnqueueFacts DEF Waits
  <2>3. /\ time_slice' \in [Procs -> Nat] /\ time_slice'[p] = Enqueue(p, time_slice[p]).slice
        /\ \A q \in Procs \ {p} : time_slice'[q] = time_slice[q] /\ time_slice'[q] <= time_slice[q]
    BY <1>1, <2>1, <2>2 DEF TypeOK
  <2>4. QED
    BY <1>1, <1>3, <2>1, <2>3, JoinSafe
<1>4. QED
  BY <1>2, <1>3

LEMMA ForkSafe ==
    ASSUME MlfqInv, NEW kid \in Procs, Fork(kid) \/ ForkInit(kid)
    PROVE  MlfqInv' /\ Sched!SchedNext
<1> DEFINE given == IF Fork(kid) THEN time_slice[current] \div 2 ELSE 0
           e == Enqueue(kid, given)
<1>1. /\ TypeOK /\ state[kid] = "UNINIT" /\ kid # current /\ given \in Nat
      /\ current \in Procs => given <= time_slice[current]
      /\ Fork(kid) => current \in Procs
  BY MlfqAssumption DEF MlfqInv, TypeOK, Fork, ForkInit
<1>2. /\ queue' = e.queue /\ rq' = e.rq /\ state' = [state EXCEPT ![kid] = "RUNNABLE"]
      /\ time_slice' = IF Fork(kid)
                       THEN [time_slice EXCEPT ![current] = @ - given, ![kid] = e.slice]
                       ELSE [time_slice EXCEPT ![kid] = e.slice]
      /\ UNCHANGED <<current, wait_state, panic, need_resched>>
  BY DEF Fork, ForkInit
<1>3. e.slice \in Nat
  BY <1>1, EnqueueFacts DEF Waits
<1> HIDE DEF e
<1>4. /\ time_slice' \in [Procs -> Nat] /\ time_slice'[kid] = e.slice
      /\ \A q \in Procs \ {kid} : /\ time_slice'[q] <= time_slice[q]
                                  /\ time_slice'[q] = time_slice[q] \/ q = current
  <2>1. CASE Fork(kid)
    <3>1. time_slice[current] \in Nat /\ time_slice[current] - given \in Nat
          /\ time_slice[current] - given <= time_slice[current]
      BY <1>1, <2>1 DEF TypeOK
    <3> HIDE DEF given
    <3>2. time_slice' = [time_slice EXCEPT ![current] = @ - given, ![kid] = e.slice]
      BY <1>2, <2>1
    <3>3. \A q \in Procs : time_slice'[q] = IF q = kid THEN e.slice
                               ELSE IF q = current THEN time_slice[q] - given ELSE time_slice[q]
      BY <1>1, <3>2 DEF TypeOK
    <3>4. time_slice' \in [Procs -> Nat]
      BY <1>1, <1>3, <3>1, <3>2 DEF TypeOK
    <3>5. QED
      BY <1>1, <3>1, <3>3, <3>4 DEF TypeOK
  <2>2. CASE ~Fork(kid)
    BY <1>1, <1>2, <1>3, <2>2 DEF TypeOK
  <2>3. QED
    BY <2>1, <2>2
<1>5. wait_state' = [wait_state EXCEPT ![kid] = "none"]
  <2>1. wait_state[kid] = "none" /\ wait_state \in [Procs -> WaitStates \cup {"none"}]
    BY <1>1 DEF MlfqInv, TypeOK, Sched!SchedTypeOK, Sched!WaitStateWhileSleeping
  <2>2. QED
    BY <1>2, <2>1
<1>6. QED
  BY <1>1, <1>2, <1>4, <1>5, JoinSafe DEF e

LEMMA StopSafe ==
    ASSUME MlfqInv,
           Stop("ZOMBIE", "none") \/ \E ws \in WaitStates : Stop("SLEEPING", ws)
    PROVE  MlfqInv' /\ Sched!SchedNext
<1>1. PICK to \in {"SLEEPING", "ZOMBIE"}, ws \in WaitStates \cup {"none"} :
          Stop(to, ws) /\ (to = "SLEEPING" <=> ws # "none")
  BY MlfqAssumption
<1>2. /\ TypeOK /\ current \in Procs /\ state[current] = "RUNNABLE" /\ wait_state[current] = "none"
      /\ state' = [state EXCEPT ![current] = to] /\ wait_state' = [wait_state EXCEPT ![current] = ws]
      /\ UNCHANGED <<current, panic, queue, rq, time_slice, need_resched>>
  BY <1>1 DEF Stop, MlfqInv, Sched!WaitStateWhileSleeping
<1>3. /\ \A q \in Procs : state'[q] = IF q = current THEN to ELSE state[q]
      /\ \A q \in Procs : wait_state'[q] = IF q = current THEN ws ELSE wait_state[q]
      /\ \A q \in Procs : Waits(q)' <=> Waits(q)
      /\ Linked' = Linked
  BY <1>2 DEF TypeOK, Sched!SchedTypeOK, Waits, Linked, Queued
<1>4. TypeOK'
  BY <1>1, <1>2, <1>3 DEF TypeOK, Sched!SchedTypeOK, Sched!ProcStates
<1>5. QueuesMatch' /\ SlicesFit'
  BY <1>2, <1>3 DEF MlfqInv, QueuesMatch, SlicesFit, Queued
<1>6. Sched!WaitStateWhileSleeping'
  BY <1>1, <1>3 DEF MlfqInv, Sched!WaitStateWhileSleeping
<1>7. Sched!SchedNext
  <2>1. CASE to = "SLEEPING"
    BY <1>1, <1>2, <1>3, <2>1 DEF Sched!SchedNext, Sched!Block
  <2>2. CASE to = "ZOMBIE"
    <3>1. wait_state' = wait_state
      BY <1>1, <1>2, <2>2 DEF TypeOK, Sched!SchedTypeOK
    <3>2. QED
      BY <1>2, <1>3, <2>2, <3>1 DEF Sched!SchedNext, Sched!Exit
  <2>3. QED
    BY <2>1, <2>2
<1>8. QED
  BY <1>4, <1>5, <1>6, <1>7 DEF MlfqInv

LEMMA ReapSafe ==
    ASSUME MlfqInv, NEW p \in Procs, Reap(p)
    PROVE  MlfqInv' /\ Sched!SchedNext
<1>1. /\ TypeOK /\ state[p] = "ZOMBIE" /\ p # current
      /\ state' = [state EXCEPT ![p] = "UNINIT"] /\ rq' = [rq EXCEPT ![p] = 0]
      /\ time_slice' = [time_slice EXCEPT ![p] = 0]
      /\ need_resched' = [need_resched EXCEPT ![p] = FALSE]
      /\ UNCHANGED <<current, wait_state, panic, queue>>
  BY DEF MlfqInv, Reap
<1>2. /\ \A q \in Procs : /\ state'[q] = IF q = p THEN "UNINIT" ELSE state[q]
                          /\ rq'[q] = IF q = p THEN 0 ELSE rq[q]
                          /\ time_slice'[q] = IF q = p THEN 0 ELSE time_slice[q]
      /\ \A q \in Procs : Waits(q)' <=> Waits(q)
      /\ ~Waits(p) /\ Linked' = Linked
  BY <1>1 DEF TypeOK, Sched!SchedTypeOK, Waits, Linked, Queued
<1>3. TypeOK'
  BY <1>1, <1>2, MlfqAssumption DEF TypeOK, Sched!SchedTypeOK, Sched!ProcStates
<1>4. QueuesMatch'
  <2>1. ASSUME NEW l \in Level
        PROVE  {q \in Procs : rq'[q] = l /\ Waits(q)'} = {q \in Procs : rq[q] = l /\ Waits(q)}
    BY <1>2
  <2>2. QED
    BY <1>1, <2>1 DEF MlfqInv, QueuesMatch, Queued
<1>5. SlicesFit'
  BY <1>2 DEF MlfqInv, SlicesFit
<1>6. Sched!WaitStateWhileSleeping'
  BY <1>1, <1>2 DEF MlfqInv, Sched!WaitStateWhileSleeping
<1>7. Sched!SchedNext
  BY <1>1, <1>2 DEF Sched!SchedNext, Sched!Reap
<1>8. QED
  BY <1>3, <1>4, <1>5, <1>6, <1>7 DEF MlfqInv

\* do_yield() and the timer interrupt change the slice and need_resched only.
LEMMA TickSafe ==
    ASSUME MlfqInv, Tick \/ Yield
    PROVE  MlfqInv' /\ UNCHANGED Sched!sched_vars
<1>1. /\ TypeOK /\ time_slice' \in [Procs -> Nat]
      /\ \A q \in Procs : /\ time_slice'[q] <= time_slice[q]
                          /\ time_slice'[q] = time_slice[q] \/ q = current
      /\ need_resched' \in [Procs \cup {Idle} -> BOOLEAN]
      /\ UNCHANGED <<current, state, wait_state, panic, queue, rq>>
  <2>1. CASE Yield
    BY <2>1 DEF MlfqInv, TypeOK, Yield
  <2>2. CASE Tick
    <3>1. TypeOK /\ current \in Procs \cup {Idle} /\ UNCHANGED <<current, state, wait_state, panic, queue, rq>>
      BY <2>2 DEF MlfqInv, TypeOK, Sched!SchedTypeOK, Tick
    <3>2. PICK every \in BOOLEAN : need_resched' = [need_resched EXCEPT ![current] =
              @ \/ every \/ current = Idle \/ time_slice'[current] = 0]
      BY <2>2 DEF Tick
    <3>3. need_resched' \in [Procs \cup {Idle} -> BOOLEAN]
      BY <3>1, <3>2 DEF TypeOK
    <3>4. time_slice' = IF current = Idle \/ time_slice[current] = 0 THEN time_slice
                        ELSE [time_slice EXCEPT ![current] = @ - 1]
      BY <2>2 DEF Tick
    <3>5. /\ time_slice' \in [Procs -> Nat]
          /\ \A q \in Procs : /\ time_slice'[q] <= time_slice[q]
                              /\ time_slice'[q] = time_slice[q] \/ q = current
      BY <3>1, <3>4 DEF TypeOK
    <3>6. QED
      BY <3>1, <3>3, <3>5
  <2>3. QED
    BY <2>1, <2>2
<1>2. Linked' = Linked /\ \A q \in Procs : Waits(q)' <=> Waits(q) /\ q # current
  BY <1>1 DEF Linked, Queued, Waits
<1>3. TypeOK'
  BY <1>1, <1>2 DEF TypeOK, Sched!SchedTypeOK
<1>4. QueuesMatch' /\ Sched!WaitStateWhileSleeping'
  BY <1>1 DEF MlfqInv, QueuesMatch, Queued, Waits, Sched!WaitStateWhileSleeping
<1>5. SlicesFit'
  <2>1. ASSUME NEW q \in Procs
        PROVE  /\ time_slice'[q] \in Nat /\ time_slice[q] \in Nat
               /\ rq[q] # 0 => max_time_slice(rq[q]) \in Nat
    BY <1>1, SliceFacts, MlfqAssumption DEF TypeOK, Level
  <2>2. QED
    BY <1>1, <1>2, <2>1 DEF MlfqInv, SlicesFit
<1>6. QED
  BY <1>1, <1>2, <1>3, <1>4, <1>5 DEF MlfqInv, Sched!sched_vars

LEMMA ScheduleSafe ==
    ASSUME MlfqInv, Schedule
    PROVE  MlfqInv' /\ Sched!SchedNext
<1> DEFINE again == current \in Procs /\ state[current] = "RUNNABLE"
           e == Enqueue(current, time_slice[current])
           Q == IF again THEN e.queue ELSE queue
           R == IF again THEN e.rq ELSE rq
           W == {p \in Procs : state[p] = "RUNNABLE"}
           next == Head(Q[FirstQueue(Q)])
\* the queues when the running process has joined, if it goes on
<1>1. /\ TypeOK /\ need_resched' = [need_resched EXCEPT ![current] = FALSE]
      /\ rq' = R
      /\ time_slice' = IF again THEN [time_slice EXCEPT ![current] = e.slice] ELSE time_slice
      /\ \/ (\A l \in Level : Q[l] = <<>>) /\ current' = Idle /\ queue' = Q
         \/ /\ \E l \in Level : Q[l] # <<>>
            /\ current' = next /\ queue' = [Q EXCEPT ![FirstQueue(Q)] = Tail(@)]
      /\ UNCHANGED <<state, wait_state, panic>>
  BY DEF Schedule, MlfqInv
<1>2. /\ Q \in [Level -> Seq(Procs)] /\ R \in [Procs -> 0 .. Levels]
      /\ \A l \in Level : Distinct(Q[l])
      /\ \A l \in Level : \A q : q \in Elements(Q[l]) <=> q \in W /\ R[q] = l
      /\ \A q \in W : R[q] \in Level /\ time_slice'[q] \in Nat \ {0}
      /\ \A q \in Procs : R[q] = 0 => time_slice'[q] = 0
      /\ \A q \in Procs : R[q] # 0 => time_slice'[q] <= max_time_slice(R[q])
      /\ time_slice' \in [Procs -> Nat]
  <2>1. /\ \A l \in Level : Distinct(queue[l])
        /\ \A l \in Level : \A q : q \in Queued(l) <=> q \in W /\ q # current /\ rq[q] = l
        /\ \A q \in W : q # current => rq[q] \in Level /\ time_slice[q] \in Nat \ {0}
    <3>1. \A p : p \in W /\ p # current <=> p \in Procs /\ Waits(p)
      BY DEF Waits
    <3> HIDE DEF W
    <3>2. \A p \in Procs : Waits(p) => rq[p] \in Level /\ time_slice[p] \in Nat \ {0}
      BY <1>1, MlfqAssumption DEF MlfqInv, SlicesFit, TypeOK, Level
    <3>3. QED
      BY <3>1, <3>2 DEF MlfqInv, QueuesMatch
  <2>2. CASE again
    <3>1. /\ e.queue \in [Level -> Seq(Procs)] /\ e.rq \in [Procs -> 0 .. Levels]
          /\ e.rq[current] \in Level /\ \A q \in Procs : q # current => e.rq[q] = rq[q]
          /\ \A l \in Level :
                /\ Distinct(e.queue[l])
                /\ Elements(e.queue[l]) = Queued(l) \cup (IF l = e.rq[current] THEN {current} ELSE {})
          /\ e.slice \in Nat \ {0} /\ e.slice <= max_time_slice(e.rq[current])
      BY <1>1, <2>2, EnqueueFacts DEF TypeOK, Waits
    <3> HIDE DEF e
    <3>2. Q = e.queue /\ R = e.rq
      BY <2>2
    <3>3. /\ time_slice' \in [Procs -> Nat]
          /\ \A q \in Procs : time_slice'[q] = IF q = current THEN e.slice ELSE time_slice[q]
      BY <1>1, <2>2, <3>1 DEF TypeOK
    <3>4. \A l \in Level : \A q :
             q \in Elements(e.queue[l]) <=> q \in Queued(l) \/ (q = current /\ l = e.rq[current])
      BY <3>1
    <3>5. \A l \in Level : \A q : q \in Elements(Q[l]) <=> q \in W /\ R[q] = l
      BY <2>1, <2>2, <3>1, <3>2, <3>4
    <3>6. \A q \in W : R[q] \in Level /\ time_slice'[q] \in Nat \ {0}
      BY <2>1, <3>1, <3>2, <3>3
    <3>7. /\ \A q \in Procs : R[q] = 0 => time_slice'[q] = 0
          /\ \A q \in Procs : R[q] # 0 => time_slice'[q] <= max_time_slice(R[q])
      <4> HIDE DEF Q, R
      <4>1. R[current] # 0 /\ time_slice'[current] = e.slice /\ R[current] = e.rq[current]
        BY <2>2, <3>1, <3>2, <3>3, MlfqAssumption DEF Level
      <4>2. \A q \in Procs : q # current => R[q] = rq[q] /\ time_slice'[q] = time_slice[q]
        BY <3>1, <3>2, <3>3
      <4>3. QED
        BY <3>1, <4>1, <4>2 DEF MlfqInv, SlicesFit
    <3>8. QED
      BY <3>1, <3>2, <3>3, <3>5, <3>6, <3>7
  <2>3. CASE ~again
    <3>1. Q = queue /\ R = rq /\ time_slice' = time_slice /\ current \notin W
      BY <1>1, <2>3
    <3> HIDE DEF Q, R
    <3>2. QED
      BY <1>1, <2>1, <3>1 DEF MlfqInv, SlicesFit, TypeOK, Queued
  <2>4. QED
    BY <2>2, <2>3
<1>3. {p \in Procs : p \in Linked \/ (p = current /\ state[p] = "RUNNABLE")} = W
  BY LinkedWait DEF Waits
<1> HIDE DEF Q, R, W, again, e
\* what it leaves in them
<1>4. /\ queue' \in [Level -> Seq(Procs)] /\ current' \in Procs \cup {Idle}
      /\ \A l \in Level : Distinct(queue'[l])
      /\ \A l \in Level : \A q : q \in Elements(queue'[l]) <=> q \in W \ {current'} /\ R[q] = l
      /\ (current' = Idle /\ W = {}) \/ current' \in W
  <2>1. CASE (\A l \in Level : Q[l] = <<>>) /\ current' = Idle /\ queue' = Q
    <3>1. \A l \in Level : Elements(Q[l]) = {}
      BY <2>1 DEF Elements
    <3>2. W = {}
      BY <1>2, <3>1
    <3>3. QED
      BY <1>2, <2>1, <3>2
  <2>2. CASE /\ \E l \in Level : Q[l] # <<>>
             /\ current' = next /\ queue' = [Q EXCEPT ![FirstQueue(Q)] = Tail(@)]
    <3> DEFINE top == FirstQueue(Q)
    <3>1. top \in Level /\ Q[top] # <<>> /\ Q[top] \in Seq(Procs) /\ Distinct(Q[top])
      BY <1>2, <2>2, FirstFacts
    <3>2. /\ Tail(Q[top]) \in Seq(Procs) /\ next \in Elements(Q[top]) /\ Distinct(Tail(Q[top]))
          /\ Elements(Tail(Q[top])) = Elements(Q[top]) \ {next}
      BY <3>1, TailFacts
    <3> HIDE DEF top, next
    <3>3. next \in W /\ R[next] = top
      BY <1>2, <3>1, <3>2
    <3>4. /\ queue' \in [Level -> Seq(Procs)]
          /\ \A l \in Level : queue'[l] = IF l = top THEN Tail(Q[top]) ELSE Q[l]
      BY <1>2, <2>2, <3>1, <3>2 DEF top
    <3>5. \A l \in Level : \A q : q \in Elements(queue'[l]) <=> q \in W \ {next} /\ R[q] = l
      <4>1. ASSUME NEW l \in Level, l = top, NEW q
            PROVE  q \in Elements(queue'[l]) <=> q \in W \ {next} /\ R[q] = l
        BY <1>2, <3>1, <3>2, <3>4, <4>1
      <4>2. ASSUME NEW l \in Level, l # top, NEW q
            PROVE  q \in Elements(queue'[l]) <=> q \in W \ {next} /\ R[q] = l
        BY <1>2, <3>3, <3>4, <4>2
      <4>3. QED
        BY <4>1, <4>2
    <3>6. \A l \in Level : Distinct(queue'[l])
      <4>1. ASSUME NEW l \in Level, l = top PROVE Distinct(queue'[l])
        BY <3>2, <3>4, <4>1
      <4>2. ASSUME NEW l \in Level, l # top PROVE Distinct(queue'[l])
        BY <1>2, <3>4, <4>2
      <4>3. QED
        BY <4>1, <4>2
    <3>7. current' = next /\ next \in Procs
      BY <2>2, <3>3 DEF W
    <3>8. QED
      BY <3>3, <3>4, <3>5, <3>6, <3>7
  <2>3. QED
    BY <1>1, <2>1, <2>2
<1>5. W \in SUBSET Procs /\ \A q \in Procs : Waits(q)' <=> q \in W \ {current'}
  BY <1>1 DEF W, Waits
<1>6. Linked' = W \ {current'}
  <2>1. \A q \in W \ {current'} : R[q] \in Level
    BY <1>2
  <2>2. UNION {Elements(queue'[l]) : l \in Level} = W \ {current'}
    BY <1>4, <2>1, LinkedFacts
  <2>3. QED
    BY <2>2 DEF Linked, Queued
<1>7. TypeOK'
  BY <1>1, <1>2, <1>4, <1>5, <1>6 DEF TypeOK, Sched!SchedTypeOK
<1>8. QueuesMatch'
  BY <1>1, <1>4, <1>5 DEF QueuesMatch, Queued
<1>9. SlicesFit'
  BY <1>1, <1>2, <1>5, MlfqAssumption, SMTT(40) DEF SlicesFit, Level
<1>10. Sched!WaitStateWhileSleeping'
  BY <1>1 DEF MlfqInv, Sched!WaitStateWhileSleeping
<1>11. Sched!Reschedule
  BY <1>1, <1>3, <1>4, <1>6 DEF Sched!Reschedule
<1>12. QED
  BY <1>7, <1>8, <1>9, <1>10, <1>11 DEF MlfqInv, Sched!SchedNext

-----------------------------------------------------------------------------
(* Together *)

LEMMA MlfqStep ==
    MlfqInv /\ [Next]_vars => MlfqInv' /\ [Sched!SchedNext]_(Sched!sched_vars)
<1> SUFFICES ASSUME MlfqInv, [Next]_vars
             PROVE  MlfqInv' /\ [Sched!SchedNext]_(Sched!sched_vars)
  OBVIOUS
<1>1. ASSUME NEW p \in Procs, Wakeup(p) \/ Fork(p) \/ ForkInit(p) \/ Reap(p)
      PROVE  MlfqInv' /\ Sched!SchedNext
  BY <1>1, WakeupSafe, ForkSafe, ReapSafe
<1>2. CASE UNCHANGED vars
  BY <1>2 DEF vars, MlfqInv, TypeOK, QueuesMatch, SlicesFit, Waits, Queued, Linked,
              Sched!SchedTypeOK, Sched!WaitStateWhileSleeping, Sched!sched_vars
<1>3. QED
  BY <1>1, <1>2, StopSafe, ScheduleSafe, TickSafe DEF Next

LEMMA MlfqAlways == Spec => []MlfqInv
<1>1. MlfqInv /\ [Next]_vars => MlfqInv'
  BY MlfqStep
<1>2. QED
  BY <1>1, MlfqInit, PTL DEF Spec

\* A queue that holds every process once has one place of it.
LEMMA MatchingQueues == MlfqInv => QueuesConsistent
<1> SUFFICES ASSUME MlfqInv PROVE QueuesConsistent
  OBVIOUS
<1>1. ASSUME NEW p \in Procs, NEW l \in Level
      PROVE  Cardinality({i \in DOMAIN queue[l] : queue[l][i] = p}) =
             IF l = rq[p] /\ state[p] = "RUNNABLE" /\ p # current THEN 1 ELSE 0
  <2> DEFINE P == {i \in DOMAIN queue[l] : queue[l][i] = p}
  <2>1. p \in Queued(l) <=> l = rq[p] /\ state[p] = "RUNNABLE" /\ p # current
    BY DEF MlfqInv, QueuesMatch, Waits
  <2>2. CASE p \in Queued(l)
    <3>1. PICK i \in DOMAIN queue[l] : queue[l][i] = p
      BY <2>2 DEF Queued, Elements
    <3>2. P = {i}
      BY <3>1 DEF MlfqInv, QueuesMatch, Distinct
    <3>3. Cardinality({i}) = 1
      BY FS_Singleton
    <3>4. QED
      BY <2>1, <2>2, <3>2, <3>3
  <2>3. CASE p \notin Queued(l)
    <3>1. P = {}
      BY <2>3 DEF Queued, Elements
    <3>2. QED
      BY <2>1, <2>3, <3>1, FS_EmptySet
  <2>4. QED
    BY <2>2, <2>3
<1>2. \A p \in Procs : time_slice[p] <= IF rq[p] = 0 THEN 0 ELSE max_time_slice(rq[p])
  BY DEF MlfqInv, SlicesFit, TypeOK
<1>3. \A p \in Procs : state[p] = "RUNNABLE" /\ p # current => rq[p] # 0 /\ time_slice[p] > 0
  BY DEF MlfqInv, SlicesFit, Waits
<1>4. QED
  BY <1>1, <1>2, <1>3 DEF QueuesConsistent, MlfqInv

\* Every process that is runnable and does not run is linked once, into the
\* queue that its rq names, with a time slice that it can use; nobody else is.
THEOREM QueuesStayConsistent == Spec => []QueuesConsistent
  BY MlfqAlways, MatchingQueues, PTL

\* The feedback queues implement the scheduler core that all other modules
\* build on: whatever sleeping, waking, forking and ticking does to queues and
\* slices, schedule() loses no process and takes none that is not queued.
THEOREM MlfqImplementsScheduler == Spec => ImplementsScheduler
<1>1. Init => \E live \in SUBSET Procs : Sched!SchedInit(live)
  <2>1. ASSUME Init PROVE Sched!SchedInit({})
    BY <2>1 DEF Init, Sched!SchedInit, Linked, Queued, Elements
  <2>2. QED
    BY <2>1
<1>2. MlfqInv /\ [Next]_vars => [Sched!SchedNext]_(Sched!sched_vars)
  BY MlfqStep
<1>3. QED
  BY <1>1, <1>2, MlfqAlways, PTL DEF Spec, ImplementsScheduler, Sched!SchedSpec
=============================================================================

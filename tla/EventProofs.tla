---------------------------- MODULE EventProofs ----------------------------
(***************************************************************************)
(* Events are delivered to whoever waits for them, a sender learns exactly *)
(* whether its event was taken, and nobody sleeps for what has come, for   *)
(* any number of processes, values and timeouts.                           *)
(***************************************************************************)
EXTENDS Event, SchedulerProofs, ListsProofs

-----------------------------------------------------------------------------
(* The inductive invariant *)

InSend == {"s_schedule", "s_resume"}

\* Where a process is and what it is: it sleeps in a call, it is dead at the
\* end of __do_exit(), and only the running process is between two calls of
\* schedule(); a timer belongs to a call that goes on.
PhasesMatch ==
    \A p \in Procs :
        /\ state[p] = "SLEEPING" => \/ wait_state[p] = "WT_EVENT_SEND" /\ pc[p] \in InSend
                                    \/ wait_state[p] = "WT_EVENT_RECV" /\ pc[p] \in Receiving
        /\ state[p] \in {"ZOMBIE", "UNINIT"} <=> pc[p] \in {"exit", "dead"}
        /\ state[p] = "UNINIT" => pc[p] = "dead"
        /\ pc[p] \in {"send", "s_schedule", "r_schedule", "exit"} => p = current
        /\ p = current /\ state[p] # "RUNNABLE" => pc[p] \in {"s_schedule", "r_schedule", "exit", "dead"}
        /\ timer[p] # NoTimer => pc[p] \in InSend \cup Receiving

\* Between the wakeup of the receiver and the wait of the sender the receiver
\* lives, is awake, and has not got the event.
SendUnderWay ==
    \A p \in Procs : pc[p] = "send" =>
        /\ received[p] = NoEvent
        /\ pc[target[p]] \notin {"exit", "dead"}
        /\ wait_state[target[p]] # "WT_EVENT_RECV"

EventInv ==
    /\ SchedInv /\ panic = "none"
    /\ SuccessIffReceived /\ NothingMissed /\ SendersWait
    /\ PhasesMatch /\ SendUnderWay
    /\ \A q \in Procs : Distinct(box[q])

\* The types, for the steps below.
LEMMA EventTypes ==
    ASSUME EventInv
    PROVE  /\ TypeOK /\ SchedTypeOK
           /\ \A p \in Procs : /\ box[p] \in Seq(Procs) /\ Distinct(box[p]) /\ InBox(p) \subseteq Procs
                               /\ box[p] = <<>> <=> InBox(p) = {}
                               /\ target[p] \in Procs
<1>1. TypeOK /\ SchedTypeOK
  BY DEF EventInv, SendersWait, SchedInv
<1>2. ASSUME NEW p \in Procs
      PROVE  /\ box[p] \in Seq(Procs) /\ InBox(p) \subseteq Procs
             /\ box[p] = <<>> <=> InBox(p) = {} 
  BY <1>1, ElementsFacts DEF TypeOK, InBox
<1>3. QED
  BY <1>1, <1>2 DEF EventInv, TypeOK

\* A wakeup of processes that are not dead or free: what it changes.
LEMMA WakesLiving ==
    ASSUME EventInv, NEW W \in SUBSET Procs, Wakeup(W), \A q \in W : state[q] # "ZOMBIE"
    PROVE  /\ SchedInv' /\ panic' = "none" /\ current' = current
           /\ state' \in [Procs -> ProcStates]
           /\ \A q \in Procs : state'[q] = IF q \in W THEN "RUNNABLE" ELSE state[q]
           /\ \A q \in Procs : wait_state'[q] = IF q \in W THEN "none" ELSE wait_state[q]
<1>1. SchedInv' /\ panic' = "none" /\ current' = current
  BY WakeupKeepsQueue DEF EventInv, Wakeup
<1>2. \A q \in Procs : state'[q] = IF q \in W THEN "RUNNABLE" ELSE state[q]
  BY DEF Wakeup
<1>3. \A q \in Procs : wait_state'[q] = IF q \in W THEN "none" ELSE wait_state[q]
  BY SchedAssumption DEF Wakeup, EventInv, SchedInv, SchedTypeOK, WaitStateWhileSleeping
<1>4. QED
  BY <1>1, <1>2, <1>3 DEF SchedInv, SchedTypeOK

LEMMA EventInit == Init => EventInv
<1> SUFFICES ASSUME Init PROVE EventInv
  OBVIOUS
<1> USE DEF Init, SchedInit
<1>1. SchedInv
  BY SchedAssumption
  DEF SchedInv, SchedTypeOK, ProcStates, OnRunQueue, WaitStateWhileSleeping
<1>2. \A q \in Procs : Distinct(box[q]) /\ InBox(q) = {} /\ box[q] \in Seq(Procs)
  BY DEF Distinct, InBox, Elements
<1>3. PhasesMatch /\ SendUnderWay
  BY DEF PhasesMatch, SendUnderWay
<1>4. SuccessIffReceived /\ NothingMissed
  BY EventAssumption DEF SuccessIffReceived, NothingMissed
<1>5. SendersWait
  BY <1>1, <1>2, EventAssumption, SchedAssumption
  DEF SendersWait, TypeOK, SchedInv, NoEvent, Sending, Receiving
<1>6. QED
  BY <1>1, <1>2, <1>3, <1>4, <1>5 DEF EventInv

-----------------------------------------------------------------------------
(* Sends *)

LEMMA SendSafe ==
    ASSUME EventInv, NEW p \in Procs, current = p, NEW to \in Procs, Send(p, to)
    PROVE  EventInv'
<1> DEFINE W == IF wait_state[to] = "WT_EVENT_RECV" THEN {to} ELSE {}
<1>1. /\ pc[p] = "user" /\ to # p /\ state[to] \notin {"UNINIT", "ZOMBIE"}
      /\ Wakeup(W)
      /\ target' = [target EXCEPT ![p] = to] /\ received' = [received EXCEPT ![p] = NoEvent]
      /\ pc' = [pc EXCEPT ![p] = "send"]
      /\ UNCHANGED <<box, wakeup_flags, timer, killed>>
  BY DEF Send, Goto
<1>2. PICK v \in Values : event' = [event EXCEPT ![p] = v]
  BY DEF Send
<1>3. W \in SUBSET Procs /\ \A q \in W : q = to
  OBVIOUS
<1>4. wait_state[to] = "WT_EVENT_RECV" => W = {to}
  OBVIOUS
<1> HIDE DEF W
<1>5. /\ SchedInv' /\ panic' = "none" /\ current' = current
      /\ \A q \in Procs : state'[q] = IF q \in W THEN "RUNNABLE" ELSE state[q]
      /\ \A q \in Procs : wait_state'[q] = IF q \in W THEN "none" ELSE wait_state[q]
  BY <1>1, <1>3, WakesLiving
<1>6. state[p] = "RUNNABLE" /\ \A q \in Procs : p \notin InBox(q)
  BY <1>1 DEF EventInv, PhasesMatch, SendersWait, SchedInv, SchedTypeOK, ProcStates
<1>7. /\ TypeOK'
      /\ \A q \in Procs : /\ pc'[q] = IF q = p THEN "send" ELSE pc[q]
                          /\ target'[q] = IF q = p THEN to ELSE target[q]
                          /\ received'[q] = IF q = p THEN NoEvent ELSE received[q]
                          /\ event'[q] = IF q = p THEN v ELSE event[q]
  BY <1>1, <1>2, <1>5 DEF EventInv, SendersWait, TypeOK, SchedInv, Sending
<1>8. PhasesMatch'
  BY <1>1, <1>3, <1>5, <1>6, <1>7 DEF EventInv, PhasesMatch, InSend, Receiving
<1>9. SendUnderWay'
  <2>1. \A q \in Procs : pc'[q] = "send" => q = p
    BY <1>1, <1>7 DEF EventInv, PhasesMatch
  <2>2. pc[to] \notin {"exit", "dead"} /\ wait_state'[to] # "WT_EVENT_RECV"
    BY <1>1, <1>3, <1>4, <1>5 DEF EventInv, PhasesMatch
  <2>3. QED
    BY <1>1, <1>7, <2>1, <2>2 DEF SendUnderWay
<1>10. SuccessIffReceived'
  <2>1. \A q \in Procs : state'[q] # "ZOMBIE" => state[q] # "ZOMBIE" \/ q = to
    BY <1>3, <1>5
  <2>2. QED
    BY <1>1, <1>7, <2>1 DEF EventInv, SuccessIffReceived
<1>11. NothingMissed'
  BY <1>1, <1>3, <1>5 DEF EventInv, NothingMissed
<1>12. SendersWait'
  <2>1. \A q \in Procs : InBox(q)' = InBox(q)
    BY <1>1 DEF InBox
  <2>2. \A q \in Procs : wait_state'[q] = "WT_EVENT_SEND" => q # p /\ wait_state[q] = "WT_EVENT_SEND"
    BY <1>3, <1>5, <1>6, SchedAssumption DEF EventInv, SchedInv, WaitStateWhileSleeping
  <2>3. ASSUME NEW q \in Procs, wait_state'[q] = "WT_EVENT_SEND"
        PROVE  q \in InBox(target'[q]) /\ pc'[target'[q]] # "dead"
    BY <1>7, <2>2, <2>3, EventTypes DEF EventInv, SendersWait
  <2>4. ASSUME NEW q \in Procs, NEW r \in InBox(q)
        PROVE  /\ pc'[r] \in {"s_schedule", "s_resume"} /\ target'[r] = q
               /\ wakeup_flags'[r] = "WT_INTERRUPTED" /\ state'[r] # "ZOMBIE"
    BY <1>1, <1>5, <1>6, <1>7, EventTypes DEF EventInv, SendersWait
  <2>5. \A q \in Procs : pc'[q] = "dead" \/ state'[q] = "UNINIT" => box'[q] = <<>>
    BY <1>1, <1>5, <1>7 DEF EventInv, SendersWait
  <2>6. QED
    BY <1>1, <1>7, <2>1, <2>3, <2>4, <2>5 DEF SendersWait, TypeOK
<1>13. \A q \in Procs : Distinct(box[q])'
  BY <1>1 DEF EventInv, Distinct
<1>14. QED
  BY <1>5, <1>8, <1>9, <1>10, <1>11, <1>12, <1>13 DEF EventInv

\* The running process goes to sleep: what that changes.
LEMMA BlocksCurrent ==
    ASSUME EventInv, NEW p \in Procs, current = p, state[p] = "RUNNABLE",
           NEW ws \in WaitStates, Block(ws)
    PROVE  /\ SchedInv' /\ panic' = "none" /\ current' = current
           /\ \A q \in Procs : state'[q] = IF q = p THEN "SLEEPING" ELSE state[q]
           /\ \A q \in Procs : wait_state'[q] = IF q = p THEN ws ELSE wait_state[q]
<1>1. SchedNext
  BY DEF SchedNext
<1>2. SchedInv'
  BY <1>1, SchedInvInductive DEF EventInv
<1>3. QED
  BY <1>2 DEF Block, EventInv, SchedInv, SchedTypeOK

LEMMA SendBlockSafe ==
    ASSUME EventInv, NEW p \in Procs, current = p, SendBlock(p)
    PROVE  EventInv'
<1> DEFINE to == target[p]
<1>1. /\ pc[p] = "send" /\ Block("WT_EVENT_SEND")
      /\ box' = [box EXCEPT ![to] = AddLast(@, p)]
      /\ wakeup_flags' = [wakeup_flags EXCEPT ![p] = "WT_INTERRUPTED"]
      /\ pc' = [pc EXCEPT ![p] = "s_schedule"]
      /\ UNCHANGED <<event, target, received, killed>>
  BY DEF SendBlock, Goto
<1>2. PICK t \in Timeouts \cup {NoTimer} : timer' = [timer EXCEPT ![p] = t]
  BY DEF SendBlock, StartTimer
<1>3. /\ TypeOK /\ to \in Procs /\ state[p] = "RUNNABLE"
      /\ received[p] = NoEvent /\ pc[to] \notin {"exit", "dead"} /\ wait_state[to] # "WT_EVENT_RECV"
      /\ \A q \in Procs : pc[q] = "send" => q = p
  BY <1>1, EventTypes DEF EventInv, PhasesMatch, SendUnderWay
<1>4. \A q \in Procs : p \notin InBox(q)
  BY <1>1 DEF EventInv, SendersWait
<1> HIDE DEF to
<1>5. /\ SchedInv' /\ panic' = "none" /\ current' = current
      /\ \A q \in Procs : state'[q] = IF q = p THEN "SLEEPING" ELSE state[q]
      /\ \A q \in Procs : wait_state'[q] = IF q = p THEN "WT_EVENT_SEND" ELSE wait_state[q]
  BY <1>1, <1>3, BlocksCurrent, EventAssumption
<1>6. /\ AddLast(box[to], p) \in Seq(Procs) /\ Distinct(AddLast(box[to], p))
      /\ Elements(AddLast(box[to], p)) = InBox(to) \cup {p}
  BY <1>3, <1>4, EventTypes, AddLastFacts DEF InBox
<1>7. /\ TypeOK'
      /\ \A q \in Procs : /\ pc'[q] = IF q = p THEN "s_schedule" ELSE pc[q]
                          /\ box'[q] = IF q = to THEN AddLast(box[to], p) ELSE box[q]
                          /\ timer'[q] = IF q = p THEN t ELSE timer[q]
                          /\ wakeup_flags'[q] = IF q = p THEN "WT_INTERRUPTED" ELSE wakeup_flags[q]
  BY <1>1, <1>2, <1>3, <1>5, <1>6, EventAssumption DEF TypeOK, SchedInv, Sending
<1>8. \A q \in Procs : InBox(q)' = IF q = to THEN InBox(q) \cup {p} ELSE InBox(q)
  BY <1>6, <1>7 DEF InBox
<1>9. PhasesMatch'
  BY <1>1, <1>3, <1>5, <1>7 DEF EventInv, PhasesMatch, InSend, Receiving
<1>10. SendUnderWay'
  BY <1>3, <1>7 DEF SendUnderWay
<1>11. SuccessIffReceived'
  BY <1>1, <1>3, <1>5, <1>7 DEF EventInv, SuccessIffReceived
<1>12. NothingMissed'
  <2>1. t # NoTimer => t > 0
    BY EventAssumption
  <2>2. QED
    BY <1>1, <1>3, <1>5, <1>7, <2>1 DEF EventInv, NothingMissed
<1>13. SendersWait'
  <2>1. ASSUME NEW q \in Procs, wait_state'[q] = "WT_EVENT_SEND", NEW r \in Procs, target[q] = r
        PROVE  q \in InBox(r)' /\ pc'[r] # "dead"
    <3>1. CASE q = p
      BY <1>3, <1>7, <1>8, <2>1, <3>1 DEF to
    <3>2. CASE q # p
      BY <1>5, <1>7, <1>8, <2>1, <3>2, EventTypes DEF EventInv, SendersWait
    <3>3. QED
      BY <3>1, <3>2
  <2>2. ASSUME NEW q \in Procs, NEW r \in InBox(q)'
        PROVE  /\ pc'[r] \in {"s_schedule", "s_resume"} /\ target[r] = q
               /\ wakeup_flags'[r] = "WT_INTERRUPTED" /\ state'[r] # "ZOMBIE"
    <3>1. CASE r = p
      BY <1>4, <1>5, <1>7, <1>8, <2>2, <3>1 DEF to
    <3>2. CASE r # p
      <4>1. r \in InBox(q) /\ r \in Procs
        BY <1>8, <2>2, <3>2, EventTypes
      <4>2. QED
        BY <1>5, <1>7, <3>2, <4>1 DEF EventInv, SendersWait
    <3>3. QED
      BY <3>1, <3>2
  <2>3. \A q \in Procs : pc'[q] = "dead" \/ state'[q] = "UNINIT" => box'[q] = <<>>
    BY <1>3, <1>5, <1>7 DEF EventInv, SendersWait, PhasesMatch
  <2>4. \A q \in Procs : target'[q] = target[q] /\ target[q] \in Procs
    BY <1>1, EventTypes
  <2>5. QED
    BY <1>1, <1>7, <2>1, <2>2, <2>3, <2>4 DEF SendersWait
<1>14. \A q \in Procs : Distinct(box[q])'
  BY <1>6, <1>7 DEF EventInv, Distinct
<1>15. QED
  BY <1>5, <1>9, <1>10, <1>11, <1>12, <1>13, <1>14 DEF EventInv

LEMMA SendResumeSafe ==
    ASSUME EventInv, NEW p \in Procs, current = p, SendResume(p)
    PROVE  EventInv'
<1> DEFINE to == target[p]
<1>1. /\ pc[p] = "s_resume"
      /\ box' = [box EXCEPT ![to] = Unlink(@, p)]
      /\ timer' = [timer EXCEPT ![p] = NoTimer]
      /\ pc' = [pc EXCEPT ![p] = "return"]
      /\ UNCHANGED <<sched_vars, event, target, wakeup_flags, received, killed>>
  BY DEF SendResume, Goto, StopTimer
<1>2. TypeOK /\ to \in Procs /\ state[p] = "RUNNABLE" /\ wait_state[p] = "none"
  BY <1>1, EventTypes DEF EventInv, PhasesMatch, SchedInv, WaitStateWhileSleeping
<1> HIDE DEF to
<1>3. /\ Unlink(box[to], p) \in Seq(Procs) /\ Distinct(Unlink(box[to], p))
      /\ Elements(Unlink(box[to], p)) = InBox(to) \ {p}
  BY <1>2, EventTypes, UnlinkFacts DEF InBox
<1>4. /\ TypeOK' /\ SchedInv' /\ panic' = "none"
      /\ UNCHANGED <<current, state, wait_state>>
      /\ \A q \in Procs : /\ pc'[q] = IF q = p THEN "return" ELSE pc[q]
                          /\ box'[q] = IF q = to THEN Unlink(box[to], p) ELSE box[q]
                          /\ timer'[q] = IF q = p THEN NoTimer ELSE timer[q]
  BY <1>1, <1>2, <1>3 DEF TypeOK, EventInv, sched_vars, SchedInv, SchedTypeOK, OnRunQueue, WaitStateWhileSleeping
<1>5. /\ \A q \in Procs : InBox(q)' = IF q = to THEN InBox(q) \ {p} ELSE InBox(q)
      /\ \A q \in Procs : box[q] = <<>> => box'[q] = <<>>
  <2>1. box[to] = <<>> => Unlink(box[to], p) = <<>>
    BY <1>2, <1>3, EventTypes, ElementsFacts
  <2>2. QED
    BY <1>3, <1>4, <2>1 DEF InBox
<1>6. PhasesMatch'
  BY <1>1, <1>2, <1>4 DEF EventInv, PhasesMatch, InSend, Receiving
<1>7. SendUnderWay'
  <2>1. \A q \in Procs : pc'[q] = "send" => q # p /\ pc[q] = "send"
    BY <1>4
  <2>2. QED
    BY <1>1, <1>4, <2>1, EventTypes DEF EventInv, SendUnderWay
<1>8. SuccessIffReceived'
  BY <1>1, <1>4 DEF EventInv, SuccessIffReceived
<1>9. NothingMissed'
  BY <1>1, <1>4, <1>5 DEF EventInv, NothingMissed
<1>10. SendersWait'
  <2>1. ASSUME NEW q \in Procs, wait_state[q] = "WT_EVENT_SEND", NEW r \in Procs, target[q] = r
        PROVE  q \in InBox(r)' /\ pc'[r] # "dead"
    BY <1>2, <1>4, <1>5, <2>1, EventTypes DEF EventInv, SendersWait
  <2>2. ASSUME NEW q \in Procs, NEW r \in InBox(q)'
        PROVE  /\ pc'[r] \in {"s_schedule", "s_resume"} /\ target[r] = q
               /\ wakeup_flags'[r] = "WT_INTERRUPTED" /\ state'[r] # "ZOMBIE"
    <3>1. r \in InBox(q) /\ r \in Procs
      BY <1>5, EventTypes
    <3>2. r # p
      BY <1>5, <3>1 DEF to, EventInv, SendersWait
    <3>3. QED
      BY <1>1, <1>4, <3>1, <3>2 DEF EventInv, SendersWait
  <2>3. \A q \in Procs : pc'[q] = "dead" \/ state'[q] = "UNINIT" => box'[q] = <<>>
    BY <1>4, <1>5 DEF EventInv, SendersWait
  <2>4. \A q \in Procs : target'[q] = target[q] /\ target[q] \in Procs
    BY <1>1, EventTypes
  <2>5. QED
    BY <1>1, <1>4, <2>1, <2>2, <2>3, <2>4 DEF SendersWait
<1>11. \A q \in Procs : Distinct(box[q])'
  BY <1>3, <1>4 DEF EventInv, Distinct
<1>12. QED
  BY <1>4, <1>6, <1>7, <1>8, <1>9, <1>10, <1>11 DEF EventInv

-----------------------------------------------------------------------------
(* Receives *)

LEMMA RecvBlockSafe ==
    ASSUME EventInv, NEW p \in Procs, current = p, RecvBlock(p)
    PROVE  EventInv'
<1>1. /\ pc[p] = "user" /\ box[p] = <<>> /\ Block("WT_EVENT_RECV")
      /\ pc' = [pc EXCEPT ![p] = "r_schedule"]
      /\ UNCHANGED <<box, event, target, wakeup_flags, received, killed>>
  BY DEF RecvBlock, Goto, event_vars
<1>2. PICK t \in Timeouts \cup {NoTimer} : timer' = [timer EXCEPT ![p] = t]
  BY DEF RecvBlock, StartTimer
<1>3. TypeOK /\ state[p] = "RUNNABLE" /\ \A q \in Procs : p \notin InBox(q) /\ pc[q] # "send"
  BY <1>1, EventTypes DEF EventInv, PhasesMatch, SendersWait, SchedTypeOK, ProcStates
<1>4. /\ SchedInv' /\ panic' = "none" /\ current' = current
      /\ \A q \in Procs : state'[q] = IF q = p THEN "SLEEPING" ELSE state[q]
      /\ \A q \in Procs : wait_state'[q] = IF q = p THEN "WT_EVENT_RECV" ELSE wait_state[q]
  BY <1>1, <1>3, BlocksCurrent, EventAssumption
<1>5. /\ TypeOK'
      /\ \A q \in Procs : /\ pc'[q] = IF q = p THEN "r_schedule" ELSE pc[q]
                          /\ timer'[q] = IF q = p THEN t ELSE timer[q]
                          /\ InBox(q)' = InBox(q)
  BY <1>1, <1>2, <1>3, <1>4, EventAssumption DEF TypeOK, SchedInv, Receiving, InBox
<1>6. PhasesMatch'
  BY <1>1, <1>3, <1>4, <1>5 DEF EventInv, PhasesMatch, InSend, Receiving
<1>7. SendUnderWay'
  BY <1>3, <1>5 DEF SendUnderWay
<1>8. SuccessIffReceived'
  BY <1>1, <1>4, <1>5 DEF EventInv, SuccessIffReceived
<1>9. NothingMissed'
  <2>1. t # NoTimer => t > 0
    BY EventAssumption
  <2>2. QED
    BY <1>1, <1>4, <1>5, <2>1 DEF EventInv, NothingMissed
<1>10. SendersWait'
  <2>1. ASSUME NEW q \in Procs, wait_state'[q] = "WT_EVENT_SEND", NEW r \in Procs, target[q] = r
        PROVE  q \in InBox(r) /\ pc'[r] # "dead"
    BY <1>4, <1>5, <2>1 DEF EventInv, SendersWait
  <2>2. ASSUME NEW q \in Procs, NEW r \in InBox(q)
        PROVE  /\ pc'[r] \in {"s_schedule", "s_resume"} /\ target[r] = q
               /\ wakeup_flags[r] = "WT_INTERRUPTED" /\ state'[r] # "ZOMBIE"
    BY <1>3, <1>4, <1>5, EventTypes DEF EventInv, SendersWait
  <2>3. \A q \in Procs : pc'[q] = "dead" \/ state'[q] = "UNINIT" => box'[q] = <<>>
    BY <1>1, <1>4, <1>5 DEF EventInv, SendersWait
  <2>4. \A q \in Procs : target'[q] = target[q] /\ target[q] \in Procs
    BY <1>1, EventTypes
  <2>5. QED
    BY <1>1, <1>5, <2>1, <2>2, <2>3, <2>4 DEF SendersWait
<1>11. \A q \in Procs : Distinct(box[q])'
  BY <1>1 DEF EventInv, Distinct
<1>12. QED
  BY <1>4, <1>6, <1>7, <1>8, <1>9, <1>10, <1>11 DEF EventInv

LEMMA RecvTakeSafe ==
    ASSUME EventInv, NEW p \in Procs, current = p, RecvTake(p)
    PROVE  EventInv'
<1> DEFINE sender == Head(box[p])
<1>1. /\ pc[p] \in {"user", "r_resume"} /\ box[p] # <<>>
      /\ received' = [received EXCEPT ![sender] = event[sender]]
      /\ box' = [box EXCEPT ![p] = Tail(@)]
      /\ wakeup_flags' = [wakeup_flags EXCEPT ![sender] = "WT_EVENT_SEND"]
      /\ Wakeup({sender})
      /\ timer' = [timer EXCEPT ![p] = NoTimer]
      /\ pc' = [pc EXCEPT ![p] = "return"]
      /\ UNCHANGED <<event, target, killed>>
  BY DEF RecvTake, Goto, StopTimer
<1>2. /\ Tail(box[p]) \in Seq(Procs) /\ sender \in InBox(p) /\ Distinct(Tail(box[p]))
      /\ Elements(Tail(box[p])) = InBox(p) \ {sender}
  BY <1>1, EventTypes, TailFacts DEF InBox
<1> HIDE DEF sender
<1>3. /\ TypeOK /\ sender \in Procs /\ state[p] = "RUNNABLE" /\ wait_state[p] = "none"
      /\ sender # p /\ state[sender] # "ZOMBIE" /\ pc[sender] \in InSend
      /\ \A q \in Procs : p \notin InBox(q) /\ pc[q] # "send"
  <2>1. pc[sender] \in InSend /\ state[sender] # "ZOMBIE" /\ sender \in Procs
    BY <1>2, EventTypes DEF EventInv, SendersWait, InSend
  <2>2. \A q \in Procs : p \notin InBox(q) /\ pc[q] # "send"
    BY <1>1 DEF EventInv, SendersWait, PhasesMatch
  <2>3. TypeOK /\ state[p] = "RUNNABLE" /\ wait_state[p] = "none"
    BY <1>1, EventTypes DEF EventInv, PhasesMatch, SchedInv, WaitStateWhileSleeping
  <2>4. QED
    BY <1>1, <2>1, <2>2, <2>3 DEF InSend
<1>4. /\ SchedInv' /\ panic' = "none" /\ current' = current
      /\ \A q \in Procs : state'[q] = IF q = sender THEN "RUNNABLE" ELSE state[q]
      /\ \A q \in Procs : wait_state'[q] = IF q = sender THEN "none" ELSE wait_state[q]
  <2>1. {sender} \in SUBSET Procs /\ \A q \in {sender} : state[q] # "ZOMBIE"
    BY <1>3
  <2>2. QED
    BY <1>1, <2>1, WakesLiving
<1>5. /\ TypeOK'
      /\ \A q \in Procs : /\ pc'[q] = IF q = p THEN "return" ELSE pc[q]
                          /\ timer'[q] = IF q = p THEN NoTimer ELSE timer[q]
                          /\ box'[q] = IF q = p THEN Tail(box[p]) ELSE box[q]
                          /\ wakeup_flags'[q] = IF q = sender THEN "WT_EVENT_SEND" ELSE wakeup_flags[q]
                          /\ received'[q] = IF q = sender THEN event[sender] ELSE received[q]
  BY <1>1, <1>2, <1>3, <1>4 DEF TypeOK, SchedInv
<1>6. \A q \in Procs : InBox(q)' = IF q = p THEN InBox(q) \ {sender} ELSE InBox(q)
  BY <1>2, <1>5 DEF InBox
<1>7. PhasesMatch'
  <2>1. pc[sender] \notin {"exit", "dead"}
    BY <1>3 DEF InSend
  <2>2. QED
    BY <1>1, <1>3, <1>4, <1>5, <2>1 DEF EventInv, PhasesMatch, InSend, Receiving
<1>8. SendUnderWay'
  BY <1>3, <1>5 DEF SendUnderWay
<1>9. SuccessIffReceived'
  <2>1. event[sender] \in Values /\ event[sender] # NoEvent
    BY <1>3, EventAssumption DEF TypeOK, NoEvent
  <2>2. QED
    BY <1>1, <1>4, <1>5, <2>1 DEF EventInv, SuccessIffReceived
<1>10. NothingMissed'
  BY <1>1, <1>3, <1>4, <1>5 DEF EventInv, NothingMissed
<1>11. SendersWait'
  <2>1. ASSUME NEW q \in Procs, wait_state'[q] = "WT_EVENT_SEND", NEW r \in Procs, target[q] = r
        PROVE  q \in InBox(r)' /\ pc'[r] # "dead"
    BY <1>4, <1>5, <1>6, <2>1 DEF EventInv, SendersWait
  <2>2. ASSUME NEW q \in Procs, NEW r \in InBox(q)'
        PROVE  /\ pc'[r] \in {"s_schedule", "s_resume"} /\ target[r] = q
               /\ wakeup_flags'[r] = "WT_INTERRUPTED" /\ state'[r] # "ZOMBIE"
    <3>1. r \in InBox(q) /\ r \in Procs /\ r # p
      BY <1>3, <1>6, EventTypes
    <3>2. r # sender
      BY <1>2, <1>6, <3>1 DEF EventInv, SendersWait
    <3>3. QED
      BY <1>4, <1>5, <3>1, <3>2 DEF EventInv, SendersWait
  <2>3. \A q \in Procs : pc'[q] = "dead" \/ state'[q] = "UNINIT" => box'[q] = <<>>
    BY <1>1, <1>3, <1>4, <1>5 DEF EventInv, SendersWait
  <2>4. \A q \in Procs : target'[q] = target[q] /\ target[q] \in Procs
    BY <1>1, EventTypes
  <2>5. QED
    BY <1>1, <1>5, <2>1, <2>2, <2>3, <2>4 DEF SendersWait
<1>12. \A q \in Procs : Distinct(box[q])'
  BY <1>2, <1>5 DEF EventInv, Distinct
<1>13. QED
  BY <1>4, <1>7, <1>8, <1>9, <1>10, <1>11, <1>12 DEF EventInv

\* A step that neither wakes nor stops anybody, and moves nobody into or out
\* of a send or its end.
LEMMA QuietStep ==
    ASSUME EventInv, SchedInv', TypeOK', PhasesMatch', SendUnderWay',
           UNCHANGED <<event_vars, state, wait_state, panic>>,
           \A q \in Procs : /\ pc'[q] \in InSend <=> pc[q] \in InSend
                            /\ pc'[q] = "dead" <=> pc[q] = "dead"
                            /\ timer'[q] = timer[q] \/ timer'[q] = NoTimer
    PROVE  EventInv'
<1> USE DEF event_vars
<1>1. \A q \in Procs : InBox(q)' = InBox(q)
  BY DEF InBox
<1>2. SuccessIffReceived'
  BY DEF EventInv, SuccessIffReceived, InSend
<1>3. NothingMissed'
  BY DEF EventInv, NothingMissed
<1>4. SendersWait'
  <2>1. \A q \in Procs : wait_state[q] = "WT_EVENT_SEND" => q \in InBox(target[q]) /\ pc'[target[q]] # "dead"
    BY EventTypes DEF EventInv, SendersWait
  <2>2. \A q \in Procs : \A r \in InBox(q) :
           /\ pc'[r] \in {"s_schedule", "s_resume"} /\ target[r] = q
           /\ wakeup_flags[r] = "WT_INTERRUPTED" /\ state[r] # "ZOMBIE"
    BY EventTypes DEF EventInv, SendersWait, InSend
  <2>3. \A q \in Procs : pc'[q] = "dead" \/ state[q] = "UNINIT" => box[q] = <<>>
    BY DEF EventInv, SendersWait
  <2>4. \A q \in Procs : target'[q] = target[q] /\ target[q] \in Procs
    BY EventTypes
  <2>5. QED
    BY <1>1, <2>1, <2>2, <2>3, <2>4 DEF SendersWait
<1>5. \A q \in Procs : Distinct(box[q])'
  BY DEF EventInv, Distinct
<1>6. QED
  BY <1>2, <1>3, <1>4, <1>5 DEF EventInv

LEMMA RecvFailSafe ==
    ASSUME EventInv, NEW p \in Procs, current = p, RecvFail(p)
    PROVE  EventInv'
<1>1. /\ pc[p] = "r_resume"
      /\ timer' = [timer EXCEPT ![p] = NoTimer] /\ pc' = [pc EXCEPT ![p] = "return"]
      /\ UNCHANGED <<sched_vars, event_vars, killed>>
  BY DEF RecvFail, Goto, StopTimer
<1>2. /\ TypeOK' /\ SchedInv' /\ UNCHANGED <<current, state, wait_state, panic>>
      /\ \A q \in Procs : /\ pc'[q] = IF q = p THEN "return" ELSE pc[q]
                          /\ timer'[q] = IF q = p THEN NoTimer ELSE timer[q]
  BY <1>1, EventTypes DEF TypeOK, EventInv, sched_vars, event_vars, SchedInv, SchedTypeOK, OnRunQueue, WaitStateWhileSleeping
<1>3. PhasesMatch'
  BY <1>1, <1>2 DEF EventInv, PhasesMatch, InSend, Receiving
<1>4. SendUnderWay'
  <2>1. \A q \in Procs : pc[q] # "send"
    BY <1>1 DEF EventInv, PhasesMatch
  <2>2. QED
    BY <1>2, <2>1 DEF SendUnderWay
<1>5. QED
  BY <1>1, <1>2, <1>3, <1>4, QuietStep DEF InSend

-----------------------------------------------------------------------------
(* Scheduling *)

LEMMA ScheduleSafe ==
    ASSUME EventInv, NEW p \in Procs, current = p, Schedule(p)
    PROVE  EventInv'
<1>1. /\ \/ pc[p] = "s_schedule" /\ pc' = [pc EXCEPT ![p] = "s_resume"]
         \/ pc[p] = "r_schedule" /\ pc' = [pc EXCEPT ![p] = "r_resume"]
         \/ pc[p] = "dead" /\ pc' = pc
      /\ Reschedule
      /\ UNCHANGED <<event_vars, timer, killed>>
  BY DEF Schedule, Goto
<1>2. /\ SchedInv' /\ \A q \in Procs : q = current' => state[q] = "RUNNABLE"
      /\ UNCHANGED <<state, wait_state, panic>>
  BY <1>1, RescheduleKeepsQueue, RescheduledRuns DEF EventInv, Reschedule
<1>3. /\ \A q \in Procs : q # p => pc'[q] = pc[q] /\ pc[q] \notin {"send", "s_schedule", "r_schedule", "exit"}
      /\ \/ pc[p] = "s_schedule" /\ pc'[p] = "s_resume"
         \/ pc[p] = "r_schedule" /\ pc'[p] = "r_resume"
         \/ pc[p] = "dead" /\ pc'[p] = "dead"
  BY <1>1, EventTypes DEF TypeOK, EventInv, PhasesMatch
<1>4. TypeOK'
  <2>1. pc' \in [Procs -> {"user", "return", "exit", "dead"} \cup Sending \cup Receiving]
    BY <1>1, EventTypes DEF TypeOK, Sending, Receiving
  <2>2. QED
    BY <1>1, <1>2, <2>1, EventTypes DEF TypeOK, event_vars, SchedInv
<1>5. PhasesMatch'
  BY <1>1, <1>2, <1>3 DEF EventInv, PhasesMatch, InSend, Receiving
<1>6. SendUnderWay'
  BY <1>3 DEF SendUnderWay
<1>7. QED
  BY <1>1, <1>2, <1>3, <1>4, <1>5, <1>6, QuietStep DEF InSend

LEMMA ReturnSafe ==
    ASSUME EventInv, NEW p \in Procs, current = p, Return(p)
    PROVE  EventInv'
<1>1. /\ pc[p] = "return" /\ pc' = [pc EXCEPT ![p] = "user"]
      /\ Reschedule \/ UNCHANGED sched_vars
      /\ UNCHANGED <<event_vars, timer, killed>>
  BY DEF Return, Goto
<1>2. state[p] = "RUNNABLE" 
  BY <1>1, EventTypes DEF EventInv, PhasesMatch
<1>3. /\ SchedInv' /\ \A q \in Procs : q = current' => state[q] = "RUNNABLE"
      /\ UNCHANGED <<state, wait_state, panic>>
  <2>1. CASE Reschedule
    BY <2>1, RescheduleKeepsQueue, RescheduledRuns DEF EventInv, Reschedule
  <2>2. CASE UNCHANGED sched_vars
    BY <1>2, <2>2 DEF EventInv, sched_vars, SchedInv, SchedTypeOK, OnRunQueue, WaitStateWhileSleeping
  <2>3. QED
    BY <1>1, <2>1, <2>2
<1>4. /\ \A q \in Procs : q # p => pc'[q] = pc[q] /\ pc[q] \notin {"send", "s_schedule", "r_schedule", "exit"}
      /\ pc'[p] = "user"
  BY <1>1, EventTypes DEF TypeOK, EventInv, PhasesMatch
<1>5. TypeOK'
  BY <1>1, <1>3, EventTypes DEF TypeOK, event_vars, SchedInv
<1>6. PhasesMatch'
  BY <1>1, <1>2, <1>3, <1>4 DEF EventInv, PhasesMatch, InSend, Receiving
<1>7. SendUnderWay'
  BY <1>4 DEF SendUnderWay
<1>8. QED
  BY <1>1, <1>3, <1>4, <1>5, <1>6, <1>7, QuietStep DEF InSend

LEMMA IdleLoopSafe ==
    ASSUME EventInv, IdleLoop
    PROVE  EventInv'
<1>1. current = Idle /\ Reschedule /\ UNCHANGED <<event_vars, pc, timer, killed>>
  BY DEF IdleLoop
<1>2. /\ SchedInv' /\ \A q \in Procs : q = current' => state[q] = "RUNNABLE"
      /\ UNCHANGED <<state, wait_state, panic>>
  BY <1>1, RescheduleKeepsQueue, RescheduledRuns DEF EventInv, Reschedule
<1>3. \A q \in Procs : pc[q] \notin {"send", "s_schedule", "r_schedule", "exit"}
  BY <1>1, SchedAssumption DEF EventInv, PhasesMatch
<1>4. TypeOK'
  BY <1>1, <1>2, EventTypes DEF TypeOK, event_vars, SchedInv
<1>5. PhasesMatch'
  BY <1>1, <1>2, <1>3 DEF EventInv, PhasesMatch, InSend, Receiving
<1>6. SendUnderWay'
  BY <1>1, <1>3 DEF SendUnderWay
<1>7. QED
  BY <1>1, <1>2, <1>4, <1>5, <1>6, QuietStep DEF InSend

-----------------------------------------------------------------------------
(* Kills and timers *)

\* A step that wakes living processes, starts no timer and lets none that goes
\* on reach 0 without waking its process.
LEMMA WakeStep ==
    ASSUME EventInv, NEW W \in SUBSET Procs, Wakeup(W), UNCHANGED event_vars,
           TypeOK', killed' \subseteq Procs,
           \A q \in W : state[q] \notin {"ZOMBIE", "UNINIT"},
           \A q \in Procs : \/ pc'[q] = pc[q]
                            \/ q = current /\ pc[q] = "user" /\ pc'[q] = "return",
           \A q \in Procs : timer'[q] # NoTimer =>
               timer[q] # NoTimer /\ (q \in W \/ (timer[q] > 0 => timer'[q] > 0))
    PROVE  EventInv'
<1> USE DEF event_vars
<1>1. /\ SchedInv' /\ panic' = "none" /\ current' = current
      /\ state' \in [Procs -> ProcStates]
      /\ \A q \in Procs : state'[q] = IF q \in W THEN "RUNNABLE" ELSE state[q]
      /\ \A q \in Procs : wait_state'[q] = IF q \in W THEN "none" ELSE wait_state[q]
  BY WakesLiving
<1>2. \A q \in Procs : InBox(q)' = InBox(q)
  BY DEF InBox
<1>3. PhasesMatch'
  BY <1>1 DEF EventInv, PhasesMatch, InSend, Receiving
<1>4. SendUnderWay'
  BY <1>1, EventTypes, SchedAssumption DEF EventInv, SendUnderWay
<1>5. SuccessIffReceived'
  BY <1>1 DEF EventInv, SuccessIffReceived
<1>6. NothingMissed'
  BY <1>1 DEF EventInv, NothingMissed
<1>7. SendersWait'
  <2>1. ASSUME NEW q \in Procs, wait_state'[q] = "WT_EVENT_SEND", NEW r \in Procs, target[q] = r
        PROVE  q \in InBox(r) /\ pc'[r] # "dead"
    BY <1>1, <2>1, SchedAssumption DEF EventInv, SendersWait, SchedInv, WaitStateWhileSleeping
  <2>2. ASSUME NEW q \in Procs, NEW r \in InBox(q)
        PROVE  /\ pc'[r] \in {"s_schedule", "s_resume"} /\ target[r] = q
               /\ wakeup_flags[r] = "WT_INTERRUPTED" /\ state'[r] # "ZOMBIE"
    BY <1>1, EventTypes DEF EventInv, SendersWait
  <2>3. \A q \in Procs : pc'[q] = "dead" \/ state'[q] = "UNINIT" => box[q] = <<>>
    BY <1>1 DEF EventInv, SendersWait
  <2>4. \A q \in Procs : target'[q] = target[q] /\ target[q] \in Procs
    BY EventTypes
  <2>5. QED
    BY <1>2, <2>1, <2>2, <2>3, <2>4 DEF SendersWait
<1>8. \A q \in Procs : Distinct(box[q])'
  BY DEF EventInv, Distinct
<1>9. QED
  BY <1>1, <1>3, <1>4, <1>5, <1>6, <1>7, <1>8 DEF EventInv

LEMMA KillSafe ==
    ASSUME EventInv, NEW p \in Procs, current = p, NEW victim \in Procs, Kill(p, victim)
    PROVE  EventInv'
<1> DEFINE W == IF wait_state[victim] # "none" THEN {victim} ELSE {}
<1>1. /\ pc[p] = "user" /\ pc' = [pc EXCEPT ![p] = "return"]
      /\ killed' = killed \cup {victim} /\ Wakeup(W) /\ UNCHANGED <<event_vars, timer>>
  BY DEF Kill, Goto
<1>2. W \in SUBSET Procs /\ \A q \in W : state[q] \notin {"ZOMBIE", "UNINIT"}
  BY DEF EventInv, SchedInv, WaitStateWhileSleeping
<1> HIDE DEF W
<1>3. SchedInv'
  BY <1>1, <1>2, WakesLiving
<1>4. TypeOK'
  BY <1>1, <1>3, EventTypes DEF TypeOK, SchedInv, event_vars
<1>5. /\ \A q \in Procs : pc'[q] = IF q = p THEN "return" ELSE pc[q]
      /\ killed' \subseteq Procs
  BY <1>1, EventTypes DEF TypeOK
<1>6. QED
  BY <1>1, <1>2, <1>4, <1>5, WakeStep

LEMMA TickSafe ==
    ASSUME EventInv, Tick
    PROVE  EventInv'
<1> DEFINE W == {q \in Procs : timer[q] = 1}
<1>1. /\ timer' = [q \in Procs |-> IF timer[q] \in {NoTimer, 0} THEN timer[q] ELSE timer[q] - 1]
      /\ Wakeup(W)
      /\ pc' = [q \in Procs |-> IF q = current /\ pc[q] = "user" THEN "return" ELSE pc[q]]
      /\ UNCHANGED <<event_vars, killed>>
  BY DEF Tick
<1>2. ASSUME NEW q \in W PROVE state[q] \notin {"ZOMBIE", "UNINIT"}
  <2>1. pc[q] \in InSend \cup Receiving
    BY EventAssumption DEF EventInv, PhasesMatch
  <2>2. QED
    BY <2>1 DEF EventInv, PhasesMatch, InSend, Receiving
<1>3. \A q \in Procs : timer[q] \in Nat \cup {NoTimer} /\ (timer[q] = 1 <=> q \in W)
  BY EventTypes DEF TypeOK
<1>4. W \in SUBSET Procs
  OBVIOUS
<1> HIDE DEF W
<1>5. SchedInv'
  BY <1>1, <1>2, <1>4, WakesLiving
<1>6. \A q \in Procs : /\ timer'[q] \in Nat \cup {NoTimer}
                       /\ timer'[q] # NoTimer =>
                             timer[q] # NoTimer /\ (q \in W \/ (timer[q] > 0 => timer'[q] > 0))
  BY <1>1, <1>3, EventAssumption
<1>7. TypeOK'
  <2>1. timer' \in [Procs -> Nat \cup {NoTimer}]
    BY <1>1, <1>6
  <2>2. pc' \in [Procs -> {"user", "return", "exit", "dead"} \cup Sending \cup Receiving]
    BY <1>1, EventTypes DEF TypeOK
  <2>3. QED
    BY <1>1, <1>5, <2>1, <2>2, EventTypes DEF TypeOK, SchedInv, event_vars
<1>8. /\ \A q \in Procs : \/ pc'[q] = pc[q]
                          \/ q = current /\ pc[q] = "user" /\ pc'[q] = "return"
      /\ killed' \subseteq Procs
  BY <1>1, EventTypes DEF TypeOK
<1>9. QED
  BY <1>1, <1>2, <1>4, <1>6, <1>7, <1>8, WakeStep

-----------------------------------------------------------------------------
(* Exits *)

LEMMA LeaveSafe ==
    ASSUME EventInv, NEW p \in Procs, current = p, Leave(p)
    PROVE  EventInv'
<1>1. /\ pc[p] \in {"user", "return"} /\ Exit /\ pc' = [pc EXCEPT ![p] = "exit"]
      /\ UNCHANGED <<event_vars, timer, killed>>
  BY DEF Leave, Goto
<1>2. /\ TypeOK /\ state[p] = "RUNNABLE" /\ wait_state[p] = "none" /\ timer[p] = NoTimer
      /\ \A q \in Procs : p \notin InBox(q) /\ pc[q] # "send"
  <2>1. state[p] = "RUNNABLE" /\ timer[p] = NoTimer /\ \A q \in Procs : pc[q] # "send"
    BY <1>1 DEF EventInv, PhasesMatch, InSend, Receiving
  <2>2. \A q \in Procs : p \notin InBox(q)
    BY <1>1 DEF EventInv, SendersWait
  <2>3. QED
    BY <2>1, <2>2, EventTypes DEF EventInv, SchedInv, WaitStateWhileSleeping
<1>3. SchedInv'
  <2>1. SchedNext
    BY <1>1, <1>2 DEF SchedNext
  <2>2. QED
    BY <2>1, SchedInvInductive DEF EventInv
<1>4. /\ TypeOK' /\ UNCHANGED <<current, wait_state, panic>>
      /\ \A q \in Procs : /\ state'[q] = IF q = p THEN "ZOMBIE" ELSE state[q]
                          /\ pc'[q] = IF q = p THEN "exit" ELSE pc[q]
                          /\ InBox(q)' = InBox(q)
  BY <1>1, <1>2, <1>3 DEF TypeOK, SchedTypeOK, Exit, SchedInv, event_vars, InBox
<1>5. PhasesMatch'
  BY <1>1, <1>2, <1>4 DEF EventInv, PhasesMatch, InSend, Receiving
<1>6. SendUnderWay'
  BY <1>2, <1>4 DEF SendUnderWay
<1>7. SuccessIffReceived'
  BY <1>1, <1>4 DEF EventInv, SuccessIffReceived, event_vars
<1>8. NothingMissed'
  BY <1>1, <1>4 DEF EventInv, NothingMissed, event_vars
<1>9. SendersWait'
  <2>1. ASSUME NEW q \in Procs, wait_state[q] = "WT_EVENT_SEND", NEW r \in Procs, target[q] = r
        PROVE  q \in InBox(r) /\ pc'[r] # "dead"
    BY <1>4, <2>1 DEF EventInv, SendersWait
  <2>2. ASSUME NEW q \in Procs, NEW r \in InBox(q)
        PROVE  /\ pc'[r] \in {"s_schedule", "s_resume"} /\ target[r] = q
               /\ wakeup_flags[r] = "WT_INTERRUPTED" /\ state'[r] # "ZOMBIE"
    BY <1>2, <1>4, EventTypes DEF EventInv, SendersWait
  <2>3. \A q \in Procs : pc'[q] = "dead" \/ state'[q] = "UNINIT" => box[q] = <<>>
    BY <1>4 DEF EventInv, SendersWait
  <2>4. \A q \in Procs : target'[q] = target[q] /\ target[q] \in Procs
    BY <1>1, EventTypes DEF event_vars
  <2>5. QED
    BY <1>1, <1>4, <2>1, <2>2, <2>3, <2>4 DEF SendersWait, event_vars
<1>10. \A q \in Procs : Distinct(box[q])'
  BY <1>1 DEF EventInv, Distinct, event_vars
<1>11. QED
  BY <1>3, <1>4, <1>5, <1>6, <1>7, <1>8, <1>9, <1>10 DEF EventInv

LEMMA WakeSendersSafe ==
    ASSUME EventInv, NEW p \in Procs, current = p, WakeSenders(p)
    PROVE  EventInv'
<1>1. /\ pc[p] = "exit" /\ Wakeup(InBox(p))
      /\ box' = [box EXCEPT ![p] = <<>>] /\ pc' = [pc EXCEPT ![p] = "dead"]
      /\ UNCHANGED <<event, target, wakeup_flags, received, timer, killed>>
  BY DEF WakeSenders, Goto
<1>2. /\ TypeOK /\ InBox(p) \in SUBSET Procs
      /\ \A q \in InBox(p) : state[q] \notin {"ZOMBIE", "UNINIT"} /\ target[q] = p /\ pc[q] \in InSend
      /\ state[p] = "ZOMBIE" /\ wait_state[p] = "none" /\ p \notin InBox(p)
      /\ \A q \in Procs : pc[q] # "send"
  <2>1. \A q \in InBox(p) : pc[q] \in InSend /\ target[q] = p /\ q \in Procs
    BY EventTypes DEF EventInv, SendersWait, InSend
  <2>2. /\ state[p] = "ZOMBIE" /\ \A q \in Procs : pc[q] # "send"
        /\ \A q \in Procs : pc[q] \in InSend => state[q] \notin {"ZOMBIE", "UNINIT"}
    BY <1>1 DEF EventInv, PhasesMatch, InSend
  <2>3. QED
    BY <1>1, <2>1, <2>2, EventTypes DEF EventInv, SchedInv, WaitStateWhileSleeping, InSend
<1>3. /\ SchedInv' /\ panic' = "none" /\ current' = current
      /\ \A q \in Procs : state'[q] = IF q \in InBox(p) THEN "RUNNABLE" ELSE state[q]
      /\ \A q \in Procs : wait_state'[q] = IF q \in InBox(p) THEN "none" ELSE wait_state[q]
  BY <1>1, <1>2, WakesLiving
<1>4. /\ TypeOK'
      /\ \A q \in Procs : /\ pc'[q] = IF q = p THEN "dead" ELSE pc[q]
                          /\ box'[q] = IF q = p THEN <<>> ELSE box[q]
  BY <1>1, <1>2, <1>3 DEF TypeOK, SchedInv
<1>5. \A q \in Procs : InBox(q)' = IF q = p THEN {} ELSE InBox(q)
  BY <1>4, EventTypes DEF InBox, Elements
<1>6. PhasesMatch'
  BY <1>1, <1>2, <1>3, <1>4 DEF EventInv, PhasesMatch, InSend, Receiving
<1>7. SendUnderWay'
  BY <1>2, <1>4 DEF SendUnderWay
<1>8. SuccessIffReceived'
  BY <1>1, <1>2, <1>3, <1>4 DEF EventInv, SuccessIffReceived
<1>9. NothingMissed'
  BY <1>1, <1>3, <1>4 DEF EventInv, NothingMissed
<1>10. SendersWait'
  <2>1. ASSUME NEW q \in Procs, wait_state'[q] = "WT_EVENT_SEND", NEW r \in Procs, target[q] = r
        PROVE  q \in InBox(r)' /\ pc'[r] # "dead"
    <3>1. wait_state[q] = "WT_EVENT_SEND" /\ q \notin InBox(p)
      BY <1>3, <2>1
    <3>2. q \in InBox(r) /\ pc[r] # "dead"
      BY <2>1, <3>1 DEF EventInv, SendersWait
    <3>3. QED
      BY <1>4, <1>5, <3>1, <3>2
  <2>2. ASSUME NEW q \in Procs, NEW r \in InBox(q)'
        PROVE  /\ pc'[r] \in {"s_schedule", "s_resume"} /\ target[r] = q
               /\ wakeup_flags[r] = "WT_INTERRUPTED" /\ state'[r] # "ZOMBIE"
    <3>1. r \in InBox(q) /\ r \in Procs
      BY <1>5, EventTypes
    <3>2. pc[r] \in {"s_schedule", "s_resume"} /\ target[r] = q
          /\ wakeup_flags[r] = "WT_INTERRUPTED" /\ state[r] # "ZOMBIE"
      BY <3>1 DEF EventInv, SendersWait
    <3>3. QED
      BY <1>1, <1>3, <1>4, <3>1, <3>2
  <2>3. \A q \in Procs : pc'[q] = "dead" \/ state'[q] = "UNINIT" => box'[q] = <<>>
    BY <1>3, <1>4 DEF EventInv, SendersWait
  <2>4. \A q \in Procs : target'[q] = target[q] /\ target[q] \in Procs
    BY <1>1, EventTypes
  <2>5. QED
    BY <1>1, <1>4, <2>1, <2>2, <2>3, <2>4 DEF SendersWait
<1>11. \A q \in Procs : Distinct(box[q])'
  BY <1>4, ElementsFacts, EventTypes DEF EventInv
<1>12. QED
  BY <1>3, <1>6, <1>7, <1>8, <1>9, <1>10, <1>11 DEF EventInv

LEMMA ReapSafe ==
    ASSUME EventInv, NEW p \in Procs, current = p, NEW dead \in Procs, dead # p,
           pc[p] = "user", Reap(dead), UNCHANGED <<pc, killed, event_vars, timer>>
    PROVE  EventInv'
<1>1. SchedInv'
  <2>1. SchedNext
    BY DEF SchedNext
  <2>2. QED
    BY <2>1, SchedInvInductive DEF EventInv
<1>2. /\ TypeOK' /\ state[dead] = "ZOMBIE" /\ pc[dead] = "dead" /\ wait_state[dead] = "none"
      /\ UNCHANGED <<current, wait_state, panic>>
      /\ \A q \in Procs : /\ state'[q] = IF q = dead THEN "UNINIT" ELSE state[q]
                          /\ pc[q] # "send" /\ dead \notin InBox(q) /\ InBox(q)' = InBox(q)
  <2>1. state[dead] = "ZOMBIE" /\ pc[dead] = "dead" /\ \A q \in Procs : pc[q] # "send"
    BY DEF Reap, EventInv, PhasesMatch
  <2>2. \A q \in Procs : dead \notin InBox(q) /\ InBox(q)' = InBox(q)
    BY <2>1 DEF EventInv, SendersWait, InBox, event_vars
  <2>3. wait_state[dead] = "none"
    BY <2>1, EventTypes DEF EventInv, SchedInv, WaitStateWhileSleeping
  <2>4. QED
    BY <1>1, <2>1, <2>2, <2>3, EventTypes DEF Reap, TypeOK, SchedTypeOK, SchedInv, event_vars
<1>3. PhasesMatch'
  BY <1>2 DEF EventInv, PhasesMatch, InSend, Receiving
<1>4. SendUnderWay'
  BY <1>2 DEF SendUnderWay
<1>5. SuccessIffReceived'
  BY <1>2 DEF EventInv, SuccessIffReceived, event_vars
<1>6. NothingMissed'
  BY <1>2 DEF EventInv, NothingMissed, event_vars
<1>7. SendersWait'
  <2>1. \A q \in Procs : \A r \in InBox(q) : state'[r] # "ZOMBIE"
    BY <1>2, EventTypes DEF EventInv, SendersWait
  <2>2. \A q \in Procs : pc[q] = "dead" \/ state'[q] = "UNINIT" => box[q] = <<>>
    BY <1>2 DEF EventInv, SendersWait
  <2>3. \A q \in Procs : target'[q] = target[q] /\ target[q] \in Procs
    BY EventTypes DEF event_vars
  <2>4. QED
    BY <1>2, <2>1, <2>2, <2>3 DEF EventInv, SendersWait, event_vars
<1>8. \A q \in Procs : Distinct(box[q])'
  BY DEF EventInv, Distinct, event_vars
<1>9. QED
  BY <1>1, <1>2, <1>3, <1>4, <1>5, <1>6, <1>7, <1>8 DEF EventInv

LEMMA ReuseSafe ==
    ASSUME EventInv, NEW p \in Procs, current = p, NEW dead \in Procs, dead # p,
           pc[p] = "user", state[dead] = "UNINIT", Wakeup({dead}), Goto(dead, "user"),
           killed' = killed \ {dead}, box' = [box EXCEPT ![dead] = <<>>],
           UNCHANGED <<event, target, wakeup_flags, received, timer>>
    PROVE  EventInv'
<1>1. /\ TypeOK /\ pc[dead] = "dead" /\ wait_state[dead] = "none" /\ timer[dead] = NoTimer
      /\ box[dead] = <<>>
      /\ \A q \in Procs : pc[q] # "send" /\ dead \notin InBox(q)
  <2>1. /\ pc[dead] = "dead" /\ timer[dead] = NoTimer /\ box[dead] = <<>>
        /\ \A q \in Procs : pc[q] # "send"
    BY DEF EventInv, PhasesMatch, SendersWait, InSend, Receiving
  <2>2. \A q \in Procs : dead \notin InBox(q)
    BY <2>1 DEF EventInv, SendersWait
  <2>3. QED
    BY <2>1, <2>2, EventTypes DEF EventInv, SchedInv, WaitStateWhileSleeping
<1>2. /\ SchedInv' /\ panic' = "none" /\ current' = current
      /\ \A q \in Procs : state'[q] = IF q = dead THEN "RUNNABLE" ELSE state[q]
      /\ \A q \in Procs : wait_state'[q] = wait_state[q]
  <2>1. {dead} \in SUBSET Procs /\ \A q \in {dead} : state[q] # "ZOMBIE"
    OBVIOUS
  <2>2. /\ SchedInv' /\ panic' = "none" /\ current' = current
        /\ \A q \in Procs : state'[q] = IF q \in {dead} THEN "RUNNABLE" ELSE state[q]
        /\ \A q \in Procs : wait_state'[q] = IF q \in {dead} THEN "none" ELSE wait_state[q]
    BY <2>1, WakesLiving
  <2>3. QED
    BY <1>1, <2>2
<1>3. /\ box' = box
      /\ \A q \in Procs : pc'[q] = IF q = dead THEN "user" ELSE pc[q]
  BY <1>1 DEF TypeOK, Goto
<1>4. TypeOK' /\ \A q \in Procs : InBox(q)' = InBox(q)
  BY <1>1, <1>2, <1>3 DEF TypeOK, SchedInv, Goto, InBox
<1>5. PhasesMatch'
  BY <1>1, <1>2, <1>3 DEF EventInv, PhasesMatch, InSend, Receiving
<1>6. SendUnderWay'
  BY <1>1, <1>3 DEF SendUnderWay
<1>7. SuccessIffReceived'
  BY <1>1, <1>2, <1>3 DEF EventInv, SuccessIffReceived
<1>8. NothingMissed'
  BY <1>1, <1>2, <1>3 DEF EventInv, NothingMissed
<1>9. SendersWait'
  <2>1. ASSUME NEW q \in Procs, wait_state'[q] = "WT_EVENT_SEND", NEW r \in Procs, target[q] = r
        PROVE  q \in InBox(r) /\ pc'[r] # "dead"
    BY <1>2, <1>3, <2>1 DEF EventInv, SendersWait
  <2>2. ASSUME NEW q \in Procs, NEW r \in InBox(q)
        PROVE  /\ pc'[r] \in {"s_schedule", "s_resume"} /\ target[r] = q
               /\ wakeup_flags[r] = "WT_INTERRUPTED" /\ state'[r] # "ZOMBIE"
    BY <1>1, <1>2, <1>3, EventTypes DEF EventInv, SendersWait
  <2>3. \A q \in Procs : pc'[q] = "dead" \/ state'[q] = "UNINIT" => box[q] = <<>>
    BY <1>1, <1>2, <1>3 DEF EventInv, SendersWait
  <2>4. \A q \in Procs : target'[q] = target[q] /\ target[q] \in Procs
    BY EventTypes
  <2>5. QED
    BY <1>3, <1>4, <2>1, <2>2, <2>3, <2>4 DEF SendersWait
<1>10. \A q \in Procs : Distinct(box[q])'
  BY <1>3 DEF EventInv, Distinct
<1>11. QED
  BY <1>2, <1>5, <1>6, <1>7, <1>8, <1>9, <1>10 DEF EventInv

-----------------------------------------------------------------------------
(* Together *)

LEMMA EventStep == EventInv /\ [Next]_vars => EventInv'
<1> SUFFICES ASSUME EventInv, [Next]_vars PROVE EventInv'
  OBVIOUS
<1>1. ASSUME NEW p \in Procs, current = p, NEW to \in Procs,
             Send(p, to) \/ Kill(p, to) \/ ReapAndReuse(p, to)
      PROVE  EventInv'
  <2>1. CASE Send(p, to)
    BY <1>1, <2>1, SendSafe
  <2>2. CASE Kill(p, to)
    BY <1>1, <2>2, KillSafe
  <2>3. CASE ReapAndReuse(p, to)
    <3>1. CASE state[to] = "ZOMBIE"
      BY <1>1, <2>3, <3>1, ReapSafe DEF ReapAndReuse
    <3>2. CASE state[to] # "ZOMBIE"
      BY <1>1, <2>3, <3>2, ReuseSafe DEF ReapAndReuse
    <3>3. QED
      BY <3>1, <3>2
  <2>4. QED
    BY <1>1, <2>1, <2>2, <2>3
<1>2. ASSUME NEW p \in Procs, current = p,
             SendBlock(p) \/ SendResume(p) \/ RecvBlock(p) \/ RecvTake(p) \/ RecvFail(p)
      PROVE  EventInv'
  BY <1>2, SendBlockSafe, SendResumeSafe, RecvBlockSafe, RecvTakeSafe, RecvFailSafe
<1>3. ASSUME NEW p \in Procs, current = p,
             Schedule(p) \/ Return(p) \/ Leave(p) \/ WakeSenders(p)
      PROVE  EventInv'
  BY <1>3, ScheduleSafe, ReturnSafe, LeaveSafe, WakeSendersSafe
<1>4. CASE UNCHANGED vars
  <2> USE <1>4 DEF vars, event_vars, sched_vars
  <2>1. SchedInv' /\ TypeOK'
    BY EventTypes
    DEF EventInv, SchedInv, SchedTypeOK, OnRunQueue, WaitStateWhileSleeping, TypeOK
  <2>2. PhasesMatch' /\ SendUnderWay'
    BY DEF EventInv, PhasesMatch, SendUnderWay
  <2>3. QED
    BY <2>1, <2>2, QuietStep
<1>5. QED
  BY <1>1, <1>2, <1>3, <1>4, TickSafe, IdleLoopSafe DEF Next, Running

LEMMA EventAlways == Spec => []EventInv
  BY EventInit, EventStep, PTL DEF Spec

\* A send is reported as successful exactly when its event was taken with the
\* value sent, whatever timeouts, kills and exits do to either side between
\* the wakeup by the receiver and the return of the sender.
THEOREM EventsAreDelivered == Spec => []SuccessIffReceived
<1>1. EventInv => SuccessIffReceived
  BY DEF EventInv
<1>2. QED
  BY <1>1, EventAlways, PTL

\* No process sleeps for what has already come: no receiver beside a waiting
\* sender and no sleeper past its timeout; and no wakeup reaches a dead process,
\* whose assertion would stop the kernel.
THEOREM NobodySleepsInVain == Spec => [](NothingMissed /\ panic = "none")
<1>1. EventInv => NothingMissed /\ panic = "none"
  BY DEF EventInv
<1>2. QED
  BY <1>1, EventAlways, PTL

\* A sender that sleeps is in the box of its target, which is not dead; a box
\* holds only senders in the middle of their call to its owner, none that was
\* woken or died, and nobody once its owner is dead.
THEOREM BoxesHoldTheirSenders == Spec => []SendersWait
<1>1. EventInv => SendersWait
  BY DEF EventInv
<1>2. QED
  BY <1>1, EventAlways, PTL
=============================================================================

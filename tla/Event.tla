-------------------------------- MODULE Event --------------------------------
(***************************************************************************)
(* Events between processes (kern/sync/event.c): ipc_event_send() hands a  *)
(* value to one receiver and returns when it has been taken, ipc_event_    *)
(* recv() takes the value of the first sender that waits in the event box  *)
(* of the caller.  Both may time out, and be cut short by a kill; a process*)
(* that exits wakes the senders in its box.                                *)
(*                                                                         *)
(* pc: "user"; "send" between the wakeup of the receiver and the wait of   *)
(* the sender (interrupts are on); "s_schedule"/"s_resume" around the      *)
(* sender's schedule(), "r_schedule"/"r_resume" around the receiver's;     *)
(* "return" in trap(); "exit" and "dead" in __do_exit().                   *)
(***************************************************************************)
EXTENDS Scheduler, Integers, Lists

CONSTANTS Values,      \* event values
          Timeouts,    \* the timeouts a caller may give, in ticks
          NoTimer      \* timeout 0: no timer

ASSUME EventAssumption == /\ WaitStates = {"WT_EVENT_SEND", "WT_EVENT_RECV"}
                          /\ Timeouts \subseteq Nat \ {0}
                          /\ NoTimer \notin Nat
                          /\ "none" \notin Values

VARIABLES box,            \* event_box.wait_queue: the senders to a process
          event,          \* event_box.event: the value a process sends
          target,         \* the process a sender sends to (its wait_queue)
          wakeup_flags,   \* wait->wakeup_flags of a sender
          pc, timer, killed,
          received        \* history: the event taken from the ongoing send

event_vars == <<box, event, target, wakeup_flags, received>>
vars == <<sched_vars, event_vars, pc, timer, killed>>

NoEvent == "none"
Sending == {"send", "s_schedule", "s_resume"}
Receiving == {"r_schedule", "r_resume"}

TypeOK ==
    /\ SchedTypeOK
    /\ box \in [Procs -> Seq(Procs)]
    /\ event \in [Procs -> Values]
    /\ target \in [Procs -> Procs]
    /\ wakeup_flags \in [Procs -> {"WT_INTERRUPTED", "WT_EVENT_SEND"}]
    /\ pc \in [Procs -> {"user", "return", "exit", "dead"} \cup Sending \cup Receiving]
    /\ timer \in [Procs -> Nat \cup {NoTimer}]
    /\ killed \subseteq Procs
    /\ received \in [Procs -> Values \cup {NoEvent}]

Init ==
    /\ SchedInit(Procs)
    /\ box = [p \in Procs |-> <<>>]
    /\ event \in [Procs -> Values] /\ \A p, q \in Procs : event[p] = event[q]
    /\ target = [p \in Procs |-> p]
    /\ wakeup_flags = [p \in Procs |-> "WT_INTERRUPTED"]
    /\ pc = [p \in Procs |-> "user"]
    /\ timer = [p \in Procs |-> NoTimer]
    /\ killed = {}
    /\ received = [p \in Procs |-> NoEvent]

InBox(p) == Elements(box[p])
Goto(p, label) == pc' = [pc EXCEPT ![p] = label]
StartTimer(p) ==
    \E t \in Timeouts \cup {NoTimer} : timer' = [timer EXCEPT ![p] = t]
StopTimer(p) == timer' = [timer EXCEPT ![p] = NoTimer]

-----------------------------------------------------------------------------
(* ipc_event_send() *)

\* Faulty variant of Send: the sleeping receiver is not woken.
SendNoWakeup(p, to) ==
    /\ pc[p] = "user" /\ to # p /\ state[to] \notin {"UNINIT", "ZOMBIE"}
    /\ \E v \in Values : event' = [event EXCEPT ![p] = v]
    /\ target' = [target EXCEPT ![p] = to]
    /\ received' = [received EXCEPT ![p] = NoEvent]
    /\ Goto(p, "send")
    /\ UNCHANGED <<sched_vars, box, wakeup_flags, timer, killed>>

\* The target exists and lives: wake it if it waits for an event, and set the
\* value.  Otherwise the call fails at once (no step).
Send(p, to) ==
    /\ pc[p] = "user" /\ to # p /\ state[to] \notin {"UNINIT", "ZOMBIE"}
    /\ Wakeup(IF wait_state[to] = "WT_EVENT_RECV" THEN {to} ELSE {})
    /\ \E v \in Values : event' = [event EXCEPT ![p] = v]
    /\ target' = [target EXCEPT ![p] = to]
    /\ received' = [received EXCEPT ![p] = NoEvent]
    /\ Goto(p, "send")
    /\ UNCHANGED <<box, wakeup_flags, timer, killed>>

\* send_event(): queue up in the box of the target and sleep.
SendBlock(p) ==
    /\ pc[p] = "send"
    /\ box' = [box EXCEPT ![target[p]] = AddLast(@, p)]
    /\ wakeup_flags' = [wakeup_flags EXCEPT ![p] = "WT_INTERRUPTED"]
    /\ Block("WT_EVENT_SEND")
    /\ StartTimer(p)
    /\ Goto(p, "s_schedule")
    /\ UNCHANGED <<event, target, received, killed>>

\* The sender runs again: success if the receiver woke it, else an error.
SendResume(p) ==
    /\ pc[p] = "s_resume"
    /\ box' = [box EXCEPT ![target[p]] = Unlink(@, p)]
    /\ StopTimer(p)
    /\ Goto(p, "return")
    /\ UNCHANGED <<sched_vars, event, target, wakeup_flags, received, killed>>

-----------------------------------------------------------------------------
(* ipc_event_recv() *)

\* Nobody is sending: sleep.
RecvBlock(p) ==
    /\ pc[p] = "user" /\ box[p] = <<>>
    /\ Block("WT_EVENT_RECV")
    /\ StartTimer(p)
    /\ Goto(p, "r_schedule")
    /\ UNCHANGED <<event_vars, killed>>

\* Faulty variant of RecvTake: the value comes from the receiver's own box.
RecvTakeOwn(p) ==
    LET sender == Head(box[p]) IN
    /\ pc[p] \in {"user", "r_resume"} /\ box[p] # <<>>
    /\ received' = [received EXCEPT ![sender] = event[p]]
    /\ box' = [box EXCEPT ![p] = Tail(@)]
    /\ wakeup_flags' = [wakeup_flags EXCEPT ![sender] = "WT_EVENT_SEND"]
    /\ Wakeup({sender})
    /\ StopTimer(p)
    /\ Goto(p, "return")
    /\ UNCHANGED <<event, target, killed>>

\* Take the event of the first sender and wake it, at once or after a sleep.
RecvTake(p) ==
    LET sender == Head(box[p]) IN
    /\ pc[p] \in {"user", "r_resume"} /\ box[p] # <<>>
    /\ received' = [received EXCEPT ![sender] = event[sender]]
    /\ box' = [box EXCEPT ![p] = Tail(@)]
    /\ wakeup_flags' = [wakeup_flags EXCEPT ![sender] = "WT_EVENT_SEND"]
    /\ Wakeup({sender})
    /\ StopTimer(p)
    /\ Goto(p, "return")
    /\ UNCHANGED <<event, target, killed>>

\* Still no sender after the sleep: the call fails.
RecvFail(p) ==
    /\ pc[p] = "r_resume" /\ box[p] = <<>>
    /\ StopTimer(p)
    /\ Goto(p, "return")
    /\ UNCHANGED <<sched_vars, event_vars, killed>>

-----------------------------------------------------------------------------
(* Scheduling, kills, exits, timers *)

\* The call of schedule() after going to sleep, or at the end of __do_exit().
Schedule(p) ==
    /\ \/ pc[p] = "s_schedule" /\ Goto(p, "s_resume")
       \/ pc[p] = "r_schedule" /\ Goto(p, "r_resume")
       \/ pc[p] = "dead" /\ UNCHANGED pc
    /\ Reschedule
    /\ UNCHANGED <<event_vars, timer, killed>>

\* do_kill(); both wait states carry WT_INTERRUPTED.
Kill(p, victim) ==
    /\ pc[p] = "user" /\ victim \notin killed /\ state[victim] # "UNINIT"
    /\ killed' = killed \cup {victim}
    /\ Wakeup(IF wait_state[victim] # "none" THEN {victim} ELSE {})
    /\ Goto(p, "return")
    /\ UNCHANGED <<event_vars, timer>>

\* The end of trap().
Return(p) ==
    /\ pc[p] = "return" /\ p \notin killed
    /\ Goto(p, "user")
    /\ Reschedule \/ UNCHANGED sched_vars
    /\ UNCHANGED <<event_vars, timer, killed>>

\* __do_exit(), by a system call or for a killed process ...
Leave(p) ==
    /\ pc[p] = "user" \/ (pc[p] = "return" /\ p \in killed)
    /\ Exit
    /\ Goto(p, "exit")
    /\ UNCHANGED <<event_vars, timer, killed>>

\* Faulty variant of WakeSenders: only the first is woken.
WakeSendersFirst(p) ==
    /\ pc[p] = "exit"
    /\ Wakeup(IF box[p] = <<>> THEN {} ELSE {Head(box[p])})
    /\ box' = [box EXCEPT ![p] = <<>>]
    /\ Goto(p, "dead")
    /\ UNCHANGED <<event, target, wakeup_flags, received, timer, killed>>

\* ... which wakes all who send to it, with WT_INTERRUPTED.
WakeSenders(p) ==
    /\ pc[p] = "exit"
    /\ Wakeup(InBox(p))
    /\ box' = [box EXCEPT ![p] = <<>>]
    /\ Goto(p, "dead")
    /\ UNCHANGED <<event, target, wakeup_flags, received, timer, killed>>

\* The parent frees the dead process, and its structure is used by a new one.
ReapAndReuse(p, dead) ==
    /\ pc[p] = "user" /\ state[dead] \in {"ZOMBIE", "UNINIT"} /\ dead # p
    /\ IF state[dead] = "ZOMBIE"
       THEN Reap(dead) /\ UNCHANGED <<pc, killed, event_vars>>
       ELSE /\ Wakeup({dead})
            /\ Goto(dead, "user")
            /\ killed' = killed \ {dead}
            /\ box' = [box EXCEPT ![dead] = <<>>]
            /\ UNCHANGED <<event, target, wakeup_flags, received>>
    /\ UNCHANGED timer

\* The timer interrupt; one that comes in user mode runs the end of trap().
Tick ==
    /\ timer' = [p \in Procs |-> IF timer[p] \in {NoTimer, 0} THEN timer[p]
                                 ELSE timer[p] - 1]
    /\ Wakeup({p \in Procs : timer[p] = 1})
    /\ pc' = [p \in Procs |-> IF p = current /\ pc[p] = "user" THEN "return" ELSE pc[p]]
    /\ UNCHANGED <<event_vars, killed>>

IdleLoop ==
    /\ current = Idle
    /\ Reschedule
    /\ UNCHANGED <<event_vars, pc, timer, killed>>

Running(p) ==
    \/ \E to \in Procs : Send(p, to) \/ Kill(p, to) \/ ReapAndReuse(p, to)
    \/ SendBlock(p) \/ SendResume(p) \/ RecvBlock(p) \/ RecvTake(p) \/ RecvFail(p)
    \/ Schedule(p) \/ Return(p) \/ Leave(p) \/ WakeSenders(p)

Next ==
    \/ \E p \in Procs : current = p /\ Running(p)
    \/ Tick
    \/ IdleLoop

Spec == Init /\ [][Next]_vars

-----------------------------------------------------------------------------
(* Properties *)

\* A send is reported as successful exactly when its event was received, with
\* the value sent: nothing a timeout, kill or exit does on either side can
\* make the two disagree.
SuccessIffReceived ==
    \A p \in Procs : pc[p] \in {"s_schedule", "s_resume"} /\ state[p] # "ZOMBIE" =>
        /\ wakeup_flags[p] = "WT_EVENT_SEND" <=> received[p] # NoEvent
        /\ received[p] \in {NoEvent, event[p]}

\* Nobody sleeps for what has already come: a receiver never sleeps while
\* somebody waits to send to it (the sender wakes it BEFORE it queues up), and
\* nobody sleeps on after its timer has expired, which is all that ends the wait
\* of two processes that send to each other.
NothingMissed ==
    /\ \A p \in Procs : wait_state[p] = "WT_EVENT_RECV" => box[p] = <<>>
    /\ \A p \in Procs : state[p] = "SLEEPING" /\ timer[p] # NoTimer => timer[p] > 0

\* Who sleeps in a send is in the box of its target, and the target lives to
\* empty it; who is in a box is still inside its send (the wait_t is on its
\* stack) and has not been served.  The box of a process that is gone is empty,
\* so its memory can be reused.  The state is well typed.
SendersWait ==
    /\ TypeOK
    /\ \A p \in Procs : wait_state[p] = "WT_EVENT_SEND" =>
          p \in InBox(target[p]) /\ pc[target[p]] # "dead"
    /\ \A q \in Procs : \A p \in InBox(q) :
          /\ pc[p] \in {"s_schedule", "s_resume"} /\ target[p] = q
          /\ wakeup_flags[p] = "WT_INTERRUPTED" /\ state[p] # "ZOMBIE"
    /\ \A q \in Procs : pc[q] = "dead" \/ state[q] = "UNINIT" => box[q] = <<>>
=============================================================================

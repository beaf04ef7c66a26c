--------------------------------- MODULE Mbox ---------------------------------
(***************************************************************************)
(* Message boxes (kern/sync/mbox.c): bounded queues of messages that any   *)
(* process may send to and receive from, with timeouts, and that any       *)
(* process may close under the callers.  A box is found by its id, which   *)
(* stands for one structure of a page in mbox_map; closed structures are   *)
(* used again.                                                             *)
(*                                                                         *)
(* pc: "user"; "s_load" and "r_check" before the call has read the buffer  *)
(* of the caller (which may sleep), "s_loop"/"r_loop" at the head of the   *)
(* loops of send_msg() and recv_msg(), "s_schedule" .. "r_resume" around   *)
(* their schedule(), "r_copy" before the copy to the caller (which may     *)
(* sleep), "i_page" in the alloc_page() of new_mbox(), "return" in trap(). *)
(***************************************************************************)
EXTENDS Scheduler, TimerList, Lists

CONSTANTS Pages,      \* MAX_MBOX_PAGES pages, each the sequence of its boxes
          Messages,   \* the structures that load_msg() allocates
          Sizes,      \* sizes of messages and of receive buffers
          MaxSlots,   \* the bounds that ipc_mbox_init() is called with
          Timeouts    \* the timeouts of timed calls, in ticks

Boxes == UNION {Elements(Pages[i]) : i \in DOMAIN Pages}

None == "none"

\* A box is one structure of one page.
ASSUME MboxAssumption == /\ {"WT_MBOX_SEND", "WT_MBOX_RECV"} \subseteq WaitStates
                         /\ Owners = Procs /\ IsFiniteSet(Procs)
                         /\ Timeouts \subseteq Nat \ {0}
                         /\ MaxSlots \subseteq Nat \ {0}
                         /\ None \notin Messages
                         /\ Sizes \subseteq Nat /\ Sizes # {}
                         /\ Pages \in Seq(Seq(Boxes) \ {<<>>}) /\ Pages # <<>>
                         /\ \A i, j \in DOMAIN Pages :
                               /\ Distinct(Pages[i])
                               /\ i # j => Elements(Pages[i]) \cap Elements(Pages[j]) = {}

VARIABLES mbox_map,       \* the pages that exist, by index
          free_mbox_list, \* the closed boxes of these pages
          mbox,           \* the structures
          bytes,          \* msg->bytes
          pc,
          id,             \* the box that the call of a process is about
          msg,            \* the message in the hands of a process, or None
          wakeup_flags,   \* wait->wakeup_flags
          timed,          \* the processes whose call has a timeout
          size,           \* the size of the receiver's buffer
          killed

box_vars == <<mbox_map, free_mbox_list, mbox>>
call_vars == <<id, msg, bytes, wakeup_flags, timed, size>>
vars == <<sched_vars, timer_vars, box_vars, call_vars, pc, killed>>

Sending == {"s_load", "s_loop", "s_schedule", "s_resume"}
Receiving == {"r_check", "r_loop", "r_schedule", "r_resume", "r_copy"}
Inside == {"s_loop", "s_schedule", "s_resume", "r_loop", "r_schedule", "r_resume"}

ClosedBox == [state |-> "CLOSED", inuse |-> 0, max_slots |-> 0, slots |-> 0,
              msgs |-> <<>>, senders |-> <<>>, receivers |-> <<>>]

TypeOK ==
    /\ SchedTypeOK /\ TimerTypeOK
    /\ mbox_map \subseteq DOMAIN Pages
    /\ free_mbox_list \in Seq(Boxes)
    /\ \A b \in Boxes :
          /\ mbox[b].state \in {"CLOSED", "OPENED", "CLOSING"}
          /\ mbox[b].inuse \in Nat /\ mbox[b].slots \in Nat
          /\ mbox[b].max_slots \in MaxSlots \cup {0}
          /\ mbox[b].msgs \in Seq(Messages)
          /\ mbox[b].senders \in Seq(Procs) /\ mbox[b].receivers \in Seq(Procs)
    /\ bytes \in [Messages -> Sizes]
    /\ pc \in [Procs -> {"user", "return", "i_page", "dead"} \cup Sending \cup Receiving]
    /\ id \in [Procs -> Boxes]
    /\ msg \in [Procs -> Messages \cup {None}]
    /\ wakeup_flags \in [Procs -> WaitStates \cup {"WT_INTERRUPTED"}]
    /\ timed \subseteq Procs /\ killed \subseteq Procs
    /\ size \in [Procs -> Sizes]

Smallest == CHOOSE s \in Sizes : \A t \in Sizes : s <= t

Init ==
    /\ SchedInit(Procs) /\ TimerInit
    /\ mbox_map = {} /\ free_mbox_list = <<>>
    /\ mbox = [b \in Boxes |-> ClosedBox]
    /\ bytes = [m \in Messages |-> Smallest]
    /\ pc = [p \in Procs |-> "user"]
    /\ id = [p \in Procs |-> CHOOSE b \in Boxes : TRUE]
    /\ msg = [p \in Procs |-> None]
    /\ wakeup_flags = [p \in Procs |-> "WT_INTERRUPTED"]
    /\ timed = {} /\ killed = {}
    /\ size = [p \in Procs |-> Smallest]

-----------------------------------------------------------------------------
(* Operations on a box.  They give the new structure and the processes that *)
(* are woken with which flags.                                             *)

Goto(p, label) == pc' = [pc EXCEPT ![p] = label]
Drop(p) == msg' = [msg EXCEPT ![p] = None]

Mapped(b) == \E i \in mbox_map : b \in Elements(Pages[i])

\* get_mbox(): only an open box is found.
get_mbox(b) == Mapped(b) /\ mbox[b].state = "OPENED"

\* The message structures that nobody has.
FreeMessages ==
    Messages \ ({msg[p] : p \in Procs} \cup UNION {Elements(mbox[b].msgs) : b \in Boxes})

\* wakeup_first() with del = 1, on a queue whose first entry may be awake
\* already: the processes it wakes, and the queue it leaves.
First(queue) == IF queue = <<>> THEN {} ELSE {Head(queue)}
Rest(queue) == IF queue = <<>> THEN <<>> ELSE Tail(queue)
Flag(P, flags) ==
    wakeup_flags' = [p \in Procs |-> IF p \in P THEN flags ELSE wakeup_flags[p]]

\* add_msg(): box is the structure b as the caller leaves it otherwise.
add_msg(b, box, m, append) ==
    /\ mbox' = [mbox EXCEPT ![b] = [box EXCEPT
           !.slots = @ + 1,
           !.msgs = IF append THEN AddLast(@, m) ELSE AddFirst(@, m),
           !.receivers = Rest(@)]]
    /\ Wakeup(First(box.receivers))
    /\ Flag(First(box.receivers), "WT_MBOX_RECV")

\* mbox_free().
Freed(box) == [box EXCEPT !.state = "CLOSED", !.inuse = 0, !.max_slots = 0, !.slots = 0]

\* Faulty variant of Leave: it is not tested whether others are inside.
LeaveFreesAlways(b) ==
    IF mbox[b].state # "OPENED"
    THEN /\ mbox' = [mbox EXCEPT ![b] = Freed(@)]
         /\ free_mbox_list' = AddLast(free_mbox_list, b)
    ELSE /\ mbox' = [mbox EXCEPT ![b].inuse = @ - 1]
         /\ UNCHANGED free_mbox_list

\* The end of send_msg() and recv_msg() for a caller that gives up: the last
\* one out of a box that is being closed frees it.
Leave(b) ==
    LET box == [mbox[b] EXCEPT !.inuse = @ - 1,
                               !.senders = Unlink(@, current),
                               !.receivers = Unlink(@, current)]
    IN IF box.state # "OPENED" /\ box.inuse = 0
       THEN /\ mbox' = [mbox EXCEPT ![b] = Freed(box)]
            /\ free_mbox_list' = AddLast(free_mbox_list, b)
       ELSE /\ mbox' = [mbox EXCEPT ![b] = box]
            /\ UNCHANGED free_mbox_list

\* wait_current_set() and ipc_add_timer(), for the first time or again.  The
\* timer is armed again with what is left in timer->expires, which is 0 if it
\* has fired: the assertion of add_timer().
SleepIn(p, reason) ==
    /\ wakeup_flags' = [wakeup_flags EXCEPT ![p] = "WT_INTERRUPTED"]
    /\ IF p \in timed /\ expires[p] = 0
       THEN /\ panic' = "add_timer"
            /\ UNCHANGED <<current, state, wait_state, runq, timer_vars>>
       ELSE /\ Block(reason)
            /\ IF p \in timed THEN AddTimer(p, expires[p]) ELSE UNCHANGED timer_vars

-----------------------------------------------------------------------------
(* ipc_mbox_init(), ipc_mbox_free(), mbox_cleanup() *)

\* The tail of new_mbox(): the first box of the free list is opened.
Open(p, list) ==
    /\ \E slots \in MaxSlots :
          mbox' = [mbox EXCEPT ![Head(list)].state = "OPENED",
                               ![Head(list)].max_slots = slots]
    /\ free_mbox_list' = Tail(list)
    /\ Goto(p, "return")

NextPage == CHOOSE i \in DOMAIN Pages \ mbox_map : \A j \in DOMAIN Pages \ mbox_map : i <= j

\* sem_mbox_map admits one caller to new_mbox().
InitCall(p) ==
    /\ pc[p] = "user" /\ \A q \in Procs : pc[q] # "i_page"
    /\ IF free_mbox_list # <<>> THEN Open(p, free_mbox_list)
       ELSE /\ mbox_map # DOMAIN Pages
            /\ Goto(p, "i_page")
            /\ UNCHANGED <<mbox, free_mbox_list>>
    /\ UNCHANGED <<sched_vars, timer_vars, call_vars, mbox_map, killed>>

\* alloc_page() returns a page: its boxes join those freed in the meantime.
InitPage(p) ==
    /\ pc[p] = "i_page"
    /\ mbox_map' = mbox_map \cup {NextPage}
    /\ Open(p, free_mbox_list \o Pages[NextPage])
    /\ UNCHANGED <<sched_vars, timer_vars, call_vars, killed>>

InitNoPage(p) ==
    /\ pc[p] = "i_page"
    /\ IF free_mbox_list # <<>> THEN Open(p, free_mbox_list)
       ELSE Goto(p, "return") /\ UNCHANGED <<mbox, free_mbox_list>>
    /\ UNCHANGED <<sched_vars, timer_vars, call_vars, mbox_map, killed>>

\* ipc_mbox_free(): the messages go, everybody who waits is sent home.
MboxFree(p, b) ==
    /\ pc[p] = "user" /\ get_mbox(b)
    /\ LET closing == [mbox[b] EXCEPT !.state = "CLOSING", !.msgs = <<>>,
                                      !.senders = <<>>, !.receivers = <<>>]
           waiting == Elements(mbox[b].senders) \cup Elements(mbox[b].receivers)
       IN /\ IF closing.inuse = 0
             THEN /\ mbox' = [mbox EXCEPT ![b] = Freed(closing)]
                  /\ free_mbox_list' = AddLast(free_mbox_list, b)
             ELSE mbox' = [mbox EXCEPT ![b] = closing] /\ UNCHANGED free_mbox_list
          /\ Wakeup(waiting)
          /\ Flag(waiting, "WT_INTERRUPTED")
    /\ Goto(p, "return")
    /\ UNCHANGED <<timer_vars, id, msg, bytes, timed, size, mbox_map, killed>>

\* mbox_cleanup() gives back the pages without a box in use (no caller yet).
Cleanup(p) ==
    LET idle == {i \in mbox_map : \A b \in Elements(Pages[i]) : mbox[b].state = "CLOSED"}
    IN
    /\ pc[p] = "user" /\ idle # {}
    /\ mbox_map' = mbox_map \ idle
    /\ free_mbox_list' = FoldSet(LAMBDA b, list : Unlink(list, b), free_mbox_list,
                                 UNION {Elements(Pages[i]) : i \in idle})
    /\ Goto(p, "return")
    /\ UNCHANGED <<sched_vars, timer_vars, call_vars, mbox, killed>>

-----------------------------------------------------------------------------
(* ipc_mbox_send() *)

SendCall(p, b) ==
    /\ pc[p] = "user" /\ get_mbox(b)
    /\ id' = [id EXCEPT ![p] = b]
    /\ Goto(p, "s_load")
    /\ UNCHANGED <<sched_vars, timer_vars, box_vars, msg, bytes, wakeup_flags, timed, size, killed>>

\* timer_init() of a call that has found its box, or no timer; inuse++.
Enter(p, label) ==
    /\ mbox' = [mbox EXCEPT ![id[p]].inuse = @ + 1]
    /\ \/ timed' = timed \ {p} /\ UNCHANGED expires
       \/ \E t \in Timeouts : timed' = timed \cup {p} /\ expires' = [expires EXCEPT ![p] = t]
    /\ Goto(p, label)
    /\ UNCHANGED timer_list

\* The message is loaded; by now the box may be closed, and the message is
\* freed again.
SendLoad(p) ==
    /\ pc[p] = "s_load"
    /\ IF get_mbox(id[p])
       THEN \E m \in FreeMessages, s \in Sizes :
                /\ bytes' = [bytes EXCEPT ![m] = s]
                /\ msg' = [msg EXCEPT ![p] = m]
                /\ Enter(p, "s_loop")
       ELSE Goto(p, "return") /\ UNCHANGED <<timer_vars, mbox, bytes, msg, timed>>
    /\ UNCHANGED <<sched_vars, mbox_map, free_mbox_list, id, wakeup_flags, size, killed>>

\* A bad buffer, or no memory for the message.
SendFails(p) ==
    /\ pc[p] = "s_load"
    /\ Goto(p, "return")
    /\ UNCHANGED <<sched_vars, timer_vars, box_vars, call_vars, killed>>

SendAdd(p) ==
    LET box == mbox[id[p]] IN
    /\ pc[p] = "s_loop" /\ box.slots < box.max_slots
    /\ add_msg(id[p], [box EXCEPT !.inuse = @ - 1], msg[p], TRUE)
    /\ Drop(p)
    /\ Goto(p, "return")
    /\ UNCHANGED <<timer_vars, mbox_map, free_mbox_list, id, bytes, timed, size, killed>>

SendBlock(p) ==
    LET b == id[p] IN
    /\ pc[p] = "s_loop" /\ mbox[b].slots >= mbox[b].max_slots
    /\ mbox' = [mbox EXCEPT ![b].senders = AddLast(@, p)]
    /\ SleepIn(p, "WT_MBOX_SEND")
    /\ Goto(p, "s_schedule")
    /\ UNCHANGED <<mbox_map, free_mbox_list, id, msg, bytes, timed, size, killed>>

\* The sender runs again.  Woken by a receiver, it looks at the box again;
\* otherwise it gives up and frees its message.
SendResume(p) ==
    LET b == id[p] IN
    /\ pc[p] = "s_resume"
    /\ DelTimer(p)
    /\ IF mbox[b].state = "OPENED" /\ wakeup_flags[p] = "WT_MBOX_SEND"
       THEN /\ mbox' = [mbox EXCEPT ![b].senders = Unlink(@, p)]
            /\ Goto(p, "s_loop")
            /\ UNCHANGED <<free_mbox_list, msg>>
       ELSE Leave(b) /\ Drop(p) /\ Goto(p, "return")
    /\ UNCHANGED <<sched_vars, mbox_map, id, bytes, wakeup_flags, timed, size, killed>>

-----------------------------------------------------------------------------
(* ipc_mbox_recv() *)

RecvCall(p, b) ==
    /\ pc[p] = "user" /\ get_mbox(b)
    /\ id' = [id EXCEPT ![p] = b]
    /\ size' \in {[size EXCEPT ![p] = s] : s \in Sizes}
    /\ Goto(p, "r_check")
    /\ UNCHANGED <<sched_vars, timer_vars, box_vars, msg, bytes, wakeup_flags, timed, killed>>

\* The buffer of the caller has been checked; the box may be closed by now.
RecvCheck(p) ==
    /\ pc[p] = "r_check"
    /\ \/ get_mbox(id[p]) /\ Enter(p, "r_loop")
       \/ Goto(p, "return") /\ UNCHANGED <<timer_vars, mbox, timed>>
    /\ UNCHANGED <<sched_vars, mbox_map, free_mbox_list, id, msg, bytes, wakeup_flags, size, killed>>

\* pick_msg(), and the sender that is woken for the free slot.
RecvTake(p) ==
    LET box == mbox[id[p]] IN
    /\ pc[p] = "r_loop" /\ box.slots > 0 /\ bytes[Head(box.msgs)] <= size[p]
    /\ msg' = [msg EXCEPT ![p] = Head(box.msgs)]
    /\ mbox' = [mbox EXCEPT ![id[p]] = [box EXCEPT
           !.slots = @ - 1, !.msgs = Tail(@), !.senders = Rest(@), !.inuse = @ - 1]]
    /\ Wakeup(First(box.senders))
    /\ Flag(First(box.senders), "WT_MBOX_SEND")
    /\ Goto(p, "r_copy")
    /\ UNCHANGED <<timer_vars, mbox_map, free_mbox_list, id, bytes, timed, size, killed>>

\* Faulty variant of RecvTooBig: the message stays without a receiver.
RecvTooBigSilent(p) ==
    LET box == mbox[id[p]] IN
    /\ pc[p] = "r_loop" /\ box.slots > 0 /\ bytes[Head(box.msgs)] > size[p]
    /\ mbox' = [mbox EXCEPT ![id[p]].inuse = @ - 1]
    /\ Goto(p, "return")
    /\ UNCHANGED <<sched_vars, timer_vars, mbox_map, free_mbox_list, call_vars, killed>>

\* The message does not fit; the next receiver shall try.
RecvTooBig(p) ==
    LET box == mbox[id[p]] IN
    /\ pc[p] = "r_loop" /\ box.slots > 0 /\ bytes[Head(box.msgs)] > size[p]
    /\ mbox' = [mbox EXCEPT ![id[p]] = [box EXCEPT !.receivers = Rest(@), !.inuse = @ - 1]]
    /\ Wakeup(First(box.receivers))
    /\ Flag(First(box.receivers), "WT_MBOX_RECV")
    /\ Goto(p, "return")
    /\ UNCHANGED <<timer_vars, mbox_map, free_mbox_list, id, msg, bytes, timed, size, killed>>

RecvBlock(p) ==
    LET b == id[p] IN
    /\ pc[p] = "r_loop" /\ mbox[b].slots = 0
    /\ mbox' = [mbox EXCEPT ![b].receivers = AddLast(@, p)]
    /\ SleepIn(p, "WT_MBOX_RECV")
    /\ Goto(p, "r_schedule")
    /\ UNCHANGED <<mbox_map, free_mbox_list, id, msg, bytes, timed, size, killed>>

RecvResume(p) ==
    LET b == id[p] IN
    /\ pc[p] = "r_resume"
    /\ DelTimer(p)
    /\ IF mbox[b].state = "OPENED" /\ wakeup_flags[p] = "WT_MBOX_RECV"
       THEN /\ mbox' = [mbox EXCEPT ![b].receivers = Unlink(@, p)]
            /\ Goto(p, "r_loop")
            /\ UNCHANGED free_mbox_list
       ELSE Leave(b) /\ Goto(p, "return")
    /\ UNCHANGED <<sched_vars, mbox_map, call_vars, killed>>

\* The copy to the caller succeeds, or fails when the box is gone.
RecvDone(p) ==
    /\ pc[p] = "r_copy"
    /\ Drop(p)
    /\ Goto(p, "return")
    /\ UNCHANGED <<sched_vars, timer_vars, box_vars, id, bytes, wakeup_flags, timed, size, killed>>

\* Faulty variant of RecvPutBack: the message is still freed.
RecvPutBackAndFree(p) ==
    /\ pc[p] = "r_copy" /\ get_mbox(id[p])
    /\ add_msg(id[p], mbox[id[p]], msg[p], FALSE)
    /\ Goto(p, "return")
    /\ UNCHANGED <<timer_vars, mbox_map, free_mbox_list, id, msg, bytes, timed, size, killed>>

\* The copy fails and a box with this id is open: the message goes to its head,
\* whether there is a slot or not.
RecvPutBack(p) ==
    /\ pc[p] = "r_copy" /\ get_mbox(id[p])
    /\ add_msg(id[p], mbox[id[p]], msg[p], FALSE)
    /\ Drop(p)
    /\ Goto(p, "return")
    /\ UNCHANGED <<timer_vars, mbox_map, free_mbox_list, id, bytes, timed, size, killed>>

-----------------------------------------------------------------------------
(* Scheduling, kills, exits, timers *)

\* The schedule() of the loops, of lock_mm() and of allocations that sleep
\* (the process stays runnable: it waits for nothing that is modelled here),
\* and that of a zombie.
Schedule(p) ==
    /\ \/ pc[p] = "s_schedule" /\ Goto(p, "s_resume")
       \/ pc[p] = "r_schedule" /\ Goto(p, "r_resume")
       \/ pc[p] \in {"s_load", "r_check", "r_copy", "i_page", "dead"} /\ UNCHANGED pc
    /\ Reschedule
    /\ UNCHANGED <<timer_vars, box_vars, call_vars, killed>>

\* do_kill(); both wait states carry WT_INTERRUPTED.
Kill(p, victim) ==
    /\ pc[p] = "user" /\ victim \notin killed /\ pc[victim] # "dead"
    /\ killed' = killed \cup {victim}
    /\ Wakeup(IF wait_state[victim] # "none" THEN {victim} ELSE {})
    /\ Goto(p, "return")
    /\ UNCHANGED <<timer_vars, box_vars, call_vars>>

\* The end of trap(); what the call had on the stack (its timer, wait_t, and
\* what it was called with) is no more, and takes its initial value here.
Return(p) ==
    /\ pc[p] = "return"
    /\ id' = [id EXCEPT ![p] = CHOOSE b \in Boxes : TRUE]
    /\ size' = [size EXCEPT ![p] = Smallest]
    /\ wakeup_flags' = [wakeup_flags EXCEPT ![p] = "WT_INTERRUPTED"]
    /\ expires' = [expires EXCEPT ![p] = 0]
    /\ timed' = timed \ {p}
    /\ IF p \in killed
       THEN Exit /\ Goto(p, "dead")
       ELSE Goto(p, "user") /\ (Reschedule \/ UNCHANGED sched_vars)
    /\ UNCHANGED <<timer_list, box_vars, msg, bytes, killed>>

\* The timer interrupt; one that comes in user mode runs the end of trap().
Tick ==
    /\ RunTimers
    /\ Wakeup(Expired)
    /\ pc' = [p \in Procs |-> IF p = current /\ pc[p] = "user" THEN "return" ELSE pc[p]]
    /\ UNCHANGED <<box_vars, call_vars, killed>>

IdleLoop ==
    /\ current = Idle
    /\ Reschedule
    /\ UNCHANGED <<timer_vars, box_vars, call_vars, pc, killed>>

Running(p) ==
    \/ InitCall(p) \/ InitPage(p) \/ InitNoPage(p) \/ Cleanup(p)
    \/ \E b \in Boxes : MboxFree(p, b) \/ SendCall(p, b) \/ RecvCall(p, b)
    \/ SendLoad(p) \/ SendFails(p) \/ SendAdd(p) \/ SendBlock(p) \/ SendResume(p)
    \/ RecvCheck(p) \/ RecvTake(p) \/ RecvTooBig(p) \/ RecvBlock(p) \/ RecvResume(p)
    \/ RecvDone(p) \/ RecvPutBack(p)
    \/ Schedule(p) \/ Return(p) \/ \E victim \in Procs : Kill(p, victim)

Next ==
    \/ panic = "none" /\ \E p \in Procs : current = p /\ Running(p)
    \/ panic = "none" /\ (Tick \/ IdleLoop)
    \/ Halted /\ UNCHANGED vars

Spec == Init /\ [][Next]_vars

-----------------------------------------------------------------------------
(* Properties *)

\* Those who have been woken to look at box b again and have not done so yet.
Woken(b, flags) ==
    {p \in Procs : pc[p] \in Inside /\ id[p] = b /\ wakeup_flags[p] = flags}

\* No missed wakeup: while a process sleeps for a message (for a slot), at least
\* as many receivers (senders) as there are messages (free slots) have been
\* woken and are about to look.  Timeouts, kills, messages that do not fit and
\* copies that fail must all hand their wakeup on.
NoMissedMeeting ==
    \A b \in Boxes : panic = "none" /\ mbox[b].state = "OPENED" =>
        /\ (\E p \in Elements(mbox[b].receivers) : state[p] = "SLEEPING")
              => Cardinality(Woken(b, "WT_MBOX_RECV")) >= mbox[b].slots
        /\ (\E p \in Elements(mbox[b].senders) : state[p] = "SLEEPING")
              => Cardinality(Woken(b, "WT_MBOX_SEND")) + mbox[b].slots >= mbox[b].max_slots

\* Every message is in one place only: the hands of one process or one box.
\* slots counts the messages of an open box.
MessagesHeldOnce ==
    /\ \A p, q \in Procs : msg[p] = msg[q] /\ msg[p] # None => p = q
    /\ \A p \in Procs : msg[p] # None => pc[p] \in Inside \cup {"r_copy"}
    /\ \A b \in Boxes :
          /\ Distinct(mbox[b].msgs)
          /\ \A p \in Procs : msg[p] \notin Elements(mbox[b].msgs)
          /\ \A c \in Boxes \ {b} : Elements(mbox[b].msgs) \cap Elements(mbox[c].msgs) = {}
          /\ mbox[b].state = "OPENED" => mbox[b].slots = Len(mbox[b].msgs)

\* A box is not used again while anybody is still inside: inuse counts the
\* callers between their first look at it and their last, a box that is being
\* closed waits for them and is freed by the last one, and the free list holds
\* the closed boxes, once, with nothing queued.  The state is well typed.
BoxesOutliveCallers ==
    /\ TypeOK
    /\ \A b \in Boxes :
        LET inside == {p \in Procs : id[p] = b /\ pc[p] \in Inside} IN
        /\ mbox[b].inuse = Cardinality(inside)
        /\ Elements(mbox[b].senders) \cup Elements(mbox[b].receivers) \subseteq inside
        /\ mbox[b].state = "CLOSING" => inside # {}
        /\ mbox[b].state # "OPENED" => mbox[b].senders = <<>> /\ mbox[b].receivers = <<>>
        /\ mbox[b].state # "OPENED" => mbox[b].msgs = <<>>
    /\ Distinct(free_mbox_list)
    /\ Elements(free_mbox_list) = {b \in Boxes : Mapped(b) /\ mbox[b].state = "CLOSED"}
    /\ \A b \in Boxes : mbox[b].state # "CLOSED" => Mapped(b)
=============================================================================

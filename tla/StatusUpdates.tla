---------------------------- MODULE StatusUpdates ----------------------------
(***************************************************************************)
(* The status updates of one webxdc instance on the device that sent it    *)
(* (src/webxdc.rs): updates are numbered by the serial of their row in     *)
(* msgs_status_updates, the one row of smtp_status_updates holds the range *)
(* of serials still to be sent, the sending loop turns that range into     *)
(* messages, and resending the instance reopens the range.  API calls, the *)
(* sending loop and the receiving loop share the two tables.  An update is *)
(* its uid; its payload, summary, info message and notification are left   *)
(* out.                                                                    *)
(***************************************************************************)
EXTENDS Integers, Sequences, FiniteSets, SequencesExt

CONSTANTS Own,          \* uids of the updates this device sends, one per API call
          Theirs,       \* uids of the updates other members send
          Start,        \* states the instance may be in at first
          SizeMax,      \* updates that fit in one message
          Concurrent,   \* whether API calls overlap
          MaxResends, MaxCrashes

VARIABLES inst,         \* state of the instance: draft, pending (not rendered) or sent
          rows,         \* msgs_status_updates: rows[serial] is a uid
          queue,        \* smtp_status_updates: no row or its range [first, last]
          call,         \* the call of send_webxdc_status_update for each own uid
          flush,        \* flush_status_updates in the sending loop
          due,          \* ghost: serials promised to the chat and not sent since
          resends, crashes

vars == <<inst, rows, queue, call, flush, due, resends, crashes>>

NoRow == [first |-> 1, last |-> -1]
Idle  == [pc |-> "idle", first |-> 0, last |-> 0, out |-> {}, firstNew |-> 0]
Serials == 1 .. Len(rows)
Busy == \E u \in Own : call[u].pc \in {"loaded", "recorded"}
MayCall == Concurrent \/ ~Busy

TypeOK ==
    /\ inst \in {"draft", "pending", "sent"}
    /\ rows \in Seq(Own \cup Theirs) /\ IsInjective(rows)
    /\ queue \in [first : Int, last : Int]
    /\ \A u \in Own : call[u].pc \in {"new", "loaded", "recorded", "done", "dead"}
    /\ flush.pc \in {"idle", "read", "rendered", "sent", "kept"}
    /\ due \subseteq Serials
    /\ resends \in 0 .. MaxResends /\ crashes \in 0 .. MaxCrashes

Init ==
    /\ inst \in Start /\ rows = <<>> /\ queue = NoRow
    /\ call = [u \in Own |-> [pc |-> "new", now |-> FALSE, serial |-> 0]]
    /\ flush = Idle /\ due = {} /\ resends = 0 /\ crashes = 0

----------------------------------------------------------------------------
\* send_webxdc_status_update_struct: the instance is loaded, the update gets
\* its row and then its place in the queue, each in a statement of its own.
Load(u) ==
    /\ call[u].pc = "new" /\ MayCall
    /\ call' = [call EXCEPT ![u] = [pc |-> "loaded", now |-> inst # "draft", serial |-> 0]]
    /\ UNCHANGED <<inst, rows, queue, flush, due, resends, crashes>>

\* write_status_update_inner; a draft's update is then done.
Record(u) ==
    /\ call[u].pc = "loaded"
    /\ rows' = Append(rows, u)
    /\ call' = [call EXCEPT ![u].pc = IF call[u].now THEN "recorded" ELSE "done",
                            ![u].serial = Len(rows) + 1]
    /\ due' = IF call[u].now THEN due ELSE due \cup {Len(rows) + 1}
    /\ UNCHANGED <<inst, queue, flush, resends, crashes>>

\* INSERT ... ON CONFLICT(msg_id) DO UPDATE SET last_serial.
Queued(q, s) == IF q = NoRow THEN [first |-> s, last |-> s] ELSE [q EXCEPT !.last = s]

Enqueue(u) ==
    /\ call[u].pc = "recorded"
    /\ queue' = Queued(queue, call[u].serial)
    /\ call' = [call EXCEPT ![u].pc = "done"]
    /\ due' = due \cup {call[u].serial}
    /\ UNCHANGED <<inst, rows, flush, resends, crashes>>

\* An update of another member arrives, possibly once more: a known uid is ignored.
receive_status_update(u) ==
    /\ inst # "draft"
    /\ rows' = IF Contains(rows, u) THEN rows ELSE Append(rows, u)
    /\ UNCHANGED <<inst, queue, call, flush, due, resends, crashes>>

\* Sending the draft: its state changes, then it is rendered with all its updates.
Prepare ==
    /\ inst = "draft" /\ MayCall
    /\ inst' = "pending"
    /\ UNCHANGED <<rows, queue, call, flush, due, resends, crashes>>

Render ==
    /\ inst = "pending"
    /\ inst' = "sent" /\ due' = {}
    /\ UNCHANGED <<rows, queue, call, flush, resends, crashes>>

\* resend_msgs_ex: the instance is rendered again with all its updates and the
\* range is reopened; first_serial always changes, so that a flush that is
\* about to take the row off notices.
ReopenedSame(q) == IF q = NoRow THEN [first |-> 1, last |-> Len(rows)]
                   ELSE [q EXCEPT !.first = 1]

Reopened(q) == IF q = NoRow THEN [first |-> 1, last |-> Len(rows)]
               ELSE [q EXCEPT !.first = IF q.first - 1 < 1 THEN q.first - 1 ELSE 1]

resend_msgs ==
    /\ inst # "draft" /\ MayCall /\ resends < MaxResends
    /\ inst' = "sent" /\ resends' = resends + 1
    /\ queue' = IF rows = <<>> THEN queue ELSE Reopened(queue)
    /\ due' = {s \in Serials : s <= queue'.last}
    /\ UNCHANGED <<rows, call, flush, crashes>>

----------------------------------------------------------------------------
\* flush_status_updates, in the sending loop.
Read ==
    /\ flush.pc = "idle" /\ queue # NoRow
    /\ flush' = [Idle EXCEPT !.pc = "read", !.first = queue.first, !.last = queue.last]
    /\ UNCHANGED <<inst, rows, queue, call, due, resends, crashes>>

\* render_webxdc_status_update_object: the serials of one message and the
\* first serial left for the next.
AtLeast1(n) == IF n < 1 THEN 1 ELSE n

Rendered(first, last) ==
    LET asked == {s \in Serials : s >= AtLeast1(first) /\ s <= last}
        cut == {s \in asked : Cardinality({t \in asked : t < s}) >= SizeMax}
    IN [out |-> asked \ cut,
        firstNew |-> IF cut = {} THEN last + 1 ELSE CHOOSE s \in cut : \A t \in cut : s <= t]

RenderUpdates ==
    /\ flush.pc = "read"
    /\ LET r == Rendered(flush.first, flush.last)
       IN flush' = [flush EXCEPT !.pc = IF r.out = {} THEN "sent" ELSE "rendered",
                                 !.out = r.out, !.firstNew = r.firstNew]
    /\ UNCHANGED <<inst, rows, queue, call, due, resends, crashes>>

\* chat::send_msg puts the message into the outgoing queue.
SendUpdates ==
    /\ flush.pc = "rendered"
    /\ flush' = [flush EXCEPT !.pc = "sent"]
    /\ due' = due \ flush.out
    /\ UNCHANGED <<inst, rows, queue, call, resends, crashes>>

\* smtp_status_update_pop_serials: DELETE, and when it matched no row UPDATE.
Pops(q, f) == q.first = f.first /\ q.last < f.firstNew

PopDelete ==
    /\ flush.pc = "sent"
    /\ LET gone == queue # NoRow /\ Pops(queue, flush)
       IN /\ queue' = IF gone THEN NoRow ELSE queue
          /\ flush' = IF gone THEN Idle ELSE [flush EXCEPT !.pc = "kept"]
    /\ UNCHANGED <<inst, rows, call, due, resends, crashes>>

PopUpdate ==
    /\ flush.pc = "kept"
    /\ queue' = IF queue # NoRow /\ queue.first = flush.first
                THEN [queue EXCEPT !.first = flush.firstNew] ELSE queue
    /\ flush' = Idle
    /\ UNCHANGED <<inst, rows, call, due, resends, crashes>>

\* The process ends: calls and the sending loop are forgotten, the tables stay.
Crash ==
    /\ crashes < MaxCrashes
    /\ crashes' = crashes + 1
    /\ flush' = Idle
    /\ call' = [u \in Own |-> IF call[u].pc \in {"loaded", "recorded"}
                              THEN [call[u] EXCEPT !.pc = "dead"] ELSE call[u]]
    /\ UNCHANGED <<inst, rows, queue, due, resends>>

Next ==
    \/ \E u \in Own : Load(u) \/ Record(u) \/ Enqueue(u)
    \/ \E u \in Theirs : receive_status_update(u)
    \/ Prepare \/ Render \/ resend_msgs
    \/ Read \/ RenderUpdates \/ SendUpdates \/ PopDelete \/ PopUpdate
    \/ Crash

Spec == Init /\ [][Next]_vars

----------------------------------------------------------------------------
\* An update whose sending or resending was promised (the call returned, the
\* instance is out) is still in the queued range or in the message the
\* sending loop is about to queue, until a message carried it: neither a send
\* nor a resend that races with the loop, nor a crash, makes the loop drop it.
NoUpdateLost ==
    inst = "sent" =>
        \A s \in due : \/ queue # NoRow /\ queue.first <= s /\ s <= queue.last
                       \/ flush.pc = "rendered" /\ s \in flush.out
=============================================================================

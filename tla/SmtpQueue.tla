------------------------------ MODULE SmtpQueue ------------------------------
(***************************************************************************)
(* The outgoing queue: the smtp table that sending a message fills         *)
(* (src/src/chat.rs), the SMTP loop that works it off row by row           *)
(* (src/src/smtp.rs, src/src/scheduler.rs), the read receipts it sends     *)
(* afterwards, and what else touches the queue: deleting a message, seeing *)
(* one's own copy on IMAP, switching the primary transport, and            *)
(* send_msg_sync.  A write to the database is a step of its own: a crash   *)
(* may fall between any two, and the other tasks act in between.           *)
(*                                                                         *)
(* A message is sent in parts, one per chunk of recipients; the last chunk *)
(* ends with the own address.                                              *)
(***************************************************************************)
EXTENDS Integers, FiniteSets

CONSTANTS
    Msgs,         \* messages
    Recipientless, \* those of them that nobody but the own device would get
    NParts,       \* parts of a message
    Receipts,     \* read receipts to send (rows of smtp_mdns)
    Contact,      \* Contact[x]: to whom receipt x goes
    RetryLimit,   \* tries before a row is given up (6)
    Quota,        \* messages the rate limit allows at once (3)
    Events,       \* which of "crash", "lost_ok", "resend", "switch", "delete" happen
    MaxFaults,    \* bound: how often they happen, all together
    SyncSender,   \* whether send_msg_sync is used
    None          \* no row, nothing loaded

ASSUME SmtpAssumption ==
    /\ IsFiniteSet(Msgs) /\ Recipientless \subseteq Msgs
    /\ NParts \in Nat \ {0} /\ RetryLimit \in Nat \ {0} /\ Quota \in Nat \ {0}
    /\ MaxFaults \in Nat
    /\ Events \subseteq {"crash", "lost_ok", "resend", "switch", "delete"}
    /\ SyncSender \in BOOLEAN

VARIABLES
    state,     \* state[m]: msgs.state; "none" before the message exists, "gone" once it is in the trash
    prep,      \* messages whose jobs are about to be created
    trashing,  \* messages whose jobs are deleted and that go to the trash next
    job,       \* job[i]: the row of the smtp table with id i, or None
    nextId,    \* the next row id (AUTOINCREMENT)
    pc,        \* pc[s]: where the task s is
    todo,      \* todo[s]: row ids still to be handled in this pass
    cur,       \* cur[s]: the id and the content of the row at hand
    limited,   \* the rate limit did not allow more when the pass began
    woken,     \* an interrupt waits for the SMTP loop
    synced,    \* the message send_msg_sync is called for
    used,      \* the rate limiter's current value
    mdn,       \* mdn[x]: tries of a queued receipt, -1 if it is not queued
    report,    \* the receipts in the report being sent
    first,     \* the receipt this report is made for
    accepted,  \* history: accepted[m][p]: how often the server took the part
    asked,     \* history: receipts that were queued
    acked,     \* history: receipts the server took
    gaveUp,    \* history: receipts dropped after an error, too many tries or by the user
    inbox,     \* own copies that wait on IMAP
    faults     \* faults so far (bounds the instance)

msgVars == <<state, prep, trashing, job, nextId, accepted>>
mdnVars == <<mdn, report, first, asked, acked, gaveUp>>
loopVars == <<pc, todo, cur, limited, woken, synced, used>>
vars == <<msgVars, mdnVars, loopVars, inbox, faults>>

Parts == 1..NParts
SelfPart == NParts
MaxJobs == NParts * (Cardinality(Msgs) + MaxFaults)   \* enough for every (re)send
Ids == 1..MaxJobs
Loop == "smtp_loop"
Sync == "send_msg_sync"
Imap == "imap_loop"
Senders == IF SyncSender THEN {Loop, Sync} ELSE {Loop}
Tasks == Senders \cup {Imap}

States == {"none", "OutPending", "OutDelivered", "OutFailed", "gone"}
InHand == {"expired", "transmit", "rejected", "drop", "ok", "check", "deliver"}
Pcs == {"idle", "wait", "limited", "next", "load", "mdns", "mdn_send", "returned", "error"} \cup InHand

Job == [msg : Msgs, part : Parts, retries : Nat]
Hand == [id : Ids \cup {None}, msg : Msgs, part : Parts]

ASSUME NoneAssumption == None \notin Job /\ None \notin Hand /\ None \notin Receipts

(* Types, and every task at work has its row at hand. *)
TypeOK ==
    /\ state \in [Msgs -> States]
    /\ prep \subseteq Msgs /\ trashing \subseteq Msgs /\ synced \subseteq Msgs /\ inbox \subseteq Msgs
    /\ job \in [Ids -> Job \cup {None}]
    /\ nextId \in 1..(MaxJobs + 1)
    /\ pc \in [Tasks -> Pcs]
    /\ todo \in [Senders -> SUBSET Ids]
    /\ cur \in [Tasks -> Hand \cup {None}]
    /\ \A t \in Tasks : pc[t] \in InHand => cur[t] # None
    /\ \A s \in Senders : pc[s] \in InHand \cup {"load"} => todo[s] # {}
    /\ limited \in BOOLEAN /\ woken \in BOOLEAN
    /\ used \in 0..Quota
    /\ mdn \in [Receipts -> -1..(RetryLimit + 1)]
    /\ report \subseteq Receipts /\ first \in Receipts \cup {None}
    /\ pc[Loop] = "mdn_send" => first # None
    /\ asked \subseteq Receipts /\ acked \subseteq Receipts /\ gaveUp \subseteq Receipts
    /\ accepted \in [Msgs -> [Parts -> Nat]]
    /\ faults \in 0..MaxFaults

Rows == {i \in Ids : job[i] # None}
JobsOf(m) == {i \in Rows : job[i].msg = m}
Smallest(S) == CHOOSE i \in S : \A j \in S : i <= j

(* Another event of the given kind may happen. *)
Fault(kind) == kind \in Events /\ faults < MaxFaults /\ faults' = faults + 1

-----------------------------------------------------------------------------
(* The message states. *)

(* MsgId::set_delivered *)
SetDelivered(m) ==
    state' = [state EXCEPT ![m] = IF @ = "OutPending" THEN "OutDelivered" ELSE @]

(* set_msg_failed: whatever state was loaded before, OutFailed is written;    *)
(* a message in the trash is not loaded.                                      *)
SetFailed(m) ==
    state' = [state EXCEPT ![m] = IF @ = "gone" THEN @ ELSE "OutFailed"]

-----------------------------------------------------------------------------
(* The user. *)

(* prepare_send_msg: the message is in the database and pending; its jobs follow. *)
SendMsg(m) ==
    /\ state[m] = "none"
    /\ state' = [state EXCEPT ![m] = "OutPending"]
    /\ prep' = prep \cup {m}
    /\ UNCHANGED <<trashing, job, nextId, accepted, mdnVars, loopVars, inbox, faults>>

(* resend_msgs: the state is set before the new jobs exist. *)
Resend(m) ==
    /\ Fault("resend")
    /\ state[m] \in {"OutPending", "OutFailed", "OutDelivered"} /\ m \notin prep
    /\ state' = [state EXCEPT ![m] = "OutPending"]
    /\ prep' = prep \cup {m}
    /\ UNCHANGED <<trashing, job, nextId, accepted, mdnVars, loopVars, inbox>>

(* The transaction of create_send_msg_jobs: a row for every part. *)
InsertJobs(m) ==
    /\ m \in prep \ Recipientless
    /\ prep' = prep \ {m}
    /\ job' = [i \in Ids |-> IF i \in nextId..(nextId + NParts - 1)
                             THEN [msg |-> m, part |-> i - nextId + 1, retries |-> 0]
                             ELSE job[i]]
    /\ nextId' = nextId + NParts
    /\ UNCHANGED <<state, trashing, accepted>>

(* send_msg then interrupts the SMTP loop. *)
CreateJobs(m) ==
    /\ InsertJobs(m)
    /\ woken' = TRUE
    /\ UNCHANGED <<mdnVars, pc, todo, cur, limited, synced, used, inbox, faults>>

(* A message without recipients needs no job. *)
NothingToSend(m) ==
    /\ m \in prep \cap Recipientless
    /\ prep' = prep \ {m}
    /\ SetDelivered(m)
    /\ UNCHANGED <<trashing, job, nextId, accepted, mdnVars, loopVars, inbox, faults>>

(* The message cannot be rendered or encrypted. *)
CannotRender(m) ==
    /\ m \in prep
    /\ prep' = prep \ {m}
    /\ SetFailed(m)
    /\ UNCHANGED <<trashing, job, nextId, accepted, mdnVars, loopVars, inbox, faults>>

(* delete_msgs_ex: the jobs go first, the message follows. *)
DeleteMsg(m) ==
    /\ Fault("delete")
    /\ state[m] \in {"OutPending", "OutDelivered", "OutFailed"} /\ m \notin trashing
    /\ job' = [i \in Ids |-> IF i \in JobsOf(m) THEN None ELSE job[i]]
    /\ trashing' = trashing \cup {m}
    /\ woken' = TRUE
    /\ UNCHANGED <<state, prep, nextId, accepted, mdnVars, pc, todo, cur, limited, synced, used, inbox>>

Trash(m) ==
    /\ m \in trashing
    /\ trashing' = trashing \ {m}
    /\ state' = [state EXCEPT ![m] = "gone"]
    /\ UNCHANGED <<prep, job, nextId, accepted, mdnVars, loopVars, inbox, faults>>

(* send_msg_sync sends the rows itself and does not interrupt the loop.  The  *)
(* row ids it gets are the results of Statement::execute, the number of rows  *)
(* inserted: always 1.                                                        *)
RowIds(m) == {1}
SendMsgSync(m) ==
    /\ SyncSender /\ pc[Sync] \in {"idle", "returned", "error"}
    /\ InsertJobs(m)
    /\ synced' = {m}
    /\ todo' = [todo EXCEPT ![Sync] = RowIds(m)]
    /\ pc' = [pc EXCEPT ![Sync] = "next"]
    /\ UNCHANGED <<mdnVars, cur, limited, woken, used, inbox, faults>>

(* markseen_msgs queues a receipt, once per message. *)
QueueReceipt(x) ==
    /\ x \notin asked
    /\ asked' = asked \cup {x}
    /\ mdn' = [mdn EXCEPT ![x] = 0]
    /\ woken' = TRUE
    /\ UNCHANGED <<msgVars, report, first, acked, gaveUp, pc, todo, cur, limited, synced, used, inbox, faults>>

(* Config::ConfiguredAddr: the queue cannot be sent from the new address. *)
SwitchTransport ==
    /\ Fault("switch")
    /\ job' = [i \in Ids |-> None]
    /\ UNCHANGED <<state, prep, trashing, nextId, accepted, mdnVars, loopVars, inbox>>

-----------------------------------------------------------------------------
(* A sender works off its rows: send_msg_to_smtp. *)

Goto(t, l) == pc' = [pc EXCEPT ![t] = l]
Row(s) == Smallest(todo[s])
NextRow(s) == /\ todo' = [todo EXCEPT ![s] = todo[s] \ {Row(s)}]
              /\ Goto(s, "next")

(* An error ends the pass; the loop then waits for the timeout or an          *)
(* interrupt and starts over.                                                 *)
Abort(s) == /\ todo' = [todo EXCEPT ![s] = {}]
            /\ Goto(s, IF s = Loop THEN "wait" ELSE "error")

can_send == used + 1 <= Quota
Begin == /\ todo' = [todo EXCEPT ![Loop] = Rows]
         /\ limited' = ~can_send
         /\ Goto(Loop, "next")

(* The loop calls send_smtp_messages after an interrupt or the timeout. *)
StartPass ==
    /\ pc[Loop] = "wait" \/ (pc[Loop] = "idle" /\ woken)
    /\ Begin
    /\ woken' = FALSE
    /\ UNCHANGED <<msgVars, mdnVars, cur, synced, used, inbox, faults>>

(* It was rate limited, slept, and calls it again. *)
LimitPassed ==
    /\ pc[Loop] = "limited" /\ can_send
    /\ Begin
    /\ UNCHANGED <<msgVars, mdnVars, cur, woken, synced, used, inbox, faults>>

(* send_smtp_messages returns Ok: the loop sleeps if it is rate limited now. *)
Finish == Goto(Loop, IF can_send THEN "idle" ELSE "limited")

EndPass(s) ==
    /\ pc[s] = "next" /\ todo[s] = {}
    /\ CASE s = Sync -> Goto(s, "returned")
         [] s = Loop /\ limited -> Finish
         [] s = Loop /\ ~limited -> Goto(s, "mdns")
    /\ UNCHANGED <<msgVars, mdnVars, todo, cur, limited, woken, synced, used, inbox, faults>>

ConnectFails(s) ==
    /\ pc[s] = "next" /\ todo[s] # {}
    /\ Abort(s)
    /\ UNCHANGED <<msgVars, mdnVars, cur, limited, woken, synced, used, inbox, faults>>

(* Connected: the try counts before anything else can go wrong.  Mutant: it   *)
(* does not count.                                                            *)
NotCounted(i) == job' = job
Counted(i) == job' = IF job[i] = None THEN job ELSE [job EXCEPT ![i].retries = @ + 1]

Connect(s) ==
    /\ pc[s] = "next" /\ todo[s] # {}
    /\ Counted(Row(s))
    /\ Goto(s, "load")
    /\ UNCHANGED <<state, prep, trashing, nextId, accepted, mdnVars, todo, cur, limited, woken, synced, used, inbox, faults>>

(* The row may be gone by now. *)
Skip(s) ==
    /\ pc[s] = "load" /\ job[Row(s)] = None
    /\ NextRow(s)
    /\ UNCHANGED <<msgVars, mdnVars, cur, limited, woken, synced, used, inbox, faults>>

(* It may have been tried too often: it is deleted and then marked as failed. *)
Exhausted(i) == job[i].retries > RetryLimit
LoadedRow(s) == [id |-> Row(s), msg |-> job[Row(s)].msg, part |-> job[Row(s)].part]
Load(s) ==
    /\ pc[s] = "load" /\ job[Row(s)] # None
    /\ cur' = [cur EXCEPT ![s] = LoadedRow(s)]
    /\ IF Exhausted(Row(s))
       THEN job' = [job EXCEPT ![Row(s)] = None] /\ Goto(s, "expired")
       ELSE job' = job /\ Goto(s, "transmit")
    /\ UNCHANGED <<state, prep, trashing, nextId, accepted, mdnVars, todo, limited, woken, synced, used, inbox, faults>>

Expire(s) ==
    /\ pc[s] = "expired"
    /\ SetFailed(cur[s].msg)
    /\ NextRow(s)
    /\ UNCHANGED <<prep, trashing, job, nextId, accepted, mdnVars, cur, limited, woken, synced, used, inbox, faults>>

(* Ratelimit::send, unless the connection could not even be opened. *)
CountSent == used' = IF used < Quota THEN used + 1 ELSE Quota
MayCount == CountSent \/ used' = used

(* The server takes the part. *)
Take(s) ==
    /\ accepted' = [accepted EXCEPT ![cur[s].msg][cur[s].part] = @ + 1]
    /\ inbox' = IF cur[s].part = SelfPart THEN inbox \cup {cur[s].msg} ELSE inbox

Accept(s) ==
    /\ pc[s] = "transmit"
    /\ Take(s) /\ CountSent
    /\ Goto(s, "ok")
    /\ UNCHANGED <<state, prep, trashing, job, nextId, mdnVars, todo, cur, limited, woken, synced, faults>>

(* The connection breaks before the answer arrives: SendResult::Retry. *)
AcceptUnheard(s) ==
    /\ pc[s] = "transmit" /\ Fault("lost_ok")
    /\ Take(s) /\ CountSent
    /\ Abort(s)
    /\ UNCHANGED <<state, prep, trashing, job, nextId, mdnVars, cur, limited, woken, synced>>

(* A transient error, or a permanent one that is taken for transient. *)
Refuse(s) ==
    /\ pc[s] = "transmit"
    /\ MayCount
    /\ Abort(s)
    /\ UNCHANGED <<msgVars, mdnVars, cur, limited, woken, synced, inbox, faults>>

(* A permanent error; smtp_send marks the message before the row is deleted. *)
Reject(s) ==
    /\ pc[s] = "transmit"
    /\ CountSent
    /\ Goto(s, "rejected")
    /\ UNCHANGED <<msgVars, mdnVars, todo, cur, limited, woken, synced, inbox, faults>>

MarkFailed(s) ==
    /\ pc[s] = "rejected"
    /\ SetFailed(cur[s].msg)
    /\ Goto(s, "drop")
    /\ UNCHANGED <<prep, trashing, job, nextId, accepted, mdnVars, todo, cur, limited, woken, synced, used, inbox, faults>>

DropRow(s) ==
    /\ pc[s] = "drop"
    /\ job' = [job EXCEPT ![cur[s].id] = None]
    /\ Abort(s)
    /\ UNCHANGED <<state, prep, trashing, nextId, accepted, mdnVars, cur, limited, woken, synced, used, inbox, faults>>

(* Success: the row goes first.  Mutant: it stays. *)
RowStays(i) == job
RowDeleted(i) == [job EXCEPT ![i] = None]
DeleteSent(s) ==
    /\ pc[s] = "ok"
    /\ job' = RowDeleted(cur[s].id)
    /\ Goto(s, "check")
    /\ UNCHANGED <<state, prep, trashing, nextId, accepted, mdnVars, todo, cur, limited, woken, synced, used, inbox, faults>>

-----------------------------------------------------------------------------
(* The IMAP loop sees an own copy: the job that sent it is done. *)
ReceiveCopy(m) ==
    /\ pc[Imap] = "idle" /\ m \in inbox
    /\ job' = [i \in Ids |-> IF i \in JobsOf(m) /\ job[i].part = SelfPart THEN None ELSE job[i]]
    /\ cur' = [cur EXCEPT ![Imap] = [id |-> None, msg |-> m, part |-> SelfPart]]
    /\ Goto(Imap, "check")
    /\ UNCHANGED <<state, prep, trashing, nextId, accepted, mdnVars, todo, limited, woken, synced, used, inbox, faults>>

(* Both the senders and the IMAP loop ask whether this was the last part. *)
Return(t) ==
    IF t = Imap
    THEN Goto(t, "idle") /\ inbox' = inbox \ {cur[t].msg} /\ UNCHANGED todo
    ELSE NextRow(t) /\ UNCHANGED inbox

(* msg_has_pending_smtp_job.  Mutants: the other parts are not looked at; the *)
(* parts of other messages are looked at, too.                                *)
NeverPending(m) == FALSE
AnyPending(m) == Rows # {}
HasPending(m) == JobsOf(m) # {}

CheckPending(t) ==
    /\ pc[t] = "check"
    /\ IF HasPending(cur[t].msg) THEN Return(t)
       ELSE Goto(t, "deliver") /\ UNCHANGED <<todo, inbox>>
    /\ UNCHANGED <<msgVars, mdnVars, cur, limited, woken, synced, used, faults>>

Deliver(t) ==
    /\ pc[t] = "deliver"
    /\ SetDelivered(cur[t].msg)
    /\ Return(t)
    /\ UNCHANGED <<prep, trashing, job, nextId, accepted, mdnVars, cur, limited, woken, synced, used, faults>>

-----------------------------------------------------------------------------
(* After its rows the loop sends read receipts: send_mdns. *)

queued == {x \in Receipts : mdn[x] >= 0}
Live == {x \in queued : mdn[x] <= RetryLimit}
Dropped(S) == /\ gaveUp' = gaveUp \cup S
              /\ mdn' = [x \in Receipts |-> IF x \in S THEN -1 ELSE mdn[x]]

MdnsLimited ==
    /\ pc[Loop] = "mdns" /\ ~can_send
    /\ Finish
    /\ UNCHANGED <<msgVars, mdnVars, todo, cur, limited, woken, synced, used, inbox, faults>>

(* The user has turned receipts off: all are dropped. *)
MdnsOff ==
    /\ pc[Loop] = "mdns" /\ can_send
    /\ Dropped(queued)
    /\ Finish
    /\ UNCHANGED <<msgVars, report, first, asked, acked, todo, cur, limited, woken, synced, used, inbox, faults>>

(* The receipts that were tried too often are dropped, and none is left. *)
MdnsDone ==
    /\ pc[Loop] = "mdns" /\ can_send /\ Live = {}
    /\ Dropped(queued)
    /\ Finish
    /\ UNCHANGED <<msgVars, report, first, asked, acked, todo, cur, limited, woken, synced, used, inbox, faults>>

(* send_mdn: one that was tried least is taken, and with it all others for    *)
(* the same contact.                                                          *)
PickReceipt(x) ==
    /\ pc[Loop] = "mdns" /\ can_send
    /\ x \in Live /\ \A y \in Live : mdn[x] <= mdn[y]
    /\ gaveUp' = gaveUp \cup (queued \ Live)
    /\ mdn' = [y \in Receipts |-> IF y \in queued \ Live THEN -1
                                  ELSE IF y = x THEN mdn[y] + 1 ELSE mdn[y]]
    /\ first' = x
    /\ report' = {y \in Live : Contact[y] = Contact[x]}
    /\ Goto(Loop, "mdn_send")
    /\ UNCHANGED <<msgVars, asked, acked, todo, cur, limited, woken, synced, used, inbox, faults>>

(* The receipts to delete.  Mutant: whatever is queued for the contact by now. *)
AllOfContact == {y \in queued : Contact[y] = Contact[first]}
Reported == report

ReportAccepted ==
    /\ pc[Loop] = "mdn_send"
    /\ CountSent
    /\ acked' = acked \cup report
    /\ mdn' = [y \in Receipts |-> IF y \in Reported THEN -1 ELSE mdn[y]]
    /\ Goto(Loop, "mdns")
    /\ UNCHANGED <<msgVars, report, first, asked, gaveUp, todo, cur, limited, woken, synced, inbox, faults>>

(* No connection or a transient error ends the pass. *)
ReportRefused ==
    /\ pc[Loop] = "mdn_send"
    /\ MayCount
    /\ Abort(Loop)
    /\ UNCHANGED <<msgVars, mdnVars, cur, limited, woken, synced, inbox, faults>>

(* A blocked contact, an invalid row or a permanent error. *)
ReportFails ==
    /\ pc[Loop] = "mdn_send"
    /\ MayCount
    /\ Dropped({first})
    /\ Abort(Loop)
    /\ UNCHANGED <<msgVars, report, first, asked, acked, cur, limited, woken, synced, inbox, faults>>

-----------------------------------------------------------------------------
(* The rate limiter's value decays with time. *)
Decay ==
    /\ used > 0 /\ used' = used - 1
    /\ UNCHANGED <<msgVars, mdnVars, pc, todo, cur, limited, woken, synced, inbox, faults>>

(* The process ends and is started again; only the database is left. *)
Crash ==
    /\ Fault("crash")
    /\ prep' = {} /\ trashing' = {} /\ synced' = {}
    /\ pc' = [t \in Tasks |-> IF t = Loop THEN "wait" ELSE "idle"]
    /\ todo' = [s \in Senders |-> {}]
    /\ limited' = FALSE /\ woken' = FALSE /\ used' = 0
    /\ UNCHANGED <<state, job, nextId, accepted, mdnVars, cur, inbox>>

Init ==
    /\ state = [m \in Msgs |-> "none"]
    /\ prep = {} /\ trashing = {} /\ synced = {} /\ inbox = {}
    /\ job = [i \in Ids |-> None] /\ nextId = 1
    /\ pc = [t \in Tasks |-> IF t = Loop THEN "wait" ELSE "idle"]
    /\ todo = [s \in Senders |-> {}]
    /\ cur = [t \in Tasks |-> None]
    /\ limited = FALSE /\ woken = FALSE /\ used = 0
    /\ mdn = [x \in Receipts |-> -1]
    /\ report = {} /\ first = None
    /\ asked = {} /\ acked = {} /\ gaveUp = {}
    /\ accepted = [m \in Msgs |-> [p \in Parts |-> 0]]
    /\ faults = 0

UserStep(m) ==
    \/ SendMsg(m) \/ CreateJobs(m) \/ NothingToSend(m) \/ CannotRender(m)
    \/ DeleteMsg(m) \/ Trash(m)

SendStep(s) ==
    \/ EndPass(s) \/ Skip(s) \/ Load(s) \/ Expire(s)
    \/ Accept(s) \/ Refuse(s) \/ Reject(s) \/ MarkFailed(s) \/ DropRow(s) \/ DeleteSent(s)

FinishStep(t) == CheckPending(t) \/ Deliver(t)

ReceiptStep ==
    \/ MdnsLimited \/ MdnsOff \/ MdnsDone
    \/ \E x \in Receipts : PickReceipt(x)
    \/ ReportAccepted \/ ReportRefused \/ ReportFails

Next ==
    \/ \E m \in Msgs : UserStep(m) \/ Resend(m) \/ SendMsgSync(m) \/ ReceiveCopy(m)
    \/ \E x \in Receipts : QueueReceipt(x)
    \/ \E s \in Senders : Connect(s) \/ ConnectFails(s) \/ SendStep(s) \/ AcceptUnheard(s)
    \/ \E t \in Tasks : FinishStep(t)
    \/ StartPass \/ LimitPassed \/ ReceiptStep
    \/ SwitchTransport \/ Decay \/ Crash

Spec == Init /\ [][Next]_vars

(* What was begun is finished, the tasks run, a server can be reached again   *)
(* and again, and the rate limiter's value decays.                            *)
Fairness ==
    /\ WF_vars(\E m \in Msgs : CreateJobs(m) \/ NothingToSend(m) \/ CannotRender(m) \/ Trash(m))
    /\ WF_vars(SendStep(Loop) \/ FinishStep(Loop) \/ ReceiptStep \/ ConnectFails(Loop))
    /\ SF_vars(Connect(Loop))
    /\ WF_vars(StartPass \/ LimitPassed)
    /\ WF_vars(Decay)
    /\ WF_vars(FinishStep(Imap))
FairSpec == Spec /\ Fairness

-----------------------------------------------------------------------------
(* Properties. *)

(* The checkmark of a message means that the server took every part of it:    *)
(* neither a pass that ends early, nor the own copy on IMAP, nor a row that   *)
(* was given up makes a partly sent message look delivered, unless the        *)
(* failure is about to be recorded or the message is being deleted.           *)
AboutToFail(m) == \E s \in Senders : pc[s] = "expired" /\ cur[s].msg = m
DeliveredMeansAccepted ==
    \A m \in Msgs \ (Recipientless \cup trashing) :
        state[m] = "OutDelivered" /\ ~AboutToFail(m) => \A p \in Parts : accepted[m][p] >= 1

(* A message shown as pending really is on its way: its jobs are being        *)
(* created, are queued, or a task is about to record what became of the last  *)
(* one (or it is being deleted).                                              *)
PendingIsQueued ==
    \A m \in Msgs : state[m] = "OutPending" =>
        \/ m \in prep \cup trashing
        \/ JobsOf(m) # {}
        \/ \E t \in Tasks : pc[t] \in {"expired", "check", "deliver"} /\ cur[t].msg = m

(* A part is taken by the server once, and once more for every answer that    *)
(* was lost, every crash and every resend.                                    *)
NoDuplicates == \A m \in Msgs, p \in Parts : accepted[m][p] <= 1 + faults

(* A receipt that was queued is queued still, was taken by the server or was  *)
(* given up: one that arrives while a report for the same contact is on its   *)
(* way is not deleted with it.                                                *)
NoReceiptLost == asked \subseteq queued \cup acked \cup gaveUp

(* No message stays pending: it is delivered, fails or is deleted. *)
Settles == \A m \in Msgs : state[m] = "OutPending" ~> state[m] # "OutPending"

(* No receipt stays queued.  Does not hold, see the README: a pass that begins *)
(* rate limited skips the receipts and need not be repeated.                   *)
ReceiptsSettle == \A x \in Receipts : x \in queued ~> x \notin queued

(* When send_msg_sync returns, its message was sent (or failed, or is gone). *)
SyncSends ==
    pc[Sync] = "returned" =>
        \A m \in synced : state[m] = "OutPending" => \A p \in Parts : accepted[m][p] >= 1
=============================================================================

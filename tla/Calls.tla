-------------------------------- MODULE Calls --------------------------------
(***************************************************************************)
(* One call as the devices of the two sides see it (src/calls.rs): placing,*)
(* accepting and ending it, the ringing timeout each device runs on its    *)
(* own, and the "call accepted" and "call ended" messages.  A message goes *)
(* to the mailbox of either user; all devices of a user read it in order.  *)
(* The state of a call is in the parameters of its message.  A handler     *)
(* loads the message, decides, and later writes all parameters back.       *)
(* Texts, notifications and who may ring are left out.                     *)
(***************************************************************************)
EXTENDS Integers, Sequences, FiniteSets

CONSTANTS Callers, Callees,   \* devices of the one who calls and of the one who is called
          Placer,             \* the calling device
          Overlap,            \* whether handlers of one device overlap
          MaxActions          \* user actions in all

VARIABLES call,     \* call[d]: the call message on device d
          timer,    \* timer[d]: emit_end_call_if_unaccepted is scheduled
          busy,     \* busy[d][h]: the copy a handler h has loaded and what it will do
          mail,     \* mail[s][u]: messages of device s on their way to u's mailbox
          box,      \* box[u]: the mailbox of the caller and of the callee
          read,     \* read[d]: how many messages of its mailbox d has processed
          late,     \* the ringing time is over
          acted,    \* user actions so far
          hungUp    \* ghost: some user ended the call

vars == <<call, timer, busy, mail, box, read, late, acted, hungUp>>

Handset == Callers \cup Callees   \* devices of both sides
Handlers == {"api", "timer", "receive"}
Incoming(d) == d \in Callees
SameUser(d, e) == Incoming(d) = Incoming(e)
Users == {"caller", "callee"}
User(d) == IF Incoming(d) THEN "callee" ELSE "caller"

Unknown == [known |-> FALSE, accepted |-> FALSE, ended |-> FALSE, canceled |-> FALSE]
Fresh   == [Unknown EXCEPT !.known = TRUE]
Free    == [does |-> "nothing", copy |-> Unknown]

TypeOK ==
    /\ call \in [Handset -> [known : BOOLEAN, accepted : BOOLEAN, ended : BOOLEAN, canceled : BOOLEAN]]
    /\ timer \in [Handset -> BOOLEAN]
    /\ \A d \in Handset, h \in Handlers :
         busy[d][h].does \in {"nothing", "accept", "end", "decline", "cancel"}
    /\ mail \in [Handset -> [Users -> Seq({"call", "accepted", "ended"})]]
    /\ box \in [Users -> Seq([from : Handset, what : {"call", "accepted", "ended"}])]
    /\ \A d \in Handset : read[d] \in 0 .. Len(box[User(d)])
    /\ late \in BOOLEAN /\ hungUp \in BOOLEAN
    /\ acted \in 0 .. MaxActions

\* place_outgoing_call has stored and sent the call.
Init ==
    /\ call = [d \in Handset |-> IF d = Placer THEN Fresh ELSE Unknown]
    /\ timer = [d \in Handset |-> d = Placer]
    /\ busy = [d \in Handset |-> [h \in Handlers |-> Free]]
    /\ mail = [s \in Handset |-> [u \in Users |-> IF s = Placer THEN <<"call">> ELSE <<>>]]
    /\ box = [u \in Users |-> <<>>] /\ read = [d \in Handset |-> 0]
    /\ late = FALSE /\ acted = 0 /\ hungUp = FALSE

Sent(s, m) == [mail EXCEPT ![s] = [u \in Users |-> Append(@[u], m)]]
MayLoad(d, h) ==
    /\ busy[d][h] = Free
    /\ Overlap \/ \A g \in Handlers : busy[d][g] = Free
Loads(d, h, what) == busy' = [busy EXCEPT ![d][h] = [does |-> what, copy |-> call[d]]]

\* mark_as_accepted, mark_as_ended and mark_as_canceled on the loaded copy.
Marked(b) ==
    [b.copy EXCEPT !.accepted = @ \/ b.does = "accept",
                   !.ended    = @ \/ b.does # "accept",
                   !.canceled = @ \/ b.does = "cancel"]

Writes(d, h) ==
    /\ call' = [call EXCEPT ![d] = Marked(busy[d][h])]
    /\ busy' = [busy EXCEPT ![d][h] = Free]

Deliver(s, u) ==
    /\ mail[s][u] # <<>>
    /\ mail' = [mail EXCEPT ![s][u] = Tail(@)]
    /\ box' = [box EXCEPT ![u] = Append(@, [from |-> s, what |-> Head(mail[s][u])])]
    /\ UNCHANGED <<call, timer, busy, read, late, acted, hungUp>>

----------------------------------------------------------------------------
accept_incoming_call(d) ==
    /\ Incoming(d) /\ call[d].known /\ acted < MaxActions /\ MayLoad(d, "api")
    /\ ~call[d].accepted /\ ~call[d].ended
    /\ Loads(d, "api", "accept")
    /\ acted' = acted + 1
    /\ UNCHANGED <<call, timer, mail, box, read, late, hungUp>>

\* What ending means: hanging up, declining, or cancelling one's own call.
EndOf(d, byOwner) ==
    IF call[d].accepted THEN "end"
    ELSE IF Incoming(d) = byOwner THEN "decline" ELSE "cancel"

end_call(d) ==
    /\ call[d].known /\ acted < MaxActions /\ MayLoad(d, "api")
    /\ ~call[d].ended
    /\ Loads(d, "api", EndOf(d, TRUE))
    /\ acted' = acted + 1
    /\ UNCHANGED <<call, timer, mail, box, read, late, hungUp>>

\* The API call writes the parameters and sends its message.
Announce(d) ==
    /\ busy[d]["api"] # Free
    /\ Writes(d, "api")
    /\ LET accepts == busy[d]["api"].does = "accept"
       IN /\ mail' = Sent(d, IF accepts THEN "accepted" ELSE "ended")
          /\ hungUp' = (hungUp \/ ~accepts)
    /\ UNCHANGED <<timer, box, read, late, acted>>

RingingEnds == ~late /\ late' = TRUE /\ UNCHANGED <<call, timer, busy, mail, box, read, acted, hungUp>>

\* emit_end_call_if_unaccepted, which tells no other device.
TimerLoads(d) ==
    /\ timer[d] /\ late /\ MayLoad(d, "timer")
    /\ timer' = [timer EXCEPT ![d] = FALSE]
    /\ IF ~call[d].accepted /\ ~call[d].ended
       THEN Loads(d, "timer", IF Incoming(d) THEN "cancel" ELSE "end")
       ELSE UNCHANGED busy
    /\ UNCHANGED <<call, mail, box, read, late, acted, hungUp>>

TimerWrites(d) ==
    /\ busy[d]["timer"] # Free /\ Writes(d, "timer")
    /\ UNCHANGED <<timer, mail, box, read, late, acted, hungUp>>

\* A plausible bug: only the side that is called minds the end.
EndedRelevantIncoming(d) == call[d].known /\ ~call[d].ended /\ Incoming(d)

\* handle_call_msg.  A message about a call that is not there is dropped.
EndedRelevant(d) == call[d].known /\ ~call[d].ended

Receive(d) ==
    /\ read[d] < Len(box[User(d)]) /\ MayLoad(d, "receive")
    /\ read' = [read EXCEPT ![d] = @ + 1]
    /\ LET m == box[User(d)][read[d] + 1]
       IN \/ m.from = d /\ UNCHANGED <<call, timer, busy>>
          \/ /\ m.from # d /\ m.what = "call"
             /\ call' = [call EXCEPT ![d] = Fresh]
             /\ timer' = [timer EXCEPT ![d] = Incoming(d) /\ ~late]
             /\ UNCHANGED busy
          \/ /\ m.from # d /\ m.what = "accepted"
             /\ IF call[d].known /\ ~call[d].ended /\ ~call[d].accepted
                THEN Loads(d, "receive", "accept") ELSE UNCHANGED busy
             /\ UNCHANGED <<call, timer>>
          \/ /\ m.from # d /\ m.what = "ended"
             /\ IF EndedRelevant(d)
                THEN Loads(d, "receive", EndOf(d, SameUser(m.from, d))) ELSE UNCHANGED busy
             /\ UNCHANGED <<call, timer>>
    /\ UNCHANGED <<mail, box, late, acted, hungUp>>

ReceiveWrites(d) ==
    /\ busy[d]["receive"] # Free /\ Writes(d, "receive")
    /\ UNCHANGED <<timer, mail, box, read, late, acted, hungUp>>

Next ==
    \/ \E d \in Handset :
         \/ accept_incoming_call(d) \/ end_call(d) \/ Announce(d)
         \/ TimerLoads(d) \/ TimerWrites(d) \/ ReceiveWrites(d)
         \/ Receive(d)
         \/ \E u \in Users : Deliver(d, u)
    \/ RingingEnds

Spec == Init /\ [][Next]_vars

----------------------------------------------------------------------------
\* call_state, as the message bubble shows it.
CallState(d) ==
    LET c == call[d] IN
    IF c.accepted THEN (IF c.ended THEN "Completed" ELSE "Active")
    ELSE IF c.canceled THEN (IF Incoming(d) THEN "Missed" ELSE "Canceled")
    ELSE IF c.ended THEN "Declined"
    ELSE IF late THEN (IF Incoming(d) THEN "Missed" ELSE "Declined")
    ELSE "Alerting"

Settled ==
    /\ \A d \in Handset : /\ \A u \in Users : mail[d][u] = <<>>
                         /\ read[d] = Len(box[User(d)])
    /\ \A d \in Handset, h \in Handlers : busy[d][h] = Free

\* When a user has ended the call and all messages have arrived, the call is
\* over on every device, whoever accepted, declined or cancelled it meanwhile.
HangUpReachesAll ==
    Settled /\ hungUp =>
        \A d \in Handset : call[d].known => CallState(d) \notin {"Active", "Alerting"}
=============================================================================

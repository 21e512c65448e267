-------------------------- MODULE EphemeralSetting --------------------------
(***************************************************************************)
(* The disappearing-messages setting of a chat: each member keeps its own  *)
(* copy and takes over the value of the messages it receives, unless that  *)
(* would undo a newer change (set_ephemeral_timer of src/ephemeral.rs, the *)
(* timer part of add_parts in src/receive_imf.rs, update_timestamp of      *)
(* src/update_helper.rs).                                                  *)
(***************************************************************************)
EXTENDS Naturals, Sequences

CONSTANTS Members,   \* the members of the chat, each with one device
          Timers,    \* timer values, 0 is Disabled
          MaxSent,   \* bound on the messages
          Crossing   \* messages may be written while others are under way

VARIABLES timer,     \* timer[p]: chats.ephemeral_timer on p
          stamp,     \* stamp[p]: EphemeralSettingsTimestamp on p
          sent,      \* all messages; the position is the time of sending
          seen,      \* seen[p]: messages in the database of p
          last       \* last[p]: the latest message in the chat of p, 0 if none

vars == <<timer, stamp, sent, seen, last>>

Init == /\ timer = [p \in Members |-> 0] /\ stamp = [p \in Members |-> 0]
        /\ sent = << >> /\ seen = [p \in Members |-> {}] /\ last = [p \in Members |-> 0]

Underway == \E p \in Members : seen[p] # DOMAIN sent

\* send_msg: the header has the timer of the chat, the row of a change of the timer has none;
\* References ends with the latest message.
Write(p, t, change) ==
  /\ Len(sent) < MaxSent /\ (Underway => Crossing)
  /\ sent' = Append(sent, [by |-> p, timer |-> t, change |-> change, prev |-> last[p]])
  /\ seen' = [seen EXCEPT ![p] = @ \union {Len(sent) + 1}]
  /\ last' = [last EXCEPT ![p] = Len(sent) + 1]

\* set_ephemeral_timer
SetTimer(p, t) ==
  /\ t # timer[p]
  /\ Write(p, t, TRUE)
  /\ timer' = [timer EXCEPT ![p] = t]
  /\ UNCHANGED stamp

Send(p) == Write(p, timer[p], FALSE) /\ UNCHANGED <<timer, stamp>>

\* The ephemeral_timer column of a message: a change of the timer does not disappear itself.
RowTimer(i) == IF sent[i].change THEN 0 ELSE sent[i].timer

\* A plausible bug: a change is taken for a message of somebody who missed one.
UnawareEvenChange(p, m) == m.prev \in seen[p] /\ RowTimer(m.prev) = m.timer

\* get_previous_message(..).ephemeral_timer == Some(ephemeral_timer), and no change
Unaware(p, m) == /\ m.prev \in seen[p] /\ RowTimer(m.prev) = m.timer
                 /\ ~m.change

\* The timer part of add_parts
Applies(p, i) == LET m == sent[i]
                 IN timer[p] # m.timer /\ ~Unaware(p, m) /\ i >= stamp[p]

Receive(p, i) ==
  /\ i \in DOMAIN sent \ seen[p]
  /\ seen' = [seen EXCEPT ![p] = @ \union {i}]
  /\ last' = [last EXCEPT ![p] = IF i > @ THEN i ELSE @]
  /\ IF Applies(p, i) THEN /\ timer' = [timer EXCEPT ![p] = sent[i].timer]
                           /\ stamp' = [stamp EXCEPT ![p] = i]
                      ELSE UNCHANGED <<timer, stamp>>
  /\ UNCHANGED sent

Next == \E p \in Members : \/ \E t \in Timers : SetTimer(p, t)
                           \/ Send(p)
                           \/ \E i \in DOMAIN sent : Receive(p, i)

Spec == Init /\ [][Next]_vars

----------------------------------------------------------------------------
(* "This way the setting is eventually synchronized among all              *)
(* participants" (src/ephemeral.rs): when every message has reached every  *)
(* member, all have the same timer.                                        *)
TimersAgree == ~Underway => \A p, q \in Members : timer[p] = timer[q]
=============================================================================

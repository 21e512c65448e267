----------------------------- MODULE Ephemeral -----------------------------
(***************************************************************************)
(* Disappearing messages on one device: when their timers start, and the   *)
(* ephemeral loop that deletes them (src/ephemeral.rs, markseen_msgs of    *)
(* src/message.rs, marknoticed_chat of src/chat.rs, add_parts of           *)
(* src/receive_imf.rs).  All messages are in one chat, which is neither    *)
(* the saved messages nor the device chat.                                 *)
(***************************************************************************)
EXTENDS Naturals, FiniteSets, FiniteSetsExt

CONSTANTS Msgs,
          Durations,    \* timers of the messages in seconds, 0 is Disabled
          DeviceAfter,  \* delete_device_after, 0 if it is not set
          Long,         \* what the loop waits when there is nothing to delete (86400)
          MaxTime       \* bound on the clock

VARIABLES clock,    \* time()
          msg,      \* msg[m]: where it is, its state, ephemeral_timer, ephemeral_timestamp, timestamp
          signal,   \* an interrupt is in the channel of the loop
          loop,     \* "off", "compute" or "wait"
          until,    \* the loop sleeps until then
          quiet,    \* history: timers set since the loop looked, without an interrupt
          read      \* history: read[m], when the timer of m was first due to run

vars == <<clock, msg, signal, loop, until, quiet, read>>

NoMsg == [place |-> "none", fresh |-> FALSE, timer |-> 0, at |-> 0, stamp |-> 0]
InChat(m) == msg[m].place = "chat"

Init == /\ clock = 1 /\ msg = [m \in Msgs |-> NoMsg]
        /\ signal = FALSE /\ loop = "off" /\ until = 0
        /\ quiet = {} /\ read = [m \in Msgs |-> 0]

\* A plausible bug: the loop is not told.
NoInterrupt == UNCHANGED signal

\* interrupt_ephemeral_task: try_send into a channel of one place while IO is started
Interrupt == signal' = (signal \/ loop # "off")

\* add_parts: a fresh message has its timer not started, a message of our other device or
\* one that was seen there has.  The loop is interrupted only for delete_device_after.
Receive(m, t, isFresh) ==
  /\ msg[m].place = "none"
  /\ msg' = [msg EXCEPT ![m] = [place |-> "chat", fresh |-> isFresh, timer |-> t,
                                at |-> IF isFresh \/ t = 0 THEN 0 ELSE clock + t,
                                stamp |-> clock]]
  /\ read' = IF isFresh THEN read ELSE [read EXCEPT ![m] = clock]
  /\ IF DeviceAfter > 0 THEN Interrupt /\ UNCHANGED quiet
     ELSE UNCHANGED signal /\ quiet' = IF isFresh THEN quiet ELSE quiet \union {m}
  /\ UNCHANGED <<clock, loop, until>>

\* prepare_msg_raw
Send(m, t) ==
  /\ msg[m].place = "none"
  /\ msg' = [msg EXCEPT ![m] = [place |-> "chat", fresh |-> FALSE, timer |-> t,
                                at |-> IF t = 0 THEN 0 ELSE clock + t, stamp |-> clock]]
  /\ read' = [read EXCEPT ![m] = clock]
  /\ Interrupt
  /\ UNCHANGED <<clock, loop, until, quiet>>

\* UPDATE msgs SET ephemeral_timestamp=now+timer WHERE it is 0 or later than that
Started(r) ==
  IF r.timer > 0 /\ (r.at = 0 \/ r.at > clock + r.timer)
  THEN [r EXCEPT !.at = clock + r.timer] ELSE r

\* markseen_msgs and marknoticed_chat for the messages S, and the MDN of another device
MarkSeen(S) ==
  LET seen == {m \in S : InChat(m)}
  IN /\ seen # {}
     /\ msg' = [m \in Msgs |-> IF m \in seen THEN [Started(msg[m]) EXCEPT !.fresh = FALSE] ELSE msg[m]]
     /\ read' = [m \in Msgs |-> IF m \in seen /\ read[m] = 0 THEN clock ELSE read[m]]
     /\ IF \E m \in seen : Started(msg[m]) # msg[m] THEN Interrupt ELSE UNCHANGED signal
     /\ UNCHANGED <<clock, loop, until, quiet>>

\* The MDN of another device marked m as seen, but start_ephemeral_timer failed.
SeenWithoutTimer(m) ==
  /\ InChat(m) /\ msg[m].fresh
  /\ msg' = [msg EXCEPT ![m].fresh = FALSE]
  /\ UNCHANGED <<clock, signal, loop, until, quiet, read>>

\* start_ephemeral_timers of the housekeeping
Housekeeping ==
  LET late == {m \in Msgs : InChat(m) /\ ~msg[m].fresh /\ msg[m].timer > 0 /\ msg[m].at = 0}
  IN /\ late # {}
     /\ msg' = [m \in Msgs |-> IF m \in late THEN [msg[m] EXCEPT !.at = clock + msg[m].timer] ELSE msg[m]]
     /\ quiet' = quiet \union late
     /\ read' = [m \in Msgs |-> IF m \in late /\ read[m] = 0 THEN clock ELSE read[m]]
     /\ UNCHANGED <<clock, signal, loop, until>>

----------------------------------------------------------------------------
\* The loop.

\* next_expiration_timestamp: the earliest ephemeral_timestamp or end of delete_device_after
Expirations == {msg[m].at : m \in {n \in Msgs : InChat(n) /\ msg[n].at # 0}}
               \union {msg[m].stamp + DeviceAfter : m \in {n \in Msgs : InChat(n) /\ DeviceAfter > 0}}

StartIo == /\ loop = "off" /\ loop' = "compute" /\ signal' = FALSE
           /\ UNCHANGED <<clock, msg, until, quiet, read>>

StopIo == /\ loop # "off" /\ loop' = "off" /\ signal' = FALSE
          /\ UNCHANGED <<clock, msg, until, quiet, read>>

LoopComputes ==
  /\ loop = "compute" /\ loop' = "wait"
  /\ until' = IF Expirations = {} THEN clock + Long ELSE Min(Expirations) + 1
  /\ quiet' = {}
  /\ UNCHANGED <<clock, msg, signal, read>>

LoopInterrupted ==
  /\ loop = "wait" /\ signal /\ clock < until
  /\ signal' = FALSE /\ loop' = "compute"
  /\ UNCHANGED <<clock, msg, until, quiet, read>>

\* select_expired_messages
Expired(m) == \/ msg[m].at # 0 /\ msg[m].at <= clock
              \/ DeviceAfter > 0 /\ msg[m].stamp + DeviceAfter < clock

\* delete_expired_messages
LoopDeletes ==
  /\ loop = "wait" /\ clock >= until /\ loop' = "compute"
  /\ msg' = [m \in Msgs |-> IF InChat(m) /\ Expired(m) THEN [msg[m] EXCEPT !.place = "trash", !.at = 0]
                            ELSE msg[m]]
  /\ UNCHANGED <<clock, signal, until, quiet, read>>

\* delete_msgs
UserDeletes(m) ==
  /\ InChat(m) /\ msg' = [msg EXCEPT ![m] = NoMsg] /\ read' = [read EXCEPT ![m] = 0]
  /\ quiet' = quiet \ {m}
  /\ UNCHANGED <<clock, signal, loop, until>>

Tick == /\ clock < MaxTime /\ clock' = clock + 1
        /\ UNCHANGED <<msg, signal, loop, until, quiet, read>>

Next == \/ \E m \in Msgs, t \in Durations : \E f \in BOOLEAN : Receive(m, t, f)
        \/ \E m \in Msgs, t \in Durations : Send(m, t)
        \/ \E m \in Msgs : UserDeletes(m) \/ SeenWithoutTimer(m)
        \/ \E S \in SUBSET Msgs : MarkSeen(S)
        \/ Housekeeping \/ StartIo \/ StopIo
        \/ LoopComputes \/ LoopInterrupted \/ LoopDeletes \/ Tick

Spec == Init /\ [][Next]_vars

----------------------------------------------------------------------------
(* The loop wakes up in time: while it sleeps without a pending interrupt, *)
(* it sleeps no longer than one second past the end of any timer.  The     *)
(* exceptions are timers that were started without telling the loop: those *)
(* of messages seen on another device, and those the housekeeping starts.  *)
WakesInTime ==
  loop = "wait" /\ ~signal =>
    \A m \in Msgs \ quiet : InChat(m) /\ msg[m].at # 0 => until <= msg[m].at + 1

(* Without delete_device_after a message is deleted exactly as its timer   *)
(* says: never before it was seen for the time of its timer, and its timer *)
(* is not prolonged by seeing it again.                                    *)
TimerRespected ==
  \A m \in Msgs :
    /\ InChat(m) /\ msg[m].at # 0 => read[m] # 0 /\ msg[m].at <= read[m] + msg[m].timer
    /\ DeviceAfter = 0 /\ msg[m].place = "trash"
         => msg[m].timer > 0 /\ read[m] # 0 /\ clock >= read[m] + msg[m].timer

(* Messages disappear when they should: the loop wakes up in time, and     *)
(* deletes neither early nor late.                                         *)
DeletedInTime == WakesInTime /\ TimerRespected
=============================================================================

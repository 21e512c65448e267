------------------------------ MODULE LastSeen ------------------------------
(***************************************************************************)
(* The last_seen column of the contacts table and the loop that tells the  *)
(* UI when a contact stops being "recently seen" (update_last_seen and     *)
(* RecentlySeenLoop of src/contact.rs).                                    *)
(***************************************************************************)
EXTENDS Naturals

CONSTANTS People,   \* contacts
          Window,   \* SEEN_RECENTLY_SECONDS
          MaxTime   \* bound on the clock

VARIABLES clock,    \* time()
          seen,     \* seen[c]: contacts.last_seen
          heap,     \* unseen_queue: <<time, contact>> pairs
          chan,     \* the bounded(1) interrupt channel of the loop
          dropped,  \* history: contacts whose latest interrupt found the channel full
          running   \* the loop was started and not aborted

vars == <<clock, seen, heap, chan, dropped, running>>

Init == /\ clock = Window
        /\ seen = [c \in People |-> 0]
        /\ heap = {} /\ chan = {} /\ dropped = {} /\ running = FALSE

RecentlySeen(c) == seen[c] + Window > clock

\* update_last_seen: only a later time is written; a recent one redraws the contact and
\* interrupts the loop (try_interrupt), unless its channel is full.
UpdateLastSeen(c, t) ==
  /\ seen[c] < t /\ t <= clock
  /\ seen' = [seen EXCEPT ![c] = t]
  /\ IF t + Window > clock
     THEN IF running /\ chan = {}
          THEN chan' = {<<c, t>>} /\ dropped' = dropped \ {c}
          ELSE dropped' = dropped \union {c} /\ UNCHANGED chan
     ELSE UNCHANGED <<chan, dropped>>
  /\ UNCHANGED <<clock, heap, running>>

\* RecentlySeenLoop::new and the query at the start of run
StartLoop ==
  /\ ~running /\ running' = TRUE
  /\ heap' = {<<seen[c] + Window, c>> : c \in {d \in People : RecentlySeen(d)}}
  /\ chan' = {} /\ dropped' = {}
  /\ UNCHANGED <<clock, seen>>

\* abort: the heap and the channel go with the task.
AbortLoop == /\ running /\ running' = FALSE /\ heap' = {} /\ chan' = {}
             /\ UNCHANGED <<clock, seen, dropped>>

\* The loop receives an interrupt and queues the contact.
LoopInterrupted ==
  /\ running
  /\ \E m \in chan : heap' = heap \union {<<m[2] + Window, m[1]>>}
  /\ chan' = {}
  /\ UNCHANGED <<clock, seen, dropped, running>>

\* A plausible bug: an entry is due before its time.
DueEarly(e) == clock + 1 >= e[1]

\* The loop sleeps until one second after the time of the head of the heap.
Due(e) == clock >= e[1] + 1

\* Timeout, or the event is in the past already: ContactsChanged, and pop.
LoopNotifies ==
  /\ running
  /\ \E e \in heap : /\ \A f \in heap : e[1] <= f[1]
                     /\ Due(e)
                     /\ heap' = heap \ {e}
  /\ UNCHANGED <<clock, seen, chan, dropped, running>>

Tick == /\ clock < MaxTime /\ clock' = clock + 1
        /\ UNCHANGED <<seen, heap, chan, dropped, running>>

Next == \/ \E c \in People, t \in 1..clock : UpdateLastSeen(c, t)
        \/ StartLoop \/ AbortLoop \/ LoopInterrupted \/ LoopNotifies \/ Tick

Spec == Init /\ [][Next]_vars

----------------------------------------------------------------------------
(* The running loop forgets nobody silently: a contact seen recently is in *)
(* the heap with the time of its last sighting, or on its way there, or    *)
(* its interrupt found the channel full.  Without it the UI would show the *)
(* contact as recently seen until the loop is started anew.                *)
SeenIsQueued == running =>
  \A c \in People : RecentlySeen(c) =>
    \/ <<seen[c] + Window, c>> \in heap
    \/ <<c, seen[c]>> \in chan
    \/ c \in dropped
=============================================================================

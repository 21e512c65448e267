------------------------------- MODULE MCLoops -------------------------------
(* The scheduler and the loops it runs, to be checked at once: a behaviour is *)
(* one of Scheduler, of a second scheduler that is also restarted and whose   *)
(* loops may hang, or of one loop: SmtpQueue with crashes, lost answers,      *)
(* resends and a change of the transport, Mailbox, Ephemeral or LastSeen.     *)
(* `part' says which; the state of the others stays as it is.  The cfg gives  *)
(* every part its constants.                                                  *)
EXTENDS MCScheduler

CONSTANTS HangingCalls,   \* MaxCalls of the second scheduler
          Letters, Recipientless, NParts, Receipts, Contact, RetryLimit, Quota, Events,
          MaxMishaps, None,
          Msgs, KindOf, Batch, CanIdle, DeleteAll, MaxFaults, MaxResets, small, post,
          Fleeting, Durations, DeviceAfter, Long, MaxTime,
          People, Window, SeenUntil

VARIABLES part,
          state2, started2, pause_guards_count2, lock2, pc2, dropped2, gen2, cancelled2,
          loop2, woken2, pending2, calls2, requested2,
          status, prep, trashing, job, nextJob, at, queue, cur, limited, roused, synced, used,
          mdn, report, original, accepted, owed, acked, gaveUp, copies, mishaps,
          server, gone, validity, known, uidNext, rows, local, preKnown, available, download,
          downloading, resync, ses, stage, plan, todo, faults, first, removed, had, torn, reported,
          clock, msg, signal, phase, until, quiet, read,
          hour, seen, heap, chan, missed, running

vars2 == <<state2, started2, pause_guards_count2, lock2, pc2, dropped2, gen2, cancelled2,
           loop2, woken2, pending2, calls2, requested2>>
smtpVars == <<status, prep, trashing, job, nextJob, at, queue, cur, limited, roused, synced, used,
              mdn, report, original, accepted, owed, acked, gaveUp, copies, mishaps>>
inboxVars == <<server, gone, validity, known, uidNext, rows, local, preKnown, available, download,
               downloading, resync, ses, stage, plan, todo, faults, first, removed, had, torn,
               reported>>
ephemeralVars == <<clock, msg, signal, phase, until, quiet, read>>
seenVars == <<hour, seen, heap, chan, missed, running>>

\* The second scheduler and the queue come with what is proved of them.
Hanging == INSTANCE SchedulerProofs WITH
    Ops <- AllLifecycleOps, LoopsMayHang <- TRUE, StartMayFail <- FALSE,
    MaxCalls <- HangingCalls, state <- state2, started <- started2,
    pause_guards_count <- pause_guards_count2, lock <- lock2, pc <- pc2, dropped <- dropped2, gen <- gen2, cancelled <- cancelled2,
    loop <- loop2, woken <- woken2, pending <- pending2, calls <- calls2,
    requested <- requested2

Outgoing == INSTANCE SmtpQueueProofs WITH
    Msgs <- Letters, MaxFaults <- MaxMishaps, SyncSender <- FALSE,
    state <- status, nextId <- nextJob, pc <- at, todo <- queue, woken <- roused,
    first <- original, asked <- owed, inbox <- copies, faults <- mishaps

Inbox == INSTANCE Mailbox WITH pending <- downloading, pc <- stage
Disappearing == INSTANCE Ephemeral WITH Msgs <- Fleeting, loop <- phase
RecentlySeen == INSTANCE LastSeen WITH MaxTime <- SeenUntil, clock <- hour, dropped <- missed

\* A small message and one in two parts.
SmallAndPost == small :> "small" @@ post :> "post"

\* All receipts are for the same contact.
ToAlice == [x \in Receipts |-> "alice"]

(* What the theorems assume of these constants. *)
\* As in Scheduler and in SmtpQueue.
Restarting == AllLifecycleOps \subseteq AllOps /\ HangingCalls \in Nat \ {0}
Sending == /\ IsFiniteSet(Letters) /\ Recipientless \subseteq Letters
           /\ NParts \in Nat \ {0} /\ RetryLimit \in Nat \ {0} /\ Quota \in Nat \ {0}
           /\ MaxMishaps \in Nat
           /\ Events \subseteq {"crash", "lost_ok", "resend", "switch", "delete"}
           /\ None \notin Outgoing!Job /\ None \notin Outgoing!Hand /\ None \notin Receipts
\* A batch has some size, and every message is of one of the kinds.
Folder == Batch \in Nat \ {0} /\ KindOf \in [Msgs -> {"small", "large", "post", "bigpost"}]
Seconds == Durations \subseteq Nat /\ DeviceAfter \in Nat /\ Long \in Nat
Clocks == Window \in Nat /\ SeenUntil \in Nat
ASSUME LoopsAssumption == Restarting /\ Sending /\ Folder /\ Seconds /\ Clocks

LoopsInit == /\ part \in {"scheduler", "hanging", "smtp", "inbox", "ephemeral", "seen"}
             /\ Init /\ Hanging!Init /\ Outgoing!Init /\ Inbox!Init
             /\ Disappearing!Init /\ RecentlySeen!Init
             /\ part # "inbox" => server = << >>
LoopsNext ==
    /\ \/ /\ part = "scheduler" /\ Next
          /\ UNCHANGED <<vars2, smtpVars, inboxVars, ephemeralVars, seenVars>>
       \/ /\ part = "hanging" /\ Hanging!Next
          /\ UNCHANGED <<vars, smtpVars, inboxVars, ephemeralVars, seenVars>>
       \/ /\ part = "smtp" /\ Outgoing!Next
          /\ UNCHANGED <<vars, vars2, inboxVars, ephemeralVars, seenVars>>
       \/ /\ part = "inbox" /\ Inbox!Next
          /\ UNCHANGED <<vars, vars2, smtpVars, ephemeralVars, seenVars>>
       \/ /\ part = "ephemeral" /\ Disappearing!Next
          /\ UNCHANGED <<vars, vars2, smtpVars, inboxVars, seenVars>>
       \/ /\ part = "seen" /\ RecentlySeen!Next
          /\ UNCHANGED <<vars, vars2, smtpVars, inboxVars, ephemeralVars>>
    /\ UNCHANGED part
LoopsSpec == LoopsInit
    /\ [][LoopsNext]_<<part, vars, vars2, smtpVars, inboxVars, ephemeralVars, seenVars>>

(* The properties of the parts, stated and explained in their modules. *)
(* Scheduler: the guards are accounted for also if loops hang past the 30 s   *)
(* that `stop` waits for them, and if IO is restarted.                        *)
GuardsAccountedHanging == part = "hanging" => Hanging!GuardsAccounted
(* SmtpQueue: a part is accepted twice only after a fault. *)
NoDuplicatesButFaults == part = "smtp" => Outgoing!NoDuplicates
(* SmtpQueue: a read receipt is sent, queued, or given up for a reason. *)
NoReceiptIsLost == part = "smtp" => Outgoing!NoReceiptLost
(* Mailbox: what the loop passed is there, and nothing is deleted unread. *)
MailKept == part = "inbox" => Inbox!MailKept
(* Ephemeral: the loop wakes up in time, and deletes neither early nor late. *)
DeletedInTime == part = "ephemeral" => Disappearing!DeletedInTime
(* LastSeen: whoever was seen recently is in the queue of the loop. *)
SeenIsQueued == part = "seen" => RecentlySeen!SeenIsQueued
=============================================================================

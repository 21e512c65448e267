------------------------------- MODULE MCLive -------------------------------
(* The instances of the protocols between users for which progress is         *)
(* checked: a behaviour is one of GroupMembership (with the constants of the  *)
(* cfg), of SecureJoin, Mailbox or SmtpQueue, the one `part' names; the state *)
(* of the others stays as it is.  Each property assumes the fairness of its   *)
(* own part, which a part that does not move fails to have.                   *)
EXTENDS MCGroupMembership

CONSTANTS None, m1, m2   \* a model value of SecureJoin and SmtpQueue, messages

VARIABLES part,
          time, tokens, code, sync, verified, member, blocked, mail, doomed, selfSent, inbox,
          bobstate, bobKey, asked, joined, admitted, fresh, withdrawn, revived, lost, left,
          server, gone, validity, known, uidNext, imap, local, preKnown, available, download,
          pending, resync, ses, pc, plan, todo, faults, first, removed, had, torn, reported,
          state, prep, trashing, job, nextJob, at, queue, cur, limited, woken, synced, used,
          mdn, report, original, accepted, due, acked, gaveUp, copies, mishaps

joinVars == <<time, tokens, code, sync, verified, member, blocked, mail, doomed, selfSent, inbox,
              bobstate, bobKey, asked, joined, admitted, fresh, withdrawn, revived, lost, left>>
inboxVars == <<server, gone, validity, known, uidNext, imap, local, preKnown, available, download,
               pending, resync, ses, pc, plan, todo, faults, first, removed, had, torn, reported>>
smtpVars == <<state, prep, trashing, job, nextJob, at, queue, cur, limited, woken, synced, used,
              mdn, report, original, accepted, due, acked, gaveUp, copies, mishaps>>

\* A contact code and a group code with a key request; one fault.
Join == INSTANCE SecureJoin WITH
    Devices <- {"a1", "a2"}, Qrs <- {"q1", "q2"}, Fk <- [q1 |-> "", q2 |-> "g"],
    V3 <- {"q2"}, Timeout <- 1, MaxTime <- 1,
    Budgets <- {[codes |-> 1, scans |-> 1, steps |-> 0, faults |-> 1]},
    now <- time, gone <- withdrawn

\* Two small messages and one failure.
Inbox == INSTANCE Mailbox WITH
    Msgs <- {m1, m2}, KindOf <- m1 :> "small" @@ m2 :> "small", Batch <- 2,
    CanIdle <- TRUE, DeleteAll <- TRUE, MaxFaults <- 1, MaxResets <- 0, rows <- imap

\* Two messages of two parts, one of them without recipients, and one lost answer.
Smtp == INSTANCE SmtpQueue WITH
    Msgs <- {m1, m2}, Recipientless <- {m2}, NParts <- 2, Receipts <- {}, Contact <- << >>,
    RetryLimit <- 2, Quota <- 1, Events <- {"lost_ok"}, MaxFaults <- 1, SyncSender <- FALSE,
    nextId <- nextJob, pc <- at, todo <- queue, first <- original, asked <- due,
    inbox <- copies, faults <- mishaps

LiveInit == /\ part \in {"group", "join", "inbox", "smtp"}
            /\ Init /\ Join!Init /\ Inbox!Init /\ Smtp!Init
            /\ part # "join" => bobKey = TRUE
            /\ part # "inbox" => server = << >>
LiveNext ==
    /\ \/ part = "group" /\ Next /\ UNCHANGED <<joinVars, inboxVars, smtpVars>>
       \/ part = "join" /\ Join!Next /\ UNCHANGED <<vars, inboxVars, smtpVars>>
       \/ part = "inbox" /\ Inbox!Next /\ UNCHANGED <<vars, joinVars, smtpVars>>
       \/ part = "smtp" /\ Smtp!Next /\ UNCHANGED <<vars, joinVars, inboxVars>>
    /\ UNCHANGED part
LiveSpec == LiveInit /\ [][LiveNext]_<<part, vars, joinVars, inboxVars, smtpVars>>

(* GroupMembership: the members' lists become the same and stay so. *)
GroupConverges == Fairness => Converges
(* SecureJoin: whoever scanned a code that is honoured gets in. *)
JoinCompletes == Join!Fairness => Join!JoinCompletes
(* Mailbox: what is in the folder arrives. *)
MailArrives == Inbox!Fairness => Inbox!MailArrives
(* SmtpQueue: no message stays pending. *)
Settles == Smtp!Fairness => Smtp!Settles
=============================================================================

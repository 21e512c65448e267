------------------------------ MODULE Mailbox ------------------------------
(***************************************************************************)
(* One IMAP folder and the inbox loop that works on it: fetching new       *)
(* messages, remembering the ones to download later, deleting and          *)
(* downloading (src/imap.rs, src/imap/select_folder.rs, src/imap/idle.rs,  *)
(* src/download.rs, fetch_idle of src/scheduler.rs, and                    *)
(* delete_expired_imap_messages of src/ephemeral.rs).                      *)
(*                                                                         *)
(* A UID is a position in `server'.  A message may come in two parts: the  *)
(* small pre-message and the large post-message, its body.  The loop goes  *)
(* through the stages of `pc'; what it has in memory is lost when a        *)
(* command fails or the process dies, which is the same thing here: the    *)
(* session is dropped and only the tables remain.                          *)
(***************************************************************************)
EXTENDS Naturals, Sequences, FiniteSetsExt, Functions

CONSTANTS Msgs,       \* messages, by the Message-ID of their body
          KindOf,     \* [Msgs -> {"small", "large", "post", "bigpost"}]
          Batch,      \* uids_to_prefetch
          CanIdle,    \* the server supports IDLE and it is not disabled
          DeleteAll,  \* should_delete_all_downloaded_messages
          MaxFaults,  \* bound on failures, crashes and vanished messages
          MaxResets   \* bound on changes of UIDVALIDITY

VARIABLES server,     \* the folder: server[uid] is <<message, "pre" or "body">>
          gone,       \* UIDs that are expunged
          validity,   \* UIDVALIDITY on the server
          known,      \* imap_sync.uidvalidity, 0 before the first SELECT
          uidNext,    \* imap_sync.uid_next
          rows,       \* the imap table: [uid, part, del], del when the target is ''
          local,      \* download state of the message in msgs
          preKnown,   \* messages whose pre_rfc724_mid is set
          available,  \* available_post_msgs
          download,   \* the download table
          pending,    \* calls of download_full between their two statements
          resync,     \* the resync request channel
          ses,        \* the session: selected folder, its UIDNEXT then, new_mail
          pc,         \* the stage the inbox loop is in
          plan,       \* what the batch in progress has in memory
          todo,       \* rfc724_mids the download loops still have to look at
          faults,
          first,      \* history: the lowest UID that is not old mail
          removed,    \* history: messages whose body the loop deleted
          had,        \* history: messages complete once, or deleted by the user
          torn,       \* history: calls of download_full the process died in
          reported    \* history: messages that a device message reports as failed

tables == <<known, uidNext, rows, local, preKnown, available, download>>
memory == <<ses, pc, plan, todo>>
history == <<first, removed, had, torn, reported>>
vars == <<server, gone, validity, tables, pending, resync, memory, faults, history>>

Posts == {m \in Msgs : KindOf[m] \in {"post", "bigpost"}}
Parts == {<<m, "body">> : m \in Msgs} \union {<<m, "pre">> : m \in Posts}
TooLarge(m) == KindOf[m] \in {"large", "bigpost"}
Exists(m) == local[m] # "none"
Live(u) == u \in 1..Len(server) /\ u \notin gone

NoSession == [sel |-> FALSE, next |-> 0, newMail |-> FALSE]
NoPlan == [old |-> 0, fetch |-> {}, avail |-> {}, later |-> {},
           skipped |-> 0, largest |-> 0, ok |-> FALSE]

Init ==
  /\ \E old \in {<< >>} \union {<<p>> : p \in Parts} : server = old
  /\ gone = {} /\ validity = 1 /\ known = 0 /\ uidNext = 0 /\ rows = {}
  /\ local = [m \in Msgs |-> "none"] /\ preKnown = {} /\ available = {} /\ download = {}
  /\ pending = {} /\ resync = FALSE
  /\ ses = NoSession /\ pc = "start" /\ plan = NoPlan /\ todo = {}
  /\ faults = 0 /\ first = Len(server) + 1 /\ removed = {} /\ had = {} /\ torn = {} /\ reported = {}

Fault == faults < MaxFaults /\ faults' = faults + 1

----------------------------------------------------------------------------
\* The server and its other clients.

Arrive(p) ==
  /\ p \notin Range(server)
  /\ server' = Append(server, p)
  /\ UNCHANGED <<gone, validity, tables, pending, resync, memory, faults, history>>

\* Another client or the server removes a message.
Vanish(u) ==
  /\ Live(u) /\ Fault
  /\ gone' = gone \union {u}
  /\ UNCHANGED <<server, validity, tables, pending, resync, memory, history>>

\* While nobody is connected the server renumbers the folder.
NewValidity ==
  /\ validity <= MaxResets /\ ~ses.sel /\ pc = "start"
  /\ validity' = validity + 1
  /\ \E n \in 0..Len(server) : \E f \in [1..n -> DOMAIN server \ gone] :
       /\ \A i, j \in 1..n : i < j => f[i] < f[j]
       /\ Range(f) = DOMAIN server \ gone
       /\ server' = [i \in 1..n |-> server[f[i]]]
  /\ gone' = {}
  /\ UNCHANGED <<tables, pending, resync, memory, faults, history>>

----------------------------------------------------------------------------
\* Sessions.

\* select_with_uidvalidity, as the values it leaves behind.  A folder selected for the first
\* time, or renumbered, starts at the server's UIDNEXT.
Selected ==
  LET next == Len(server) + 1
  IN IF known # validity
     THEN [uidNext |-> next, known |-> validity, rows |-> {}, first |-> next,
           resync |-> resync \/ known # 0,
           ses |-> [sel |-> TRUE, next |-> IF ses.sel THEN ses.next ELSE next, newMail |-> TRUE]]
     ELSE [uidNext |-> uidNext, known |-> known, rows |-> rows, resync |-> resync, first |-> first,
           ses |-> IF ses.sel THEN ses
                   ELSE [sel |-> TRUE, next |-> next,
                         newMail |-> ses.newMail \/ next # uidNext]]

\* resync_folders, when a resync was requested: the rows are made anew from the folder, and
\* nothing in them is planned for deletion any more.
Resync ==
  /\ pc = "start" /\ resync /\ pc' = "fetch"
  /\ rows' = {[uid |-> u, part |-> server[u], del |-> FALSE] : u \in {v \in 1..Len(server) : Live(v)}}
  /\ LET s == Selected
     IN known' = s.known /\ uidNext' = s.uidNext /\ ses' = s.ses /\ first' = s.first
        /\ resync' = (known # validity)
  /\ UNCHANGED <<server, gone, validity, local, preKnown, available, download, pending,
                 plan, todo, faults, removed, had, torn, reported>>

NoResync ==
  /\ pc = "start" /\ ~resync /\ pc' = "fetch"
  /\ UNCHANGED <<server, gone, validity, tables, pending, resync, ses, plan, todo, faults, history>>

\* A command fails or the loop is stopped: the session and what the loop has in memory go.
Interrupted ==
  /\ (pc # "start" \/ ses.sel) /\ Fault
  /\ pc' = "start" /\ ses' = NoSession /\ plan' = NoPlan /\ todo' = {}
  /\ UNCHANGED <<server, gone, validity, tables, pending, resync, history>>

\* The process dies in a call of download_full.
Crash ==
  /\ pending # {} /\ Fault
  /\ pc' = "start" /\ ses' = NoSession /\ plan' = NoPlan /\ todo' = {}
  /\ pending' = {} /\ torn' = torn \union pending /\ resync' = FALSE
  /\ UNCHANGED <<server, gone, validity, tables, first, removed, had, reported>>

\* A plausible bug: leaving IDLE is not taken as a sign of new mail.
IdleQuiet ==
  /\ pc = "idle" /\ pc' = "start"
  /\ UNCHANGED <<server, gone, validity, tables, pending, resync, ses, plan, todo, faults, history>>

\* idle: wait for new data, an interrupt or the timeout; new mail is assumed after it.
\* fake_idle only waits.
Idle ==
  /\ pc = "idle" /\ pc' = "start"
  /\ LET s == Selected
     IN IF CanIdle
        THEN /\ known' = s.known /\ uidNext' = s.uidNext /\ rows' = s.rows
             /\ resync' = s.resync /\ first' = s.first
             /\ ses' = [s.ses EXCEPT !.newMail = TRUE]
        ELSE UNCHANGED <<known, uidNext, rows, resync, ses, first>>
  /\ UNCHANGED <<server, gone, validity, local, preKnown, available, download, pending,
                 plan, todo, faults, removed, had, torn, reported>>

----------------------------------------------------------------------------
\* Fetching.

\* fetch_new_messages up to its loop
StartFetch ==
  /\ pc = "fetch"
  /\ LET s == Selected
     IN /\ known' = s.known /\ uidNext' = s.uidNext /\ rows' = s.rows /\ resync' = s.resync
        /\ ses' = [s.ses EXCEPT !.newMail = FALSE] /\ first' = s.first
        /\ pc' = IF s.ses.newMail THEN "batch" ELSE "clean"
  /\ UNCHANGED <<server, gone, validity, local, preKnown, available, download, pending,
                 plan, todo, faults, removed, had, torn, reported>>

\* rfc724_mid_exists_ex(mid, "deleted=1")
DeletedLocally(p) == local[p[1]] = "deleted" /\ (p[2] = "pre" => p[1] \in preKnown)

\* prefetch_should_download: the download of the body was not tried before.
ShouldDownload(p) == p[2] = "pre" \/ local[p[1]] \in {"none", "Available"}

\* What the first loop of fetch_new_msg_batch does with a message it saw in the folder:
\* fetch it now, put it off, or skip it.
FetchNow(p) == p[2] = "pre" \/ KindOf[p[1]] = "small"
Wanted(u) == ~DeletedLocally(server[u]) /\ ShouldDownload(server[u])

\* fetch_new_msg_batch up to the downloads: headers of the next Batch UIDs
Prefetch ==
  /\ pc = "batch" /\ pc' = "fetching"
  /\ LET seen == {u \in uidNext..(uidNext + Batch - 1) : Live(u)}
         now == {u \in seen : Wanted(u) /\ FetchNow(server[u])}
         postUids == {u \in seen \ now : Wanted(u) /\ server[u][1] \in Posts}
         later == {u \in seen \ now : Wanted(u) /\ KindOf[server[u][1]] # "bigpost"}
     IN /\ rows' = {r \in rows : r.uid \notin seen}
                   \union {[uid |-> u, part |-> server[u], del |-> DeletedLocally(server[u])] : u \in seen}
        /\ plan' = [old |-> uidNext, fetch |-> now,
                    avail |-> {server[u][1] : u \in postUids},
                    later |-> {server[u][1] : u \in later},
                    skipped |-> Max({0} \union (seen \ now)), largest |-> 0, ok |-> FALSE]
  /\ UNCHANGED <<server, gone, validity, known, uidNext, local, preKnown, available, download,
                 pending, resync, ses, todo, faults, history>>

\* receive_imf as far as this folder is concerned
Received(p) ==
  LET m == p[1]
      complete == p[2] = "body" /\ local[m] \in {"none", "Available", "InProgress", "Failure"}
                  /\ (Exists(m) => m \in Posts)
  IN /\ local' = [local EXCEPT ![m] = IF complete THEN "Done"
                                      ELSE IF p[2] = "pre" /\ ~Exists(m) THEN "Available" ELSE @]
     /\ preKnown' = IF p[2] = "pre" THEN preKnown \union {m} ELSE preKnown
     /\ had' = IF complete THEN had \union {m} ELSE had

\* receive_imf fails: a device message tells the user.
ReceiveFails(p) ==
  /\ Fault /\ reported' = reported \union {p[1]}
  /\ UNCHANGED <<local, preKnown, had>>

\* fetch_many_msgs, the next UID: it is received, or it is not in the answer any more.
FetchOne ==
  /\ pc = "fetching" /\ plan.fetch # {}
  /\ LET u == Min(plan.fetch)
     IN IF Live(u)
        THEN /\ plan' = [plan EXCEPT !.fetch = @ \ {u}, !.largest = u]
             /\ \/ Received(server[u]) /\ UNCHANGED <<faults, reported>>
                \/ ReceiveFails(server[u])
        ELSE /\ plan' = [plan EXCEPT !.fetch = @ \ {u}]
             /\ UNCHANGED <<local, preKnown, had, faults, reported>>
  /\ UNCHANGED <<server, gone, validity, known, uidNext, rows, available, download, pending,
                 resync, ses, pc, todo, first, removed, torn>>

\* fetch_many_msgs ends, with an error or without.
FetchEnds ==
  /\ pc = "fetching" /\ pc' = "uidnext"
  /\ \/ plan.fetch = {} /\ plan' = [plan EXCEPT !.ok = TRUE] /\ UNCHANGED faults
     \/ plan.fetch # {} /\ Fault /\ UNCHANGED plan
  /\ UNCHANGED <<server, gone, validity, tables, pending, resync, ses, todo, history>>

\* A plausible bug: the skipped messages count even if a fetch failed.
NewUidNextSkipping(p) ==
  Max({p.largest + 1, p.skipped + 1})

\* new_uid_next
NewUidNext(p) ==
  IF p.ok THEN Max({p.largest + 1, Min({p.old + Batch, ses.next}), p.skipped + 1})
  ELSE p.largest + 1

\* set_uid_next; an error of the fetch is returned after it and the session is dropped.
SetUidNext ==
  /\ pc = "uidnext"
  /\ uidNext' = Max({uidNext, NewUidNext(plan)})
  /\ IF plan.ok THEN pc' = "later" /\ UNCHANGED <<ses, plan>>
                ELSE pc' = "start" /\ ses' = NoSession /\ plan' = NoPlan
  /\ UNCHANGED <<server, gone, validity, known, rows, local, preKnown, available, download,
                 pending, resync, todo, faults, history>>

\* The transaction at the end of fetch_new_msg_batch, and fetch_more
RecordLater ==
  /\ pc = "later"
  /\ available' = available \union plan.avail
  /\ download' = download \union plan.later
  /\ pc' = IF plan.old + Batch < ses.next THEN "batch" ELSE "clean"
  /\ plan' = NoPlan
  /\ UNCHANGED <<server, gone, validity, known, uidNext, rows, local, preKnown, pending, resync,
                 ses, todo, faults, history>>

----------------------------------------------------------------------------
\* Deleting.

\* delete_expired_imap_messages: what was downloaded is not needed on the server any more.
Expired(p) == \/ p[2] = "body" /\ local[p[1]] \in {"Done", "deleted"}
              \/ p[2] = "pre" /\ p[1] \in preKnown

MarkExpired ==
  /\ pc = "clean" /\ pc' = "delete"
  /\ rows' = {[r EXCEPT !.del = @ \/ (DeleteAll /\ Expired(r.part))] : r \in rows}
  /\ UNCHANGED <<server, gone, validity, known, uidNext, local, preKnown, available, download,
                 pending, resync, ses, plan, todo, faults, history>>

\* move_delete_messages; the folder is closed to expunge it.
DeleteBatch ==
  LET dead == {r.uid : r \in {s \in rows : s.del}}
  IN /\ pc = "delete" /\ pc' = "known"
     /\ rows' = {r \in rows : ~r.del}
     /\ gone' = gone \union (dead \cap DOMAIN server)
     /\ removed' = removed \union {server[u][1] : u \in {v \in dead : Live(v) /\ server[v][2] = "body"}}
     /\ ses' = IF dead = {} THEN ses ELSE NoSession
     /\ todo' = available
     /\ UNCHANGED <<server, validity, known, uidNext, local, preKnown, available, download,
                    pending, resync, plan, faults, first, had, torn, reported>>

----------------------------------------------------------------------------
\* Downloads.

\* The UIDs download_msg may find for the body of m
Located(m) == {r.uid : r \in {s \in rows : ~s.del /\ s.part = <<m, "body">>}}

\* download_msg ends in an error: the location is unknown, the message is not there, or
\* the command fails.
DownloadError(m) ==
  \/ Located(m) = {} /\ UNCHANGED faults
  \/ Located(m) # {} /\ ~(\E u \in Located(m) : Live(u)) /\ UNCHANGED faults
  \/ Located(m) # {} /\ Fault

\* What it leaves in available_post_msgs then
AvailableAfterError(m) == IF Located(m) = {} THEN available \ {m} ELSE available

DownloadOk(m) ==
  \E u \in Located(m) :
    /\ Live(u)
    /\ \/ Received(server[u]) /\ UNCHANGED <<faults, reported>>
       \/ ReceiveFails(server[u])

StageDone(next, rest) == IF todo = {} THEN pc' = next /\ todo' = rest ELSE FALSE

\* download_known_post_messages_without_pre_message, one row of its list
KnownPostMessage(m) ==
  /\ pc = "known" /\ m \in todo /\ todo' = todo \ {m}
  /\ \/ /\ Exists(m) /\ available' = available \ {m}
        /\ UNCHANGED <<local, preKnown, had, faults, reported>>
     \/ /\ ~Exists(m) /\ DownloadOk(m) /\ available' = available \ {m}
     \/ /\ ~Exists(m) /\ DownloadError(m) /\ available' = AvailableAfterError(m)
        /\ UNCHANGED <<local, preKnown, had, reported>>
  /\ UNCHANGED <<server, gone, validity, known, uidNext, rows, download, pending, resync, ses,
                 pc, plan, first, removed, torn>>

KnownDone ==
  /\ pc = "known" /\ StageDone("downloads", download)
  /\ UNCHANGED <<server, gone, validity, tables, pending, resync, ses, plan, faults, history>>

\* download_msgs gives up on a download that failed if there is no pre-message for it, or if
\* the post-message was announced; otherwise the post-message has yet to arrive.
GiveUp(m, avail) == ~Exists(m) \/ m \in avail

\* download_msgs, one row of its list; the tombstone of a deleted message stays one
DownloadMsg(m) ==
  /\ pc = "downloads" /\ m \in todo /\ todo' = todo \ {m}
  /\ \/ /\ DownloadOk(m)
        /\ download' = download \ {m} /\ available' = available \ {m}
     \/ /\ DownloadError(m)
        /\ LET avail == AvailableAfterError(m)
           IN /\ download' = IF GiveUp(m, avail) THEN download \ {m} ELSE download
              /\ available' = IF Exists(m) THEN avail \ {m} ELSE avail
              /\ local' = IF local[m] \notin {"none", "deleted"} /\ m \in avail
                          THEN [local EXCEPT ![m] = "Failure"] ELSE local
        /\ UNCHANGED <<preKnown, had, reported>>
  /\ UNCHANGED <<server, gone, validity, known, uidNext, rows, pending, resync, ses,
                 pc, plan, first, removed, torn>>

DownloadsDone ==
  /\ pc = "downloads" /\ StageDone("idle", {})
  /\ UNCHANGED <<server, gone, validity, tables, pending, resync, ses, plan, faults, history>>

----------------------------------------------------------------------------
\* The user.

\* download_full sets the state ...
DownloadFull(m) ==
  /\ local[m] \in {"Available", "Failure"}
  /\ local' = [local EXCEPT ![m] = "InProgress"]
  /\ pending' = pending \union {m}
  /\ UNCHANGED <<server, gone, validity, known, uidNext, rows, preKnown, available, download,
                 resync, memory, faults, history>>

\* ... and then puts the message into the download table.
DownloadQueued(m) ==
  /\ m \in pending /\ pending' = pending \ {m}
  /\ download' = download \union {m}
  /\ UNCHANGED <<server, gone, validity, known, uidNext, rows, local, preKnown, available,
                 resync, memory, faults, history>>

\* delete_msgs
DeleteMsg(m) ==
  /\ Exists(m) /\ local[m] # "deleted" /\ m \notin pending
  /\ rows' = {[r EXCEPT !.del = @ \/ r.part = <<m, "body">> \/ (r.part = <<m, "pre">> /\ m \in preKnown)] :
               r \in rows}
  /\ local' = [local EXCEPT ![m] = "deleted"]
  /\ download' = download \ {m} /\ available' = available \ {m}
  /\ had' = had \union {m}
  /\ UNCHANGED <<server, gone, validity, known, uidNext, preKnown, pending, resync, memory,
                 faults, first, removed, torn, reported>>

Loop == \/ Resync \/ NoResync \/ Idle
        \/ StartFetch \/ Prefetch \/ FetchOne \/ FetchEnds \/ SetUidNext \/ RecordLater
        \/ MarkExpired \/ DeleteBatch \/ KnownDone \/ DownloadsDone
        \/ \E m \in Msgs : KnownPostMessage(m) \/ DownloadMsg(m)

Next == \/ \E p \in Parts : Arrive(p)
        \/ \E u \in 1..Len(server) : Vanish(u)
        \/ NewValidity \/ Interrupted \/ Crash
        \/ Loop
        \/ \E m \in Msgs : DownloadFull(m) \/ DownloadQueued(m) \/ DeleteMsg(m)

Spec == Init /\ [][Next]_vars

\* The loop runs while the connection can be made; the server answers.
Fairness == WF_vars(Loop)
FairSpec == Spec /\ Fairness

----------------------------------------------------------------------------
TypeOK ==
  /\ Range(server) \subseteq Parts /\ gone \subseteq DOMAIN server
  /\ local \in [Msgs -> {"none", "Available", "InProgress", "Failure", "Done", "deleted"}]
  /\ available \union download \union pending \union preKnown \union todo \subseteq Msgs
  /\ pc \in {"start", "fetch", "batch", "fetching", "uidnext", "later", "clean", "delete",
             "known", "downloads", "idle"}

(* Nothing small is passed over: once uid_next is beyond a message that is *)
(* fetched with its batch, the message is in the database or its failure   *)
(* was shown to the user, wherever a fetch broke off, the process died or  *)
(* the message arrived between SELECT and the prefetch.                    *)
ReadIsKept ==
  known = validity =>
    \A u \in first..(uidNext - 1) :
      Live(u) /\ FetchNow(server[u]) => Exists(server[u][1]) \/ server[u][1] \in reported

(* The loop deletes the body of a message from the server only if the      *)
(* message is complete on this device or the user deleted it.              *)
NeverDeletedUnread == removed \subseteq had

(* A download in progress is worked on: it is in the download table, or    *)
(* its call is about to put it there, or receiving it failed, or the       *)
(* process died between the two statements of that call.                   *)
InProgressIsQueued ==
  \A m \in Msgs : local[m] = "InProgress" => m \in download \union pending \union reported \union torn

(* What the inbox loop promises about received mail. *)
MailKept == ReadIsKept /\ NeverDeletedUnread /\ InProgressIsQueued

(* A post-message on the server that uid_next has passed is known to the   *)
(* device: "Downloads known post-messages without pre-messages in order to *)
(* guard against lost pre-messages" (download.rs).  Does not hold: README.  *)
PostMessageKnown ==
  known = validity /\ pc # "later" =>
    \A u \in first..(uidNext - 1) :
      Live(u) /\ server[u][2] = "body" /\ server[u][1] \in Posts
        => Exists(server[u][1]) \/ server[u][1] \in available \union reported

\* The UIDs of a message that is in the folder and not old mail
Owed(m) == {u \in first..Len(server) : Live(u) /\ server[u] = <<m, "body">>}

(* New mail is noticed: a small message that arrives in the folder is      *)
(* received unless it vanishes, fails to parse or the folder is renumbered *)
(* before.                                                                 *)
MailArrives ==
  \A m \in Msgs : KindOf[m] = "small" =>
    (known = validity /\ Owed(m) # {})
      ~> (Exists(m) \/ m \in reported \/ known # validity \/ Owed(m) = {})
=============================================================================

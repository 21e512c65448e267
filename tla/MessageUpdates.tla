--------------------------- MODULE MessageUpdates ---------------------------
(* One message of a chat partner on its way into the msgs table: as one mail, *)
(* or as a pre-message and a post-message, followed by requests to edit and   *)
(* to delete it.  The mails come over several relays, so each may arrive      *)
(* twice and all of them in any order; only one is processed at a time        *)
(* (fetch_msgs_mutex).  The user may delete the message as well, and          *)
(* housekeeping prunes tombstones.                                            *)
(* receive_imf.rs (decide_chat_assignment, handle_edit_delete,                *)
(* handle_post_message, the insertion in add_parts), message.rs, sql.rs.      *)
EXTENDS Naturals

CONSTANTS Split,     \* {TRUE}, {FALSE} or both: is there a post-message?
          Edits,     \* how many edit requests there are
          Copies,    \* how often each mail arrives
          Keep,      \* how long tombstones are kept (two days)
          MaxTime    \* bound: the clock, which starts at Keep + 1

VARIABLES now,       \* tools::time()
          split,     \* the message has a post-message
          rows,      \* rows of the msgs table with the message's Message-ID
          known,     \* other mails that have a row in the msgs table
          left,      \* copies of each mail that still have to arrive
          listed,    \* an imap row of the message is not marked for deletion
          posted,    \* history: the whole message or its post-message was received
          request,   \* history: when the deletion request was first handled, or 0
          gone       \* history: the message was deleted while it was in a chat

vars == <<now, split, rows, known, left, listed, posted, request, gone>>

Start == Keep + 1    \* the clock when the message was sent

EditMails == {<<"edit", e>> : e \in 1..Edits}
Delete == <<"delete", 0>>
Parts == {<<"pre", 0>>, <<"post", 0>>, <<"whole", 0>>}
Mails == Parts \cup EditMails \cup {Delete}

(* The row that a lookup by Message-ID finds: the oldest, as SQLite evaluates *)
(* the query.                                                                 *)
Oldest == CHOOSE r \in rows : \A s \in rows : r.id <= s.id
NewId == 1 + (IF rows = {} THEN 0 ELSE CHOOSE n \in {r.id : r \in rows} : \A r \in rows : r.id <= n)

Row(id, shown, text, file, pre, ts) ==
    [id |-> id, shown |-> shown, text |-> text, file |-> file, pre |-> pre, ts |-> ts]

Shown == {r \in rows : r.shown}

Init ==
    /\ now = Start
    /\ split \in Split
    /\ rows = {} /\ known = {}
    /\ left = [m \in Mails |-> IF (m = <<"whole", 0>> /\ split) \/ (m \in Parts \ {<<"whole", 0>>} /\ ~split)
                               THEN 0 ELSE Copies]
    /\ listed = FALSE /\ posted = FALSE /\ request = 0 /\ gone = FALSE

Arrives(m) == left[m] > 0 /\ left' = [left EXCEPT ![m] = @ - 1]

-----------------------------------------------------------------------------
(* A message of one part: ignored if there is any row with its Message-ID. *)
ReceiveWhole ==
    /\ Arrives(<<"whole", 0>>)
    /\ listed' = TRUE
    /\ rows' = IF rows # {} THEN rows ELSE {Row(NewId, TRUE, 0, TRUE, FALSE, Start)}
    /\ posted' = TRUE
    /\ UNCHANGED <<now, split, known, request, gone>>

(* A pre-message is ignored if it is known by its own Message-ID, and trashed *)
(* if the post-message it announces is known and not just to be downloaded.   *)
PostMsgUnknown == FALSE   \* mutant: it is not looked for

PostMsgExists == rows # {} /\ \E r \in rows : ~r.shown \/ r.file

ReceivePre ==
    /\ Arrives(<<"pre", 0>>)
    /\ rows' = IF \E r \in rows : r.pre THEN rows
               ELSE (IF rows = {} THEN {} ELSE (rows \ {Oldest}) \cup {[Oldest EXCEPT !.pre = TRUE]})
                    \cup {Row(NewId, ~PostMsgExists, 0, FALSE, TRUE, Start)}
    /\ UNCHANGED <<now, split, known, listed, posted, request, gone>>

(* handle_post_message: the attachment of the message that the pre-message    *)
(* has left, and nothing else of it.                                          *)
Completed == [Oldest EXCEPT !.file = TRUE]

(* A post-message completes the row it finds and is trashed, or is a message  *)
(* of its own.                                                                *)
ReceivePost ==
    /\ Arrives(<<"post", 0>>)
    /\ listed' = TRUE
    /\ rows' = IF rows = {} THEN {Row(NewId, TRUE, 0, TRUE, FALSE, Start)}
               ELSE (IF Oldest.shown THEN (rows \ {Oldest}) \cup {Completed} ELSE rows)
                    \cup {Row(NewId, FALSE, 0, FALSE, FALSE, Start)}
    /\ posted' = TRUE
    /\ UNCHANGED <<now, split, known, request, gone>>

(* handle_edit_delete, Chat-Edit: applies to the row, if it is in a chat. *)
ReceiveEdit(m) ==
    /\ Arrives(m)
    /\ known' = known \cup {m}
    /\ rows' = IF m \in known \/ rows = {} \/ ~Oldest.shown THEN rows
               ELSE (rows \ {Oldest}) \cup {[Oldest EXCEPT !.text = m[2]]}
    /\ UNCHANGED <<now, split, listed, posted, request, gone>>

(* MsgId::trash: what is left of a row is its Message-IDs and its time. *)
Trashed(r) == Row(r.id, FALSE, 0, FALSE, r.pre, r.ts)

(* insert_tombstone gives the row no time. *)
Tombstone == Row(NewId, FALSE, 0, FALSE, FALSE, 0)

(* handle_edit_delete, Chat-Delete: trashes the row, or leaves a tombstone if *)
(* there is none.                                                             *)
ReceiveDelete ==
    /\ Arrives(Delete)
    /\ known' = known \cup {Delete}
    /\ rows' = IF Delete \in known THEN rows
               ELSE IF rows = {} THEN {Tombstone}
               ELSE IF Oldest.shown THEN (rows \ {Oldest}) \cup {Trashed(Oldest)}
               ELSE rows
    /\ request' = IF request = 0 THEN now ELSE request
    /\ gone' = (gone \/ (Shown # {} /\ Shown' = {}))
    /\ UNCHANGED <<now, split, listed, posted>>

(* delete_msgs, by the user: also deletes the copies on the server, and stops *)
(* a download.                                                                *)
delete_msgs ==
    /\ \E r \in Shown : rows' = (rows \ {r}) \cup {Trashed(r)}
    /\ listed' = FALSE
    /\ gone' = TRUE
    /\ UNCHANGED <<now, split, known, left, posted, request>>

(* The headers of a post-message that is not downloaded yet are fetched. *)
Prefetch ==
    /\ left[<<"post", 0>>] > 0 /\ ~listed
    /\ listed' = TRUE
    /\ UNCHANGED <<now, split, rows, known, left, posted, request, gone>>

(* The server's copies are deleted for other reasons. *)
Expunge == listed /\ listed' = FALSE /\ UNCHANGED <<now, split, rows, known, left, posted, request, gone>>

(* prune_tombstones.  The rows of the requests are as old as the message.     *)
Pruned == {r \in rows : ~r.shown /\ r.ts <= now - Keep /\ ~listed}

housekeeping ==
    /\ rows' = rows \ Pruned
    /\ known' = IF Start <= now - Keep THEN {} ELSE known
    /\ UNCHANGED <<now, split, left, listed, posted, request, gone>>

Tick == now < MaxTime /\ now' = now + 1
        /\ UNCHANGED <<split, rows, known, left, listed, posted, request, gone>>

Next == \/ ReceiveWhole \/ ReceivePre \/ ReceivePost \/ ReceiveDelete
        \/ \E m \in EditMails : ReceiveEdit(m)
        \/ delete_msgs \/ Prefetch \/ Expunge \/ housekeeping \/ Tick

Spec == Init /\ [][Next]_vars

-----------------------------------------------------------------------------
(* However pre-message, post-message and requests are ordered and repeated,   *)
(* there is one message at most in the chat, and once the attachment has been *)
(* received the message has it.                                               *)
OneWholeBubble ==
    /\ \A r, s \in Shown : r = s
    /\ posted /\ ~gone /\ request = 0 => \A r \in Shown : r.file

(* A message that was deleted while it was in the chat does not come back     *)
(* with a copy that arrives later, for as long as tombstones are kept.        *)
DeletedStaysDeleted == gone /\ now < Start + Keep => Shown = {}

(* A message is shown once and whole until it is deleted, and not after. *)
ShownAsSent == OneWholeBubble /\ DeletedStaysDeleted

(* A message for which a deletion request was handled is ignored if it        *)
(* arrives later, for as long as tombstones are kept.                         *)
DeletionRemembered == request > 0 /\ now < request + Keep => Shown = {}
=============================================================================

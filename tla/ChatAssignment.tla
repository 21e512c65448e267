--------------------------- MODULE ChatAssignment ---------------------------
(* Which chat a received mail goes to, and who decides that a chat is         *)
(* accepted: receive_imf.rs from decide_chat_assignment to the first lines of *)
(* add_parts, with the user's operations on chats (chat.rs, contact.rs) in    *)
(* between.  One device; mails of the user's other devices arrive as outgoing *)
(* ones.  Contacts come in two kinds, as in the contacts table: key-contacts  *)
(* (a fingerprint) and address-contacts (none).  Subjects and names are left  *)
(* out: all ad-hoc groups have the same name.  Lists of members that change   *)
(* later are the subject of GroupMembership.                                  *)
EXTENDS Naturals, Sequences, FiniteSets

CONSTANTS People,      \* the other persons, each with one address and one key
          Groups,      \* Chat-Group-ID values
          Lists,       \* List-Id values of mailing lists
          Channels,    \* List-Id values of broadcast channels
          Nothing,     \* an absent header
          Bot,         \* Config::Bot
          MaxMails,    \* bound: mails received
          MaxSent,     \* bound: messages the user writes on this device
          MaxChats,    \* bound: chats created
          MaxActions   \* bound: the user's operations

VARIABLES chats,     \* chats table: <<[typ, of, members, blocked], ...>>, ids are positions
          banned,    \* contacts the user has blocked
          msgs,      \* msgs table, in the order of arrival
          actions,   \* operations of the user so far
          welcomed   \* history: chats the user opened to, himself or by
                     \* accepting the 1:1 chat of someone who writes there

vars == <<chats, banned, msgs, actions, welcomed>>

Self == "self"      \* the user, as a sender or recipient of a mail
Me == <<"self", Self>>   \* ContactId::SELF

(* Ids of groups and channels are random, no mailing list has one of them.    *)
ASSUME NamesAssumption == /\ Self \notin People
                          /\ (Groups \cup Channels) \cap Lists = {}
                          /\ MaxChats \in Nat

Key(p) == <<"key", p>>
Addr(p) == <<"addr", p>>

(* A contact of the contacts table for an address of a mail: the mail's       *)
(* signature, or a fingerprint in it, selects the key-contact.                *)
ContactOf(p, signed) == IF p = Self THEN Me ELSE IF signed THEN Key(p) ELSE Addr(p)
Contacts == {Key(p) : p \in People} \cup {Addr(p) : p \in People}

Trash == 0         \* DC_CHAT_ID_TRASH
Types == {"single", "group", "adhoc", "list", "in", "out", "deleted"}
Blocking == {"Not", "Request", "Yes"}

Ids == DOMAIN chats
Saved(id) == chats[id].typ = "single" /\ chats[id].of = Me   \* "Saved Messages"

IsEncrypted(c) ==
    CASE c.typ = "single" -> c.of = Me \/ c.of \in {Key(p) : p \in People}
      [] c.typ \in {"group", "in", "out"} -> TRUE
      [] OTHER -> FALSE

-----------------------------------------------------------------------------
(* The mails that arrive, by what their headers say: the sender, the          *)
(* recipients in To and Cc, the first of them, a signature (the mail was      *)
(* encrypted to us), a failed decryption, a group id or list id, the          *)
(* Chat-Version and Chat-Group-Member-Removed headers, a reaction, a report   *)
(* or other mail that is never shown, the secret of a channel.                *)
Blank == [from |-> Self, to |-> {}, first |-> Nothing, enc |-> FALSE, error |-> FALSE,
          grp |-> Nothing, list |-> Nothing, chat |-> FALSE, removal |-> FALSE,
          reaction |-> FALSE, hidden |-> FALSE, secret |-> FALSE]

Everyone == People \cup {Self}

Letter(f, t, x) == [Blank EXCEPT !.from = f, !.to = t, !.first = x]
Addressed == {Letter(f, t, x) :
                 f \in Everyone, t \in SUBSET Everyone, x \in Everyone \cup {Nothing}}
Deliverable == {m \in Addressed : /\ IF m.to = {} \/ m.from # Self THEN m.first = Nothing
                                     ELSE m.first \in m.to
                                  /\ m.to = {m.from} => m.from = Self}

Classic == Deliverable                                  \* other mail programs, no encryption
DirectMail(m, r) == [m EXCEPT !.enc = TRUE, !.chat = TRUE, !.reaction = r]
Direct == {DirectMail(m, r) :
              m \in {d \in Deliverable : Cardinality(d.to) <= 1 /\ (d.from # Self => d.to \subseteq {Self})},
              r \in BOOLEAN}
Pgp == {[m EXCEPT !.enc = TRUE] : m \in {d \in Deliverable : d.from # Self /\ Self \in d.to}}
GroupMail(m, e, g, r) == [m EXCEPT !.enc = e, !.chat = TRUE, !.grp = g, !.removal = r]
GroupMails == {GroupMail(m, e, g, r) :
                  m \in {d \in Deliverable : d.to \cup {d.from} = Everyone /\ d.from \notin d.to},
                  e \in BOOLEAN, g \in Groups, r \in BOOLEAN}
ListMails == {[m EXCEPT !.list = l] :
                 m \in {d \in Deliverable : d.to = People \ {d.from}}, l \in Lists}
ChannelMail(m, h, s) == [m EXCEPT !.enc = TRUE, !.chat = TRUE, !.list = h, !.secret = s]
ChannelMails == {ChannelMail(m, h, s) :
                    m \in {d \in Deliverable : d.to = {}}, h \in Channels, s \in BOOLEAN}
Garbled == {[m EXCEPT !.error = TRUE] : m \in {d \in Deliverable : d.from # Self /\ d.to = {Self}}}
Reports == {[m EXCEPT !.hidden = TRUE] : m \in {d \in Deliverable : d.from # Self /\ d.to = {Self}}}

Mails == Classic \cup Direct \cup Pgp \cup GroupMails \cup ListMails \cup ChannelMails
         \cup Garbled \cup Reports

Incoming(m) == m.from # Self
FromId(m) == ContactOf(m.from, m.enc)      \* from_field_to_contact_id

(* Chat-Group-Name: sent with every group id. *)
Named(m) == m.grp # Nothing

-----------------------------------------------------------------------------
(* decide_chat_assignment *)
HasSelfAddr(m) == m.enc \/ Self \in m.to
NumRecipients(m) == Cardinality(m.to \ {m.from})
                    + (IF ~m.enc /\ Incoming(m) /\ ~HasSelfAddr(m) THEN 1 ELSE 0)

CanBe11(m) == /\ NumRecipients(m) <= 1
              /\ Incoming(m) \/ ~(m.to = {} \/ HasSelfAddr(m)) \/ m.enc

(* An answer to the sender alone, but for mail programs that answer to a      *)
(* group of two.                                                              *)
IsProbablyPrivateReply(m, c) ==
    /\ m.grp = Nothing
    /\ Cardinality(m.to) = 1
    /\ m.chat \/ ~(Cardinality(c.members) = 2 /\ Me \in c.members)

(* Mutant: an unencrypted answer may go to an encrypted chat. *)
RepliesToAny(m, parent) ==
    /\ parent # 0
    /\ msgs[parent].chat # Trash
    /\ LET c == chats[msgs[parent].chat]
       IN  ~IsProbablyPrivateReply(m, c) /\ ~(c.typ = "single" /\ Cardinality(m.to) > 1)

(* lookup_chat_by_reply: the parent's chat, if this mail may go there. *)
RepliesTo(m, parent) ==
    /\ parent # 0
    /\ msgs[parent].chat # Trash
    /\ LET c == chats[msgs[parent].chat]
       IN  /\ ~IsProbablyPrivateReply(m, c)
           /\ ~(c.typ = "single" /\ Cardinality(m.to) > 1)
           /\ ~(IsEncrypted(c) /\ ~m.enc)

Decided(m, parent) ==
    CASE m.hidden -> "trash"
      [] ~m.hidden /\ m.list # Nothing -> "list"
      [] ~m.hidden /\ m.list = Nothing /\ m.grp # Nothing /\ m.enc -> "group"
      [] OTHER -> IF RepliesTo(m, parent) THEN "existing"
                  ELSE IF Named(m) \/ ~CanBe11(m) THEN "adhoc" ELSE "single"

-----------------------------------------------------------------------------
(* do_chat_assignment.  A partial result is the chats table, the chat found   *)
(* ({} if none), and the blocking the function goes on with.                  *)
Chosen(id) == [chats |-> chats, id |-> {id}, blocked |-> chats[id].blocked]
Trashed == [chats |-> chats, id |-> {Trash}, blocked |-> "Not"]
Undecided == [chats |-> chats, id |-> {}, blocked |-> "Not"]
Created(typ, of, members, blocked, going) ==
    [chats |-> Append(chats, [typ |-> typ, of |-> of, members |-> members, blocked |-> blocked]),
     id |-> {Len(chats) + 1}, blocked |-> going]

ByGrpid(id) == {i \in Ids : chats[i].typ \in {"group", "list", "in", "out"} /\ chats[i].of = id}
OfContact(c) == {i \in Ids : chats[i].typ = "single" /\ chats[i].of = c}   \* lookup_by_contact

AllowCreation(m) == ~m.error /\ ~m.reaction

DefaultBlocked == IF Bot THEN "Not" ELSE "Request"

(* Mutant: a chat that is hidden, but whose contact is not blocked, counts as *)
(* accepted.                                                                  *)
CreateBlockedHidden(from) ==
    IF \E i \in OfContact(from) : chats[i].blocked = "Not" THEN "Not"
    ELSE IF \E i \in OfContact(from) : chats[i].blocked = "Yes"
           THEN (IF from \in banned THEN "Yes" ELSE "Not")
    ELSE DefaultBlocked

(* How a chat that an incoming mail creates is blocked: as the sender's own   *)
(* chat is, unless that is merely hidden by a scanned group invitation.       *)
CreateBlocked(from) ==
    IF \E i \in OfContact(from) : chats[i].blocked = "Not" THEN "Not"
    ELSE IF from \in banned /\ \E i \in OfContact(from) : chats[i].blocked = "Yes" THEN "Yes"
    ELSE DefaultBlocked

InGroup(m, allowed, blocked) ==      \* ChatAssignment::GroupChat, create_group
    IF ByGrpid(m.grp) # {} THEN Chosen(CHOOSE i \in ByGrpid(m.grp) : TRUE)
    ELSE IF ~allowed THEN Undecided
    ELSE IF m.removal THEN Trashed
    ELSE Created("group", m.grp, {Me, FromId(m)} \cup {ContactOf(p, TRUE) : p \in m.to},
                 blocked, blocked)

(* lookup_or_create_adhoc_group works with address-contacts alone.  The       *)
(* members looked for and those a new group gets need not be the same.        *)
AdHocContacts(m) == {ContactOf(p, FALSE) : p \in m.to \cup {m.from}}
                    \ (IF m.enc THEN {Me} ELSE {})
AdHocMembers(m) == (AdHocContacts(m) \ {Me}) \cup (IF m.enc THEN {} ELSE {Me})
AdHocMatches(m) == {i \in Ids : chats[i].typ = "adhoc" /\ chats[i].members = AdHocContacts(m)}

InAdHoc(m, allowed, blocked) ==
    IF m.error THEN {Undecided}
    ELSE IF AdHocMatches(m) # {} THEN {Chosen(i) : i \in AdHocMatches(m)}
    ELSE IF ~allowed THEN {Undecided}
    ELSE IF m.removal THEN {Trashed}
    ELSE {Created("adhoc", Nothing, AdHocMembers(m), blocked, blocked)}

(* create_or_lookup_mailinglist_or_broadcast: who has joined a channel has    *)
(* scanned its code, so it is not a request.                                  *)
InList(m, blocked) ==
    IF ByGrpid(m.list) # {} THEN Chosen(CHOOSE i \in ByGrpid(m.list) : TRUE)
    ELSE IF ~AllowCreation(m) THEN Undecided
    ELSE IF m.enc THEN Created("in", m.list, {FromId(m)}, "Not", blocked)
    ELSE Created("list", m.list, {}, blocked, blocked)

InOwnChannel(m) ==
    IF ByGrpid(m.list) # {}
      THEN [Chosen(CHOOSE i \in ByGrpid(m.list) : TRUE) EXCEPT !.blocked = "Not"]
    ELSE IF m.secret THEN Created("out", m.list, {}, "Not", "Not")
    ELSE Undecided

WithBlocked(r, b) ==      \* ChatId::set_blocked
    [r EXCEPT !.chats = [i \in DOMAIN r.chats |->
                            IF i \in r.id THEN [r.chats[i] EXCEPT !.blocked = b] ELSE r.chats[i]]]

Match(m, parent, decided, allowed, blocked) ==
    CASE decided = "trash" -> {Trashed}
      [] decided = "group" -> {InGroup(m, allowed, blocked)}
      [] decided = "list" -> {IF Incoming(m) THEN InList(m, blocked) ELSE InOwnChannel(m)}
      [] decided = "existing" -> {Chosen(msgs[parent].chat)}
      [] decided = "adhoc" -> InAdHoc(m, allowed, blocked)
      [] decided = "single" -> {Undecided}

(* A chat that was blocked or a request is opened as far as the sender's own. *)
Reopened(decided, r, blocked) ==
    IF r.blocked # "Not" /\ blocked # "Yes" /\ decided # "list" /\ r.id # {}
      THEN [WithBlocked(r, blocked) EXCEPT !.blocked = blocked]
      ELSE r

(* The sender's own chat: its blocking is brought up to date, but the caller  *)
(* goes on with the blocking it had before.                                   *)
InDirect(m, r) ==
    LET from == FromId(m)
        wanted == IF from \in banned THEN "Yes" ELSE DefaultBlocked
        d == IF OfContact(from) # {} THEN Chosen(CHOOSE i \in OfContact(from) : TRUE)
             ELSE IF AllowCreation(m) THEN Created("single", from, {from}, wanted, wanted)
             ELSE Undecided
    IN  IF r.id # {} THEN r
        ELSE IF d.id # {} /\ d.blocked # "Not" THEN WithBlocked(d, wanted)
        ELSE d

AssignIncoming(m, parent) ==
    LET allowed == AllowCreation(m) \/ OfContact(FromId(m)) # {}
        blocked == CreateBlocked(FromId(m))
        decided == Decided(m, parent)
    IN  {InDirect(m, Reopened(decided, r, blocked)) :
            r \in Match(m, parent, decided, allowed, blocked)}

(* Outgoing mails without a chat yet go to the 1:1 chat of the recipient, or  *)
(* to Saved Messages.                                                         *)
ToId(m) == IF m.to = {} THEN Me ELSE ContactOf(m.first, m.enc)

InRecipients(m, r) ==
    LET to == ToId(m)
        d == IF OfContact(to) # {} THEN Chosen(CHOOSE i \in OfContact(to) : TRUE)
             ELSE Created("single", to, {to}, "Not", "Not")
        self_sent == Cardinality(m.to) <= 1 /\ to = Me
    IN  IF r.id # {} THEN r
        ELSE IF m.to # {} /\ AllowCreation(m) THEN d
        ELSE IF m.to # {} /\ m.chat /\ OfContact(to) # {} THEN d
        ELSE IF self_sent THEN d
        ELSE r

AssignOutgoing(m, parent) ==
    {IF r.blocked # "Not" /\ r.id # {} THEN [WithBlocked(r, "Not") EXCEPT !.blocked = "Not"] ELSE r :
        r \in {InRecipients(m, r) : r \in Match(m, parent, Decided(m, parent), AllowCreation(m), "Not")}}

(* add_parts: only the owner writes in a channel, anybody else's mail goes to *)
(* the 1:1 chat.                                                              *)
WrongSender(m, r) ==
    /\ Incoming(m)
    /\ \E i \in r.id \ {Trash} : r.chats[i].typ = "in" /\ FromId(m) \notin r.chats[i].members

Placed(m, r) ==
    LET own == OfContact(FromId(m))
        i == CHOOSE x \in own : TRUE
    IN  IF r.id = {} THEN Trashed
        ELSE IF ~WrongSender(m, r) THEN r
        ELSE IF own # {} THEN [chats |-> r.chats, id |-> {i}, blocked |-> r.chats[i].blocked]
        ELSE [chats |-> Append(r.chats, [typ |-> "single", of |-> FromId(m),
                                         members |-> {FromId(m)}, blocked |-> "Request"]),
              id |-> {Len(r.chats) + 1}, blocked |-> "Request"]

-----------------------------------------------------------------------------
Init == chats = <<>> /\ banned = {} /\ msgs = <<>> /\ actions = 0 /\ welcomed = {}

Received == Cardinality({i \in DOMAIN msgs : msgs[i].received})

(* receive_imf_inner, for a mail that answers `parent` (0: none is known) and *)
(* that the user has read on another device if `seen`.                        *)
receive_imf(m, parent, seen) ==
    /\ seen => Incoming(m)
    /\ \E r \in {Placed(m, x) : x \in IF Incoming(m) THEN AssignIncoming(m, parent)
                                      ELSE AssignOutgoing(m, parent)} :
          LET id == CHOOSE i \in r.id : TRUE
          IN  /\ Len(r.chats) <= MaxChats
              /\ chats' = r.chats
              /\ msgs' = Append(msgs, [chat |-> id, enc |-> m.enc, out |-> ~Incoming(m),
                                       shown |-> ~seen /\ r.blocked # "Yes", read |-> seen,
                                       received |-> TRUE])
              /\ welcomed' = IF \/ ~Incoming(m)
                                \/ \E i \in OfContact(FromId(m)) : chats[i].blocked = "Not"
                               THEN welcomed \cup ({id} \ {Trash}) ELSE welcomed
    /\ UNCHANGED <<banned, actions>>

(* send_msg: possible in accepted chats only; encrypted where the chat is.    *)
send_msg(id) ==
    /\ Len(msgs) - Received < MaxSent
    /\ chats[id].typ \in {"single", "group", "adhoc", "out"} /\ chats[id].blocked = "Not"
    /\ msgs' = Append(msgs, [chat |-> id, enc |-> IsEncrypted(chats[id]), out |-> TRUE,
                             shown |-> FALSE, read |-> TRUE, received |-> FALSE])
    /\ UNCHANGED <<chats, banned, actions, welcomed>>

Act == actions < MaxActions /\ actions' = actions + 1

SetBlocked(ids, b) == [i \in Ids |-> IF i \in ids THEN [chats[i] EXCEPT !.blocked = b] ELSE chats[i]]

accept(id) ==
    /\ Act
    /\ chats[id].typ # "deleted"
    /\ chats' = SetBlocked({id}, "Not")
    /\ welcomed' = welcomed \cup {id}
    /\ UNCHANGED <<banned, msgs>>

Deleted(id) == [chats EXCEPT ![id] = [typ |-> "deleted", of |-> Nothing, members |-> {},
                                      blocked |-> "Yes"]]
MovedToTrash(id) == [i \in DOMAIN msgs |-> IF msgs[i].chat = id THEN [msgs[i] EXCEPT !.chat = Trash]
                                           ELSE msgs[i]]

delete(id) ==
    /\ Act
    /\ chats[id].typ # "deleted"
    /\ chats' = Deleted(id)
    /\ msgs' = MovedToTrash(id)
    /\ welcomed' = welcomed \ {id}
    /\ UNCHANGED banned

(* contact::set_blocked also sets the 1:1 chats. *)
BlockContact(c) ==
    /\ c \notin banned
    /\ banned' = banned \cup {c}
    /\ chats' = SetBlocked(OfContact(c), "Yes")
    /\ UNCHANGED <<msgs, welcomed>>

block_contact(c) == Act /\ BlockContact(c)

unblock_contact(c) ==
    /\ Act
    /\ c \in banned
    /\ banned' = banned \ {c}
    /\ chats' = SetBlocked(OfContact(c), "Not")
    /\ welcomed' = welcomed \cup OfContact(c)
    /\ UNCHANGED msgs

(* ChatId::block: 1:1 chats through the contact, groups are deleted. *)
block(id) ==
    /\ Act
    /\ \/ chats[id].typ = "single" /\ chats[id].of # Me /\ BlockContact(chats[id].of)
       \/ /\ chats[id].typ \in {"list", "in"}
          /\ chats' = SetBlocked({id}, "Yes")
          /\ UNCHANGED <<banned, msgs, welcomed>>
       \/ /\ chats[id].typ \in {"group", "adhoc"}
          /\ chats' = Deleted(id)
          /\ msgs' = MovedToTrash(id)
          /\ welcomed' = welcomed \ {id}
          /\ UNCHANGED banned

(* create_for_contact_with_blocked, for a chat the user opens, or hidden for  *)
(* the handshake after the user has scanned a group's or channel's code.      *)
create_for_contact(c, blocked) ==
    /\ Act
    /\ IF OfContact(c) # {}
         THEN /\ chats' = IF blocked = "Not" THEN SetBlocked(OfContact(c), "Not") ELSE chats
              /\ welcomed' = IF blocked = "Not" THEN welcomed \cup OfContact(c) ELSE welcomed
         ELSE /\ Len(chats) < MaxChats
              /\ chats' = Append(chats, [typ |-> "single", of |-> c, members |-> {c},
                                         blocked |-> blocked])
              /\ welcomed' = IF blocked = "Not" THEN welcomed \cup {Len(chats) + 1} ELSE welcomed
    /\ UNCHANGED <<banned, msgs>>

(* create_group_ex, create_out_broadcast_ex: the user's own groups and channels. *)
create_multiuser(typ, id) ==
    /\ Act
    /\ ByGrpid(id) = {} /\ Len(chats) < MaxChats
    /\ chats' = Append(chats, [typ |-> typ, of |-> id, members |-> {Me}, blocked |-> "Not"])
    /\ welcomed' = welcomed \cup {Len(chats) + 1}
    /\ UNCHANGED <<banned, msgs>>

Next == \/ /\ Received < MaxMails
           /\ \E m \in Mails, parent \in 0..Len(msgs), seen \in BOOLEAN : receive_imf(m, parent, seen)
        \/ \E id \in Ids : send_msg(id) \/ accept(id) \/ delete(id) \/ block(id)
        \/ \E c \in Contacts : block_contact(c) \/ unblock_contact(c) \/ create_for_contact(c, "Not")
        \/ \E p \in People : create_for_contact(Key(p), "Yes")
        \/ \E g \in Groups : create_multiuser("group", g)
        \/ \E h \in Channels : create_multiuser("out", h)

Spec == Init /\ [][Next]_vars

-----------------------------------------------------------------------------
TypeOK ==
    /\ Len(chats) <= MaxChats
    /\ \A id \in Ids : chats[id].typ \in Types /\ chats[id].blocked \in Blocking
    /\ banned \subseteq Contacts /\ welcomed \subseteq Ids
    /\ \A i \in DOMAIN msgs : msgs[i].chat \in Ids \cup {Trash}

(* A mail that was not encrypted never shows up in an encrypted chat, however *)
(* it is addressed and whatever it answers: not in the chat with a            *)
(* key-contact, a group with an id or a channel.  Saved Messages is left out: *)
(* the user's own mail to a list without recipients lands there.              *)
NoPlainInEncrypted ==
    \A i \in DOMAIN msgs :
       LET id == msgs[i].chat
       IN  id # Trash /\ ~Saved(id) /\ IsEncrypted(chats[id]) => msgs[i].enc

(* Only the user opens the door: a chat is no longer a request, or was never  *)
(* one, only if he accepted it or wrote in it, or if somebody wrote in it     *)
(* whose own chat he had accepted then.  Channels he joined are open.         *)
OnlyWelcome ==
    ~Bot => \A id \in Ids : chats[id].blocked = "Not" /\ chats[id].typ # "in" => id \in welcomed

(* A message that arrives as already seen was read on another device or went  *)
(* to a chat that is blocked.  Does not hold, see the README.                 *)
SeenIsReadOrBlocked ==
    [][\A i \in DOMAIN msgs' \ DOMAIN msgs :
          ~msgs'[i].shown /\ ~msgs'[i].read /\ ~msgs'[i].out /\ msgs'[i].chat # Trash
          => chats'[msgs'[i].chat].blocked = "Yes"]_vars
=============================================================================

---------------------------- MODULE KeyContacts ----------------------------
(***************************************************************************)
(* Migration 132, which turns contacts known by their address into         *)
(* contacts known by their key, and the rewriting of old messages that     *)
(* follows in batches (migrate_key_contacts and msgs_to_key_contacts of    *)
(* src/sql/migrations.rs).  The new contact of a key is the key itself,    *)
(* since fingerprints are looked up before a contact is inserted.  Every   *)
(* address has one contact.  One chat is followed: what happens to a chat  *)
(* does not depend on the other ones.                                      *)
(***************************************************************************)
EXTENDS Naturals, Sequences, FiniteSets, SequencesExt

CONSTANTS People,    \* the contacts there are before, each with its address
          Keys,
          NoKey,     \* a key that is not known
          Self,      \* ContactId::SELF
          Nobody,    \* an empty verifier, or verifier = 0
          Msgs,      \* ids of the encrypted messages of the chat are 1..Msgs
          Batch      \* messages that are rewritten in one transaction

VARIABLES peer,      \* peerstates: those that exist, newest last_seen first
          chatmail,  \* the is_chatmail setting
          chat,      \* type, grpid, protected, and the rows of chats_contacts in order
          addrOf,    \* the address of each key-contact that was inserted
          verifier,  \* contacts.verifier of the key-contacts
          hidden,    \* contacts whose origin is set to hidden
          map,       \* key_contacts_map
          first,     \* first_key_contacts_msg_id
          from,      \* from[i]: msgs.from_id
          wrote,     \* history: the senders of the messages
          before,    \* history: the chat as it was
          pc
vars == <<peer, chatmail, chat, addrOf, verifier, hidden, map, first, from, wrote, before, pc>>

\* A peerstate has a key, perhaps reset, and may have verified keys with their verifier.
Peerstates ==
  {p \in [of : People, key : Keys \union {NoKey}, reset : BOOLEAN, verified : Keys \union {NoKey},
          by : People \union {Self, Nobody}, second : Keys \union {NoKey}] :
     /\ p.key = NoKey => ~p.reset /\ p.verified = NoKey
     /\ p.verified = NoKey => p.by = Nobody /\ p.second = NoKey}
\* Lists of up to two: peerstates of different people in the order of last_seen, or rows.
UpToTwo(S, Id(_)) == {<< >>} \union {<<p>> : p \in S} \union {s \in S \X S : Id(s[1]) # Id(s[2])}
Peers(S) == UpToTwo(S, LAMBDA p : p.of)
\* A row of chats_contacts; `in' is add_timestamp >= remove_timestamp, `add' ranks the former.
MemberLists == UpToTwo([id : People, add : {0, 1}, in : BOOLEAN], LAMBDA r : r.id)
Chats == {c \in [type : {"single", "group", "list", "channel"}, grpid : BOOLEAN,
                 protected : BOOLEAN, rows : MemberLists] :
            /\ c.type # "group" => ~c.grpid /\ ~c.protected
            /\ c.protected => c.grpid
            /\ c.type = "single" => Len(c.rows) <= 1 /\ \A r \in ToSet(c.rows) : r.in
            /\ Len(c.rows) = 1 => c.rows[1].add = 0
            /\ Len(c.rows) = 2 => c.rows[1].add # c.rows[2].add}

----------------------------------------------------------------------------
(* Step 2: the new contacts.  Rows without a key are skipped. *)
Keyed == SelectSeq(peer, LAMBDA p : p.key # NoKey)
Find(p, x) == {q \in ToSet(p) : q.of = x}
AutocryptContact(x) == {q.key : q \in {r \in Find(Keyed, x) : ~r.reset}}
ResetContact(x) == {q.key : q \in {r \in Find(Keyed, x) : r.reset}}
VerifiedContact(x) == {q.verified : q \in Find(Keyed, x)} \ {NoKey}

\* The secondary verified key is read from the column of the verified one.
SecondKey(p) == p.verified
Inserted(p) == <<p.key>> \o (IF p.verified = NoKey THEN << >>
                             ELSE <<p.verified>> \o (IF SecondKey(p) = NoKey THEN << >>
                                                     ELSE <<SecondKey(p)>>))
\* insert_contact: the first peerstate that mentions a key gives its contact an address.
AddrOf == FoldLeft(LAMBDA f, p : [k \in DOMAIN f \union ToSet(Inserted(p)) |->
                                    IF k \in DOMAIN f THEN f[k] ELSE p.of],
                   [k \in {} |-> Nobody], Keyed)

\* `verifications': the last peerstate with the key says who verified it.
SaysWho(p) == IF p.by \in {p.of, Self} THEN Self
              ELSE IF p.by = Nobody THEN p.verified ELSE p.by
Verifications == FoldLeft(LAMBDA f, p : IF p.verified = NoKey THEN f
                            ELSE [k \in DOMAIN f \union {p.verified} |->
                                    IF k = p.verified THEN SaysWho(p) ELSE f[k]],
                          [k \in {} |-> Nobody], Keyed)
\* A verifier is replaced by the contact of its verified key; without one the mark is lost.
NewVerifier(k) ==
  IF k \notin DOMAIN Verifications THEN Nobody
  ELSE LET v == Verifications[k]
       IN IF v \in {Self, k} THEN v
          ELSE IF VerifiedContact(v) # {} THEN CHOOSE w \in VerifiedContact(v) : TRUE ELSE Nobody

----------------------------------------------------------------------------
(* Step 3: the members of the chat. *)
MapToKeyContact(x) == IF AutocryptContact(x) # {} THEN AutocryptContact(x)
                      ELSE IF chatmail THEN ResetContact(x) ELSE {}
AnyContact(x) == IF AutocryptContact(x) # {} THEN AutocryptContact(x) ELSE ResetContact(x)

\* The contact that replaces member x, a set with at most one element.
NewMember(x) == CASE chat.type = "single" -> MapToKeyContact(x)
                  [] chat.type = "group" /\ chat.protected -> VerifiedContact(x)
                  [] chat.type = "group" /\ ~chat.protected -> MapToKeyContact(x)
                  [] chat.type = "channel" -> AnyContact(x)

KeepsAddresses ==
  \/ chat.type = "list"
  \/ chat.type = "single" /\ \E m \in ToSet(chat.rows) :
        NewMember(m.id) = {} \/ \E k \in NewMember(m.id) : AddrOf[k] # m.id
  \/ chat.type = "group" /\ ~chat.grpid
  \/ chat.type = "group" /\ \E m \in ToSet(chat.rows) : m.in /\ NewMember(m.id) = {}
\* A plausible bug: the new row is renamed although there is one already.
ReplaceAnyway(rows, old, new) ==
  [i \in DOMAIN rows |-> IF rows[i].id = old THEN [rows[i] EXCEPT !.id = new] ELSE rows[i]]
\* UPDATE chats_contacts SET contact_id=new; of two rows for one contact the one that is in
\* the chat, and else the newer one, is kept.
Older(a, b) == IF a.in # b.in THEN ~a.in ELSE a.add < b.add
Replace(rows, old, new) ==
  LET o == CHOOSE r \in ToSet(rows) : r.id = old
      n == CHOOSE r \in ToSet(rows) : r.id = new
      renamed(s) == [i \in DOMAIN s |-> IF s[i].id = old THEN [s[i] EXCEPT !.id = new] ELSE s[i]]
  IN IF \A r \in ToSet(rows) : r.id # new THEN renamed(rows)
     ELSE renamed(SelectSeq(rows, LAMBDA r : r.id # (IF Older(n, o) THEN new ELSE old)))
Migrated(rows, m) == IF NewMember(m.id) = {} THEN SelectSeq(rows, LAMBDA r : r.id # m.id)
                     ELSE Replace(rows, m.id, CHOOSE k \in NewMember(m.id) : TRUE)

NewRows == IF KeepsAddresses THEN chat.rows ELSE FoldLeft(Migrated, chat.rows, chat.rows)
\* Contacts that remain in no chat.
Kept == IF KeepsAddresses THEN {m.id : m \in ToSet(chat.rows)}
        ELSE UNION {NewMember(m.id) : m \in ToSet(chat.rows)}

----------------------------------------------------------------------------
Init ==
  /\ \/ /\ peer \in Peers({p \in Peerstates : p.by = Nobody /\ p.second = NoKey})
        /\ chatmail \in BOOLEAN /\ chat \in Chats
        /\ from = [i \in 1..Msgs |-> CHOOSE x \in People : TRUE]
     \/ /\ peer \in Peers({p \in Peerstates : ~p.reset})
        /\ chatmail = FALSE /\ chat = CHOOSE c \in Chats : c.protected /\ Len(c.rows) = 2
        /\ from \in [1..Msgs -> People]
  /\ wrote = from /\ before = chat
  /\ addrOf = [k \in {} |-> Nobody] /\ verifier = addrOf /\ hidden = {} /\ map = addrOf
  /\ first = 0 /\ pc = "old"

(* The whole of migrate_key_contacts is one transaction.  Steps 4 and 5    *)
(* hide the contacts that are in no chat and note which messages are to be *)
(* rewritten.                                                              *)
Migrate ==
  /\ pc = "old" /\ pc' = "rewriting"
  /\ addrOf' = AddrOf
  /\ verifier' = [k \in DOMAIN AddrOf |-> NewVerifier(k)]
  /\ chat' = [chat EXCEPT !.rows = NewRows,
                          !.grpid = @ /\ ~(chat.type = "group" /\ KeepsAddresses),
                          !.protected = @ /\ ~KeepsAddresses]
  /\ hidden' = (People \union DOMAIN AddrOf) \ Kept
  /\ map' = [x \in {x \in People : AnyContact(x) # {}} |-> CHOOSE k \in AnyContact(x) : TRUE]
  /\ first' = IF Msgs = 0 THEN 0 ELSE Msgs + 1
  /\ UNCHANGED <<peer, chatmail, from, wrote, before>>

\* A plausible bug: the first message of a batch is left to the next one.
BetweenIds(i, start, end) == start < i /\ i < end
\* WHERE id>=? AND id<?
InBatch(i, start, end) == start <= i /\ i < end
(* A transaction of msgs_to_key_contacts, in housekeeping; the process may *)
(* end before the next one.                                                *)
Rewrite ==
  /\ pc = "rewriting" /\ first > 0
  /\ LET start == IF first > Batch THEN first - Batch ELSE 0
     IN /\ from' = [i \in DOMAIN from |-> IF InBatch(i, start, first) /\ from[i] \in DOMAIN map
                                          THEN map[from[i]] ELSE from[i]]
        /\ first' = start
  /\ UNCHANGED <<peer, chatmail, chat, addrOf, verifier, hidden, map, wrote, before, pc>>
Next == Migrate \/ Rewrite
Spec == Init /\ [][Next]_vars

----------------------------------------------------------------------------
MemberIds == {r.id : r \in ToSet(chat.rows)}

(* After the migration a chat has either key-contacts or address-contacts, *)
(* never both, and key-contacts if it is protected ("Otherwise we get      *)
(* protected chat with address-contact(s)"); nobody is in it twice; a 1:1  *)
(* chat is still with the same address; whoever was in a group is still in *)
(* it, as themselves or with one of their keys; and a contact is hidden    *)
(* exactly if it is in no chat.                                            *)
ChatsMigrated ==
  pc = "rewriting" =>
    /\ MemberIds \subseteq People \/ MemberIds \subseteq Keys
    /\ chat.protected => MemberIds \subseteq Keys
    /\ Cardinality(MemberIds) = Len(chat.rows)
    /\ chat.type = "single" =>
         {IF x \in People THEN x ELSE addrOf[x] : x \in MemberIds} = {r.id : r \in ToSet(before.rows)}
    /\ chat.type = "group" => \A r \in ToSet(before.rows) :
         r.in => \E t \in ToSet(chat.rows) :
                   t.in /\ t.id \in {r.id} \union UNION {{p.key, p.verified} : p \in Find(peer, r.id)}
    /\ hidden = (People \union DOMAIN addrOf) \ MemberIds

(* However often the rewriting is interrupted, the messages it has passed  *)
(* are from the contact that has the sender's key, if there is one, and    *)
(* the other ones are still from the sender: none is left out between two  *)
(* batches.                                                                *)
MessagesRewritten ==
  pc = "rewriting" =>
    \A i \in DOMAIN from : from[i] = IF i >= first /\ wrote[i] \in DOMAIN map
                                     THEN map[wrote[i]] ELSE wrote[i]

(* "Create up to 3 new contacts for every contact that has a peerstate:    *)
(* one from the Autocrypt key fingerprint, one from the verified key       *)
(* fingerprint, one from the secondary verified key fingerprint"           *)
(* (src/sql/migrations.rs).  Does not hold, see the README.                *)
EveryKeyHasContact ==
  pc = "rewriting" => \A p \in ToSet(peer) :
    {p.key, p.verified, p.second} \ {NoKey} \subseteq DOMAIN addrOf
=============================================================================

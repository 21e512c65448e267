------------------------------ MODULE Contacts ------------------------------
(***************************************************************************)
(* The contacts table as far as identity and verification go               *)
(* (src/contact.rs, has_verified_encryption and mark_recipients_as_        *)
(* verified of src/receive_imf.rs).                                        *)
(*                                                                         *)
(* Contact ids grow and are never reused (AUTOINCREMENT).  A contact is    *)
(* verified by SELF, by another contact, or by nobody known, which is      *)
(* stored as the contact's own id.  Every write is one transaction; what   *)
(* was read before it may be stale by then, so the marks that follow from  *)
(* a received message wait in `marks' and are executed one by one.         *)
(* Names, addresses and origins are left out: nothing below depends on     *)
(* them.  The last-seen column and its loop are in LastSeen.               *)
(***************************************************************************)
EXTENDS Naturals, FiniteSets

CONSTANTS Keys,        \* fingerprints of other people's keys
          MaxId,       \* bound on contact ids
          MaxMessages, \* bound on received messages
          NoKey        \* the empty fingerprint of an address-contact

ASSUME ContactsAssumption == /\ MaxId \in Nat /\ MaxId > 9
                             /\ MaxMessages \in Nat
                             /\ NoKey \notin Keys

VARIABLES row,       \* row[id]: the row of the contact, Absent if there is none
          present,   \* the ids that have a row
          nextId,    \* the next id SQLite hands out
          since,     \* history: since[id], the length of the chain when a verifier became known
          marks,     \* <<contact, verifier>> pairs a received message still has to mark
          messages   \* messages received so far


vars == <<row, present, nextId, since, marks, messages>>

Undefined == 0                \* ContactId::UNDEFINED
Self == 1                     \* ContactId::SELF
LastSpecial == 9              \* ContactId::LAST_SPECIAL
Ids == (LastSpecial + 1)..MaxId

Contact == [key : Keys \union {NoKey}, verifier : {Undefined, Self} \union Ids,
            inChat : BOOLEAN]
Absent == [key |-> NoKey, verifier |-> Undefined, inChat |-> FALSE]


Verified(c) == row[c].verifier # Undefined
UnknownVerifier(c) == row[c].verifier = c
KnownVerifier(c) == Verified(c) /\ ~UnknownVerifier(c)

Init ==
  /\ row = [c \in Ids |-> Absent] /\ present = {} /\ nextId = LastSpecial + 1
  /\ since = [c \in Ids |-> 0]
  /\ marks = {} /\ messages = 0

----------------------------------------------------------------------------
\* add_or_lookup_ex: a key-contact is found by its fingerprint, an address-contact by its
\* address (there is one address here); otherwise a row is inserted.
AddOrLookup(k) ==
  /\ ~\E c \in present : row[c].key = k
  /\ nextId \in Ids
  /\ row' = [row EXCEPT ![nextId] = [key |-> k, verifier |-> Undefined, inChat |-> FALSE]]
  /\ present' = present \union {nextId}
  /\ nextId' = nextId + 1
  /\ UNCHANGED <<since, marks, messages>>

\* Contact::delete: the row goes if no chat has the contact, otherwise it is only hidden.
\* Verifier columns that name the contact are left as they are.
Delete(c) ==
  /\ c \in present /\ ~row[c].inChat
  /\ present' = present \ {c}
  /\ row' = [row EXCEPT ![c] = Absent]
  /\ since' = [since EXCEPT ![c] = 0]
  /\ UNCHANGED <<nextId, marks, messages>>

\* The contact becomes a member of some chat.
EnterChat(c) ==
  /\ c \in present /\ ~row[c].inChat
  /\ row' = [row EXCEPT ![c] = [key |-> row[c].key, verifier |-> row[c].verifier,
                                inChat |-> TRUE]]
  /\ UNCHANGED <<nextId, since, marks, messages, present>>

\* A received message: it is taken as verified if it comes from our other device or from a
\* verified contact (has_verified_encryption), and then every gossiped key marked as
\* verified whose contact is neither SELF nor the sender will be marked
\* (mark_recipients_as_verified).  A message of ours names no verifier.
Receive(from, gossiped) ==
  /\ messages < MaxMessages /\ marks = {}
  /\ from = Self \/ (from \in present /\ row[from].key # NoKey /\ Verified(from))
  /\ messages' = messages + 1
  /\ marks' = {<<c, from>> : c \in {d \in present : row[d].key \in gossiped /\ d # from}}
  /\ UNCHANGED <<row, nextId, since, present>>

\* A plausible bug: the chain behind the verifier is not looked at.
VerifierAsIs(c, v) == IF v = Undefined THEN c ELSE v

\* verifier_id.unwrap_or(contact_id), and the contact itself again if the verifier has no
\* known verifier: he may owe it to this contact.
VerifierFor(c, v) == IF v = Undefined \/ v = c THEN c
                     ELSE IF v # Self /\ UnknownVerifier(v) THEN c ELSE v

\* UPDATE ... WHERE id=? AND (verifier=0 OR verifier=id OR by_self)
MayOverwrite(c, v) == ~Verified(c) \/ UnknownVerifier(c) \/ v = Self

\* The checks of the transaction: both are key-contacts and the verifier is verified.
MarkAllowed(c, v) ==
  /\ c \in present /\ row[c].key # NoKey
  /\ v \notin {Undefined, Self} => v \in present /\ row[v].key # NoKey /\ Verified(v)

\* The length of the chain through v, kept when the contact had a known verifier already.
Rank(c, w) == IF KnownVerifier(c) THEN since[c]
              ELSE IF w = c THEN 0 ELSE IF w = Self THEN 1 ELSE since[w] + 1

SetVerifier(c, v) ==
  /\ MayOverwrite(c, v)
  /\ row' = [row EXCEPT ![c] = [key |-> row[c].key, verifier |-> VerifierFor(c, v),
                                inChat |-> row[c].inChat]]
  /\ since' = [since EXCEPT ![c] = Rank(c, VerifierFor(c, v))]

\* mark_contact_id_as_verified(contact, Some(SELF)): after a QR code was scanned.
MarkVerifiedBySelf(c) ==
  /\ MarkAllowed(c, Self)
  /\ SetVerifier(c, Self)
  /\ UNCHANGED <<nextId, marks, messages, present>>

\* mark_contact_id_as_verified for one gossiped key of the message being received; an error
\* ends the loop over the gossiped keys.
MarkRecipient(c, from) ==
  LET v == IF from = Self THEN Undefined ELSE from
  IN /\ <<c, from>> \in marks
     /\ IF ~MarkAllowed(c, v) THEN marks' = {} /\ UNCHANGED <<row, since>>
        ELSE /\ marks' = marks \ {<<c, from>>}
             /\ IF MayOverwrite(c, v) THEN SetVerifier(c, v) ELSE UNCHANGED <<row, since>>
     /\ UNCHANGED <<nextId, messages, present>>

Next ==
  \/ \E k \in Keys \union {NoKey} : AddOrLookup(k)
  \/ \E c \in present : Delete(c) \/ EnterChat(c) \/ MarkVerifiedBySelf(c)
  \/ \E from \in present \union {Self}, g \in SUBSET Keys : Receive(from, g)
  \/ \E m \in marks : MarkRecipient(m[1], m[2])

Spec == Init /\ [][Next]_vars

----------------------------------------------------------------------------
TypeOK ==
  /\ row \in [Ids -> Contact] /\ present \subseteq Ids
  /\ nextId \in (LastSpecial + 1)..(MaxId + 1)
  /\ since \in [Ids -> Nat]
  /\ marks \subseteq Ids \X ({Self} \union Ids)
  /\ messages \in 0..MaxMessages

(* Verifier chains end: no group of contacts owes its verifications to one *)
(* another in a circle, whatever contacts are marked, re-marked, deleted   *)
(* and created anew, and in whatever order.  This is what the "incorrect   *)
(* reverse chains" guard of mark_contact_id_as_verified is for.            *)
VerifierChainsEnd ==
  ~\E S \in SUBSET present : S # {} /\ \A c \in S : row[c].verifier \in S \ {c}
=============================================================================

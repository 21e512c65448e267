------------------------------ MODULE OwnProofs ------------------------------
(***************************************************************************)
(* What the devices of a user keep of other people and of each other: the  *)
(* verifiers of contacts (Contacts), the relays with the key that lists    *)
(* them (Transports), a call as the devices of both sides see it (Calls)   *)
(* and the senders of old messages (KeyContacts); and that all parts of    *)
(* MCOwn, also those of DeviceProofs, have the properties checked there.   *)
(***************************************************************************)
EXTENDS MCOwn, DeviceProofs

-----------------------------------------------------------------------------
(* Contacts.  Verification chains end, for any number of keys, contacts and   *)
(* messages.                                                                  *)
(*                                                                            *)
(* That no circle exists says nothing of how a step could close one, so it is *)
(* not inductive.  Two facts are: a contact with a known verifier keeps one   *)
(* for as long as its row exists, and the chain of its verifier was shorter   *)
(* than its own when the verifier was written.  `since' records these         *)
(* lengths; a circle would have no shortest one.                              *)

\* KnownVerifier(d) in the table r.
Known(r, d) == r[d].verifier # Undefined /\ r[d].verifier # d

\* The verifier of d, if it is still among p, was known before d owed anything to it.
Earlier(r, s, p, d) ==
  Known(r, d) /\ r[d].verifier \in p => Known(r, r[d].verifier) /\ s[r[d].verifier] < s[d]

ChainInv == \A d \in present : Earlier(row, since, present, d)

\* Ids are not handed out twice: nothing refers to a contact that does not exist yet.
IdInv == \A d \in present : d < nextId /\ row[d].verifier < nextId

Inv == TypeOK /\ ChainInv /\ IdInv

----------------------------------------------------------------------------
LEMMA IdsAreNumbers == Ids \subseteq Nat /\ Self \notin Ids /\ Undefined \notin Ids
  BY ContactsAssumption DEF Ids, LastSpecial, Self, Undefined

LEMMA KnownOrNot ==
  ASSUME NEW c, NEW v
  PROVE  /\ KnownVerifier(c) <=> Known(row, c)
         /\ MayOverwrite(c, v) <=> ~Known(row, c) \/ v = Self
         /\ Verified(c) /\ ~UnknownVerifier(c) <=> Known(row, c)
  BY DEF KnownVerifier, MayOverwrite, Verified, UnknownVerifier, Known

LEMMA InitInv == Init => Inv
<1> SUFFICES ASSUME Init PROVE Inv
  OBVIOUS
<1>1. TypeOK
  BY ContactsAssumption DEF Init, TypeOK, Contact, Absent, Ids, LastSpecial, Undefined, Self
<1>2. ChainInv /\ IdInv
  BY DEF Init, ChainInv, IdInv
<1> QED BY <1>1, <1>2 DEF Inv

\* The contact a transaction writes gets a verifier that exists, with a shorter chain.
LEMMA VerifierWritten ==
  ASSUME Inv, NEW c \in Ids, NEW v \in {Undefined, Self} \cup Ids,
         MarkAllowed(c, v), MayOverwrite(c, v)
  PROVE  /\ VerifierFor(c, v) \in {Self} \cup Ids /\ VerifierFor(c, v) < nextId
         /\ \/ VerifierFor(c, v) = c /\ ~Known(row, c)
            \/ VerifierFor(c, v) = Self
            \/ /\ VerifierFor(c, v) # c /\ VerifierFor(c, v) \in present
               /\ Known(row, VerifierFor(c, v)) /\ ~Known(row, c)
<1> USE IdsAreNumbers
<1>0. Undefined # Self /\ c # Self
  BY DEF Undefined, Self
<1>1. c \in present /\ c < nextId
  BY DEF MarkAllowed, Inv, IdInv
<1>2. Self < nextId
  BY ContactsAssumption DEF Inv, TypeOK, LastSpecial, Self
<1>3. CASE v = Undefined \/ v = c
  <2>1. ~Known(row, c)
    BY <1>0, <1>3, KnownOrNot
  <2>2. VerifierFor(c, v) = c
    BY <1>3 DEF VerifierFor
  <2> QED BY <1>1, <2>1, <2>2
<1>4. CASE v = Self
  <2>1. VerifierFor(c, v) = Self
    BY <1>0, <1>4 DEF VerifierFor
  <2> QED BY <1>2, <2>1
<1>5. CASE v \in Ids /\ v # c
  <2>1. v \in present /\ Verified(v) /\ v < nextId
    BY <1>5 DEF MarkAllowed, Inv, IdInv
  <2>2. ~Known(row, c)
    BY <1>5, KnownOrNot
  <2>3. CASE UnknownVerifier(v)
    <3>1. VerifierFor(c, v) = c
      BY <1>5, <2>3 DEF VerifierFor
    <3> QED BY <1>1, <2>2, <3>1
  <2>4. CASE ~UnknownVerifier(v)
    <3>1. VerifierFor(c, v) = v
      BY <1>5, <2>4 DEF VerifierFor
    <3>2. Known(row, v)
      BY <2>1, <2>4, KnownOrNot
    <3> QED BY <1>5, <2>1, <2>2, <3>1, <3>2
  <2> QED BY <2>3, <2>4
<1> QED BY <1>3, <1>4, <1>5

\* mark_contact_id_as_verified preserves the chains, whoever the verifier is.
LEMMA SetVerifierInv ==
  ASSUME Inv, NEW c \in Ids, NEW v \in {Undefined, Self} \cup Ids,
         MarkAllowed(c, v), SetVerifier(c, v),
         UNCHANGED <<present, nextId, messages>>,
         marks' \subseteq marks
  PROVE  Inv'
<1> USE IdsAreNumbers
<1> DEFINE w == VerifierFor(c, v)
           r == Rank(c, w)
<1>1. MayOverwrite(c, v) /\ c \in present
  BY DEF SetVerifier, MarkAllowed
<1>2. /\ w \in {Self} \cup Ids /\ w < nextId
      /\ \/ w = c /\ ~Known(row, c)
         \/ w = Self
         \/ w # c /\ w \in present /\ Known(row, w) /\ ~Known(row, c)
  BY <1>1, VerifierWritten
<1>3. /\ row' = [row EXCEPT ![c] = [key |-> row[c].key, verifier |-> w, inChat |-> row[c].inChat]]
      /\ since' = [since EXCEPT ![c] = r]
  BY DEF SetVerifier
<1>4. /\ row[c] \in Contact /\ row \in [Ids -> Contact] /\ since \in [Ids -> Nat]
      /\ present \subseteq Ids
  BY DEF Inv, TypeOK
<1> HIDE DEF w
<1>5. r = IF Known(row, c) THEN since[c]
          ELSE IF w = c THEN 0 ELSE IF w = Self THEN 1 ELSE since[w] + 1
  BY KnownOrNot DEF Rank
<1> HIDE DEF r
<1>6. r \in Nat
  <2>1. \A x \in Ids : since[x] \in Nat
    BY ONLY <1>4
  <2>2. CASE Known(row, c)
    BY <1>5, <2>1, <2>2
  <2>3. CASE ~Known(row, c) /\ w \in {c, Self}
    BY <1>5, <2>3
  <2>4. CASE ~Known(row, c) /\ w \in Ids \ {c}
    <3>1. r = since[w] + 1
      BY <1>5, <2>4
    <3>2. since[w] \in Nat
      BY <2>1, <2>4
    <3> QED BY ONLY <3>1, <3>2
  <2> QED BY <1>2, <2>2, <2>3, <2>4
<1>7. Known(row, c) => r = since[c] /\ w = Self
  BY <1>2, <1>5
<1>8. TypeOK'
  <2>1. [key |-> row[c].key, verifier |-> w, inChat |-> row[c].inChat] \in Contact
    BY <1>2, <1>4 DEF Contact
  <2> QED BY <1>3, <1>4, <1>6, <2>1 DEF Inv, TypeOK
<1>9. /\ row'[c].verifier = w /\ since'[c] = r
      /\ \A d \in Ids \ {c} : row'[d] = row[d] /\ since'[d] = since[d]
  BY <1>3, <1>4
<1>10. IdInv'
  BY <1>2, <1>4, <1>9 DEF Inv, IdInv
<1>11. ChainInv'
  <2> SUFFICES ASSUME NEW d \in present,
                      Known(row', d), row'[d].verifier \in present
               PROVE  Known(row', row'[d].verifier) /\ since'[row'[d].verifier] < since'[d]
    BY DEF ChainInv, Earlier
  <2>1. CASE d = c
    <3>1. w \in present /\ w # c
      BY <1>9, <2>1 DEF Known
    <3>2. Known(row, w) /\ r = since[w] + 1
      BY <1>2, <1>5, <1>4, <3>1
    <3>3. row'[w] = row[w] /\ since'[w] = since[w] /\ since[w] \in Nat
      BY <1>4, <1>9, <3>1
    <3> QED BY <1>9, <2>1, <3>1, <3>2, <3>3 DEF Known
  <2>2. CASE d # c
    <3> DEFINE u == row[d].verifier
    <3>1. row'[d] = row[d] /\ since'[d] = since[d] /\ Known(row, d) /\ u \in present
      BY <1>4, <1>9, <2>2 DEF Known
    <3>2. Known(row, u) /\ since[u] < since[d]
      BY <3>1 DEF Inv, ChainInv, Earlier
    <3>3. CASE u = c
      <4>1. w = Self /\ r = since[c] /\ c # Self
        BY <1>7, <3>2, <3>3
      <4> QED BY <1>9, <3>1, <3>2, <3>3, <4>1 DEF Known, Self, Undefined
    <3>4. CASE u # c
      <4>1. row'[u] = row[u] /\ since'[u] = since[u]
        BY <1>4, <1>9, <3>1, <3>4
      <4> QED BY <3>1, <3>2, <4>1 DEF Known
    <3> QED BY <3>3, <3>4
  <2> QED BY <2>1, <2>2
<1> QED BY <1>8, <1>10, <1>11 DEF Inv

----------------------------------------------------------------------------
LEMMA AddOrLookupInv ==
  ASSUME Inv, NEW k \in Keys \cup {NoKey}, AddOrLookup(k) PROVE Inv'
<1> USE IdsAreNumbers
<1>1. /\ nextId \in Ids /\ nextId' = nextId + 1 /\ present' = present \cup {nextId}
      /\ row' = [row EXCEPT ![nextId] = [key |-> k, verifier |-> Undefined, inChat |-> FALSE]]
      /\ since' = since /\ UNCHANGED <<marks, messages>>
  BY DEF AddOrLookup
<1>2. row \in [Ids -> Contact] /\ present \subseteq Ids
  BY DEF Inv, TypeOK
<1>3. [key |-> k, verifier |-> Undefined, inChat |-> FALSE] \in Contact
  BY DEF Contact
<1>4. TypeOK'
  BY <1>1, <1>3, ContactsAssumption DEF Inv, TypeOK, Ids, LastSpecial
<1>5. \A d \in present : row[d].verifier \in Nat
  <2> SUFFICES ASSUME NEW d \in present PROVE row[d].verifier \in Nat
    OBVIOUS
  <2>1. row[d].verifier \in {Undefined, Self} \cup Ids
    BY <1>2 DEF Contact
  <2>2. CASE row[d].verifier \in Ids
    BY ONLY <2>2, IdsAreNumbers
  <2>3. CASE row[d].verifier \in {Undefined, Self}
    BY ONLY <2>3 DEF Undefined, Self
  <2> QED BY <2>1, <2>2, <2>3
<1>6. /\ row'[nextId].verifier = Undefined
      /\ \A d \in present : d # nextId /\ row'[d] = row[d] /\ row[d].verifier # nextId
  <2>1. \A d \in present : d \in Nat /\ d < nextId /\ row[d].verifier < nextId
    BY <1>2 DEF Inv, IdInv
  <2> QED BY <1>1, <1>2, <1>5, <2>1
<1>7. IdInv'
  BY <1>1, <1>2, <1>6, <1>5 DEF Inv, IdInv, Undefined
<1>8. ChainInv'
  <2> SUFFICES ASSUME NEW d \in present',
                      Known(row', d), row'[d].verifier \in present'
               PROVE  Known(row', row'[d].verifier) /\ since'[row'[d].verifier] < since'[d]
    BY DEF ChainInv, Earlier
  <2>1. d \in present /\ row'[d] = row[d] /\ row[d].verifier \in present
    BY <1>1, <1>6 DEF Known, Verified
  <2>2. Known(row, row[d].verifier) /\ since[row[d].verifier] < since[d]
    BY <2>1 DEF Inv, ChainInv, Earlier, Known
  <2> QED BY <1>1, <1>6, <2>1, <2>2 DEF Known
<1> QED BY <1>4, <1>7, <1>8 DEF Inv

LEMMA DeleteInv == ASSUME Inv, NEW c \in present, Delete(c) PROVE Inv'
<1> USE IdsAreNumbers
<1>1. /\ present' = present \ {c} /\ row' = [row EXCEPT ![c] = Absent]
      /\ since' = [since EXCEPT ![c] = 0] /\ UNCHANGED <<nextId, marks, messages>>
  BY DEF Delete
<1>2. row \in [Ids -> Contact] /\ since \in [Ids -> Nat] /\ present \subseteq Ids
  BY DEF Inv, TypeOK
<1>3. Absent \in Contact
  BY DEF Absent, Contact
<1>4. TypeOK'
  BY <1>1, <1>2, <1>3 DEF Inv, TypeOK
<1>5. \A d \in present' : d \in present /\ row'[d] = row[d] /\ since'[d] = since[d]
  BY <1>1, <1>2
<1>6. IdInv'
  BY <1>1, <1>5 DEF Inv, IdInv
<1>7. ChainInv'
  BY <1>5 DEF Inv, ChainInv, Earlier, Known
<1> QED BY <1>4, <1>6, <1>7 DEF Inv

LEMMA EnterChatInv == ASSUME Inv, NEW c \in present, EnterChat(c) PROVE Inv'
<1>1. /\ row' = [row EXCEPT ![c] = [key |-> row[c].key, verifier |-> row[c].verifier,
                                    inChat |-> TRUE]]
      /\ UNCHANGED <<nextId, since, marks, messages, present>>
  BY DEF EnterChat
<1>2. row \in [Ids -> Contact] /\ present \subseteq Ids
  BY DEF Inv, TypeOK
<1>3. [key |-> row[c].key, verifier |-> row[c].verifier, inChat |-> TRUE] \in Contact
  BY <1>2 DEF Contact
<1>4. TypeOK'
  BY <1>1, <1>2, <1>3 DEF Inv, TypeOK
<1>5. \A d \in Ids : row'[d].verifier = row[d].verifier
  BY <1>1, <1>2
<1>6. IdInv'
  BY <1>1, <1>2, <1>5 DEF Inv, IdInv
<1>7. ChainInv'
  BY <1>1, <1>2, <1>5 DEF Inv, ChainInv, Earlier, Known
<1> QED BY <1>4, <1>6, <1>7 DEF Inv

LEMMA ReceiveInv ==
  ASSUME Inv, NEW sender \in present \cup {Self}, NEW g \in SUBSET Keys, Receive(sender, g)
  PROVE  Inv'
<1>1. UNCHANGED <<row, nextId, since, present>> /\ messages' \in 0..MaxMessages
  BY ContactsAssumption DEF Receive, Inv, TypeOK
<1>2. marks' \subseteq Ids \X ({Self} \cup Ids)
  BY DEF Receive, Inv, TypeOK
<1>3. TypeOK'
  BY <1>1, <1>2 DEF Inv, TypeOK
<1>4. ChainInv' /\ IdInv'
  BY <1>1 DEF Inv, ChainInv, IdInv, Earlier, Known
<1> QED BY <1>3, <1>4 DEF Inv

LEMMA MarkRecipientInv ==
  ASSUME Inv, NEW m \in marks, MarkRecipient(m[1], m[2]) PROVE Inv'
<1> DEFINE c == m[1]
           sender == m[2]
           v == IF sender = Self THEN Undefined ELSE sender
<1>1. c \in Ids /\ v \in {Undefined, Self} \cup Ids
  BY DEF Inv, TypeOK
<1>2. UNCHANGED <<nextId, messages, present>> /\ marks' \subseteq marks
  BY DEF MarkRecipient
<1>3. CASE MarkAllowed(c, v) /\ MayOverwrite(c, v)
  <2>1. SetVerifier(c, v)
    BY <1>3 DEF MarkRecipient
  <2> HIDE DEF v, c
  <2> QED BY <1>1, <1>2, <1>3, <2>1, SetVerifierInv
<1>4. CASE ~(MarkAllowed(c, v) /\ MayOverwrite(c, v))
  <2>1. UNCHANGED <<row, since>>
    BY <1>4 DEF MarkRecipient
  <2> HIDE DEF v, c, sender
  <2> QED BY <1>2, <2>1 DEF Inv, TypeOK, ChainInv, IdInv, Earlier, Known, Verified,
             UnknownVerifier
<1> QED BY <1>3, <1>4

LEMMA NextInv == Inv /\ [Next]_vars => Inv'
<1> SUFFICES ASSUME Inv, [Next]_vars PROVE Inv'
  OBVIOUS
<1>0. present \subseteq Ids
  BY DEF Inv, TypeOK
<1>1. ASSUME NEW k \in Keys \cup {NoKey}, AddOrLookup(k) PROVE Inv'
  BY <1>1, AddOrLookupInv
<1>2. ASSUME NEW c \in present, Delete(c) PROVE Inv'
  BY <1>2, DeleteInv
<1>3. ASSUME NEW c \in present, EnterChat(c) PROVE Inv'
  BY <1>3, EnterChatInv
<1>4. ASSUME NEW c \in present, MarkVerifiedBySelf(c) PROVE Inv'
  BY <1>0, <1>4, SetVerifierInv DEF MarkVerifiedBySelf
<1>5. ASSUME NEW sender \in present \cup {Self}, NEW g \in SUBSET Keys, Receive(sender, g)
      PROVE  Inv'
  BY <1>5, ReceiveInv
<1>6. ASSUME NEW m \in marks, MarkRecipient(m[1], m[2]) PROVE Inv'
  BY <1>6, MarkRecipientInv
<1>7. CASE UNCHANGED vars
  BY <1>7 DEF vars, Inv, TypeOK, ChainInv, IdInv, Earlier, Known
<1> QED BY <1>1, <1>2, <1>3, <1>4, <1>5, <1>6, <1>7 DEF Next

\* A circle has a contact with the shortest chain; its verifier's is shorter still.
LEMMA NoCircle == Inv => VerifierChainsEnd
<1> SUFFICES ASSUME Inv, NEW S \in SUBSET present, S # {},
                    \A c \in S : row[c].verifier \in S \ {c}
             PROVE  FALSE
  BY DEF VerifierChainsEnd
<1> DEFINE Lengths == {since[c] : c \in S}
<1>1. S \subseteq Ids /\ Lengths \subseteq Nat /\ Lengths # {}
  BY DEF Inv, TypeOK
<1>2. PICK x \in Lengths : \A y \in Lengths : ~(y < x)
  <2> DEFINE Less == {ss \in Nat \X Nat : ss[1] < ss[2]}
  <2> HIDE DEF Lengths
  <2>1. IsWellFoundedOn(Less, Nat)
    BY NatLessThanWellFounded DEF OpToRel
  <2>2. PICK x \in Lengths : \A y \in Lengths : ~(<<y, x>> \in Less)
    <3> HIDE DEF Less
    <3> QED BY ONLY <1>1, <2>1, WFMin
  <2> QED BY <1>1, <2>2
<1>3. PICK c \in S : \A y \in Lengths : ~(y < since[c])
  BY <1>2
<1>4. Known(row, c) /\ row[c].verifier \in present /\ row[c].verifier \in S
  BY <1>1, IdsAreNumbers DEF Known
<1>5. since[row[c].verifier] < since[c]
  BY <1>4 DEF Inv, ChainInv, Earlier
<1>6. since[row[c].verifier] \in Lengths /\ since[c] \in Nat /\ since[row[c].verifier] \in Nat
  BY <1>1, <1>4 DEF Inv, TypeOK
<1> QED BY <1>3, <1>5, <1>6

----------------------------------------------------------------------------
(* The table keeps its types: in particular a verifier is nobody, SELF or a   *)
(* contact's id, and marks concern contacts.                                  *)
THEOREM ContactTypes == Spec => []TypeOK
<1>1. Inv => TypeOK
  BY DEF Inv
<1> QED BY InitInv, NextInv, <1>1, PTL DEF Spec

(* However contacts are marked as verified by SELF or by one another          *)
(* (mark_contact_id_as_verified), deleted and created anew, none of them owe  *)
(* their verification to one another in a circle.                             *)
THEOREM ChainsEnd == Spec => []VerifierChainsEnd
  BY InitInv, NextInv, NoCircle, PTL DEF Spec

-----------------------------------------------------------------------------
(* Transports. *)

TransportRecords == [ver : Nat, ts : Nat, pub : BOOLEAN]
ItemRecords == [rm : [Addrs -> Nat], tr : [Addrs -> TransportRecords]]
SyncMessages == [from : Devices, addr : Addrs, items : Seq(ItemRecords)]
RelayTypes ==
    /\ tr \in [Devices -> [Addrs -> TransportRecords]] /\ rm \in [Devices -> [Addrs -> Nat]]
    /\ primary \in [Devices -> Addrs] /\ cached \in [Devices -> Addrs]
    /\ items \in [Devices -> Seq(ItemRecords)] /\ incoming \in [Devices -> Seq(ItemRecords)]
    /\ log \in Seq(SyncMessages) /\ read \in [Devices -> Nat]
    /\ DOMAIN op = Devices /\ DOMAIN stale = Devices /\ DOMAIN key = Devices
    /\ now \in Nat \ {0} /\ changes \in Nat

RelayInv == RelayTypes /\ Transport!PrimaryExists /\ Transport!KeyIsCurrent

LEMMA NoRow == Transport!NoTransport \in TransportRecords
BY DEF Transport!NoTransport, TransportRecords

LEMMA RelayInit == ASSUME Configuration PROVE Transport!Init => RelayInv
<1> SUFFICES ASSUME Transport!Init PROVE RelayInv OBVIOUS
<1>1. PICK entry : entry = [ver |-> 1, ts |-> 1, pub |-> TRUE] OBVIOUS
<1>2. entry \in TransportRecords /\ entry # Transport!NoTransport BY <1>1 DEF TransportRecords, Transport!NoTransport
<1>3. tr = [d \in Devices |-> [a \in Addrs |-> IF a \in Configured THEN entry ELSE Transport!NoTransport]]
  BY <1>1 DEF Transport!Init
<1>4. First \in Addrs BY DEF Configuration
<1>5. << >> \in Seq(ItemRecords) /\ << >> \in Seq(SyncMessages) BY EmptySeq
<1>6. RelayTypes
  <2>1. tr \in [Devices -> [Addrs -> TransportRecords]] BY <1>2, <1>3, NoRow
  <2>2. /\ rm \in [Devices -> [Addrs -> Nat]] /\ primary \in [Devices -> Addrs]
        /\ cached \in [Devices -> Addrs] /\ read \in [Devices -> Nat]
    BY <1>4 DEF Transport!Init
  <2>3. /\ items \in [Devices -> Seq(ItemRecords)] /\ incoming \in [Devices -> Seq(ItemRecords)]
        /\ log \in Seq(SyncMessages)
    BY <1>5 DEF Transport!Init
  <2>4. DOMAIN op = Devices /\ DOMAIN stale = Devices /\ DOMAIN key = Devices BY DEF Transport!Init
  <2>5. now \in Nat \ {0} /\ changes \in Nat BY DEF Transport!Init
  <2> QED BY <2>1, <2>2, <2>3, <2>4, <2>5 DEF RelayTypes
<1>7. Transport!PrimaryExists
  <2> SUFFICES ASSUME NEW d \in Devices PROVE primary[d] \in Transport!Has(tr[d]) BY DEF Transport!PrimaryExists
  <2>1. primary[d] = First BY DEF Transport!Init
  <2>2. tr[d][First] = entry BY <1>3, <1>4 DEF Configuration
  <2> QED BY <1>2, <1>4, <2>1, <2>2 DEF Transport!Has
<1>8. Transport!KeyIsCurrent BY DEF Transport!Init, Transport!KeyIsCurrent
<1> QED BY <1>6, <1>7, <1>8 DEF RelayInv

(* A change of the table of one device that its user makes: the row of `a' is *)
(* written or, if `a' is not the primary address, deleted.                    *)
LEMMA ChangeOK ==
    ASSUME RelayInv, NEW d \in Devices, NEW a \in Addrs, NEW entry \in TransportRecords,
           \/ tr' = tr
           \/ /\ tr' = [tr EXCEPT ![d][a] = entry]
              /\ entry # Transport!NoTransport \/ a # primary[d],
           rm' = rm \/ \E n \in Nat : rm' = [rm EXCEPT ![d][a] = n],
           \/ primary' = primary
           \/ /\ primary' = [primary EXCEPT ![d] = a]
              /\ tr' = [tr EXCEPT ![d][a] = entry] /\ entry # Transport!NoTransport,
           \E o \in {"announce", "announce_primary"} : op' = [op EXCEPT ![d] = o],
           changes' = changes + 1,
           UNCHANGED <<cached, incoming, follow, stale, key, loading, log, read, now, items>>
    PROVE  RelayInv'
<1> USE DEF RelayInv
<1>1. RelayTypes'
  <2>1. tr' \in [Devices -> [Addrs -> TransportRecords]]
    <3>1. [tr EXCEPT ![d][a] = entry] \in [Devices -> [Addrs -> TransportRecords]] BY DEF RelayTypes
    <3> QED BY <3>1 DEF RelayTypes
  <2>2. rm' \in [Devices -> [Addrs -> Nat]]
    <3>0. rm \in [Devices -> [Addrs -> Nat]] BY DEF RelayTypes
    <3>1. CASE rm' = rm BY <3>0, <3>1
    <3>2. ASSUME NEW n \in Nat, rm' = [rm EXCEPT ![d][a] = n] PROVE rm' \in [Devices -> [Addrs -> Nat]]
      BY <3>0, <3>2
    <3> QED BY <3>1, <3>2
  <2>3. primary' \in [Devices -> Addrs] BY DEF RelayTypes
  <2>4. DOMAIN op' = Devices /\ changes' \in Nat BY DEF RelayTypes
  <2> QED BY <2>1, <2>2, <2>3, <2>4 DEF RelayTypes
<1>2. Transport!PrimaryExists'
  <2> SUFFICES ASSUME NEW e \in Devices PROVE primary'[e] \in Transport!Has(tr'[e])
    BY DEF Transport!PrimaryExists, Transport!Has
  <2>0. primary[e] \in Addrs /\ tr[e][primary[e]] # Transport!NoTransport BY DEF Transport!PrimaryExists, Transport!Has
  <2>1. primary'[e] \in Addrs BY <1>1 DEF RelayTypes
  <2>2. tr'[e][primary'[e]] # Transport!NoTransport
    <3>1. CASE e # d BY <2>0, <3>1 DEF RelayTypes
    <3>2. CASE e = d BY <2>0, <3>2 DEF RelayTypes
    <3> QED BY <3>1, <3>2
  <2> QED BY <2>1, <2>2 DEF Transport!Has
<1>3. Transport!KeyIsCurrent'
  <2> SUFFICES ASSUME NEW e \in Devices, op'[e] \in {"no", "uncache"}, ~stale[e], key[e] # Transport!NotLoaded
               PROVE  key[e].addrs = Transport!Published(e)'
    BY DEF Transport!KeyIsCurrent, Transport!NotLoaded
  <2>1. e # d /\ op'[e] = op[e] BY DEF RelayTypes
  <2>2. tr'[e] = tr[e] BY <2>1 DEF RelayTypes
  <2>3. key[e].addrs = Transport!Published(e) BY <2>1 DEF Transport!KeyIsCurrent
  <2> QED BY <2>2, <2>3 DEF Transport!Published, Transport!Has
<1> QED BY <1>1, <1>2, <1>3
(* The four calls of the user. *)
LEMMA AddOK ==
    ASSUME RelayInv, NEW d \in Devices, NEW a \in Addrs, Transport!AddOrUpdate(d, a)
    PROVE  RelayInv'
<1>1. PICK new : new = [ver |-> changes + 2, ts |-> now, pub |-> TRUE] OBVIOUS
<1>2. new \in TransportRecords /\ new # Transport!NoTransport
  <2>1. changes \in Nat /\ now \in Nat BY DEF RelayInv, RelayTypes
  <2>2. new.pub = TRUE /\ Transport!NoTransport.pub = FALSE BY <1>1 DEF Transport!NoTransport
  <2> QED BY <1>1, <2>1, <2>2 DEF TransportRecords
<1>3. PICK entry : entry = Transport!Saved(tr[d][a], new) OBVIOUS
<1>4. entry \in TransportRecords BY <1>2, <1>3 DEF Transport!Saved, RelayInv, RelayTypes
<1>5. entry # Transport!NoTransport
  <2>1. tr[d][a] = Transport!NoTransport => entry = new BY <1>1, <1>2, <1>3 DEF Transport!Saved, Transport!NoTransport
  <2> QED BY <1>2, <1>3, <2>1 DEF Transport!Saved
<1>6. tr' = [tr EXCEPT ![d][a] = entry] BY <1>1, <1>3 DEF Transport!AddOrUpdate, RelayInv, RelayTypes
<1>7. changes' = changes + 1 BY DEF Transport!AddOrUpdate, Transport!MayChange
<1>8. /\ rm' = rm /\ primary' = primary /\ op' = [op EXCEPT ![d] = "announce"]
      /\ UNCHANGED <<cached, incoming, follow, stale, key, loading, log, read, now, items>>
  BY DEF Transport!AddOrUpdate
<1> QED BY <1>4, <1>5, <1>6, <1>7, <1>8, ChangeOK

LEMMA DeleteOK ==
    ASSUME RelayInv, NEW d \in Devices, NEW a \in Addrs, Transport!delete_transport(d, a)
    PROVE  RelayInv'
<1>1. tr' = [tr EXCEPT ![d][a] = Transport!NoTransport] /\ a # primary[d] BY DEF Transport!delete_transport, Transport!MayDelete
<1>2. Transport!RemovedAt(tr[d][a].ts) \in Nat
  BY DEF Transport!RemovedAt, RelayInv, RelayTypes, TransportRecords
<1>3. \E n \in Nat : rm' = [rm EXCEPT ![d][a] = n] BY <1>2 DEF Transport!delete_transport
<1>4. changes' = changes + 1 BY DEF Transport!delete_transport, Transport!MayChange
<1>5. /\ primary' = primary /\ op' = [op EXCEPT ![d] = "announce"]
      /\ UNCHANGED <<cached, incoming, follow, stale, key, loading, log, read, now, items>>
  BY DEF Transport!delete_transport
<1> QED BY <1>1, <1>3, <1>4, <1>5, NoRow, ChangeOK

LEMMA UnpublishOK ==
    ASSUME RelayInv, NEW d \in Devices, NEW a \in Addrs, NEW u \in BOOLEAN,
           Transport!set_transport_unpublished(d, a, u)
    PROVE  RelayInv'
<1>1. PICK b \in BOOLEAN : b = ~u OBVIOUS
<1>2. PICK entry : entry = [[tr[d][a] EXCEPT !.pub = b] EXCEPT !.ts = now] OBVIOUS
<1>0. tr[d][a] \in TransportRecords /\ now \in Nat \ {0} BY DEF RelayInv, RelayTypes
<1>3. entry \in TransportRecords /\ entry.ts = now BY <1>0, <1>2 DEF TransportRecords
<1>4. entry # Transport!NoTransport BY <1>0, <1>3 DEF Transport!NoTransport
<1>5. \/ tr' = tr
      \/ tr' = [tr EXCEPT ![d][a] = entry]
  <2>1. tr' = tr \/ tr' = [tr EXCEPT ![d][a].pub = b, ![d][a].ts = now]
    BY <1>1 DEF Transport!set_transport_unpublished
  <2>2. tr \in [Devices -> [Addrs -> TransportRecords]] BY DEF RelayInv, RelayTypes
  <2> QED BY <1>2, <2>1, <2>2
<1>6. changes' = changes + 1 BY DEF Transport!set_transport_unpublished, Transport!MayChange
<1>7. /\ rm' = rm /\ primary' = primary /\ op' = [op EXCEPT ![d] = "announce"]
      /\ UNCHANGED <<cached, incoming, follow, stale, key, loading, log, read, now, items>>
  BY DEF Transport!set_transport_unpublished
<1> QED BY <1>3, <1>4, <1>5, <1>6, <1>7, ChangeOK

LEMMA SetPrimaryOK ==
    ASSUME RelayInv, NEW d \in Devices, NEW a \in Addrs, Transport!SetPrimary(d, a)
    PROVE  RelayInv'
<1>2. PICK entry : entry = [[tr[d][a] EXCEPT !.ts = now] EXCEPT !.pub = TRUE] OBVIOUS
<1>0. tr[d][a] \in TransportRecords /\ now \in Nat \ {0} BY DEF RelayInv, RelayTypes
<1>3. entry \in TransportRecords /\ entry.ts = now BY <1>0, <1>2 DEF TransportRecords
<1>4. entry # Transport!NoTransport BY <1>0, <1>3 DEF Transport!NoTransport
<1>5. tr' = [tr EXCEPT ![d][a] = entry]
  <2>1. tr' = [tr EXCEPT ![d][a].ts = now, ![d][a].pub = TRUE] BY DEF Transport!SetPrimary
  <2>2. tr \in [Devices -> [Addrs -> TransportRecords]] BY DEF RelayInv, RelayTypes
  <2> QED BY <1>2, <2>1, <2>2
<1>6. changes' = changes + 1 BY DEF Transport!SetPrimary, Transport!MayChange
<1>7. /\ rm' = rm /\ primary' = [primary EXCEPT ![d] = a] /\ op' = [op EXCEPT ![d] = "announce_primary"]
      /\ UNCHANGED <<cached, incoming, follow, stale, key, loading, log, read, now, items>>
  BY DEF Transport!SetPrimary
<1> QED BY <1>3, <1>4, <1>5, <1>6, <1>7, ChangeOK
(* What changes neither the tables nor the primary address.  A key is         *)
(* forgotten, or it is made of what the table says.                           *)
LEMMA SettledOK ==
    ASSUME RelayInv, NEW d \in Devices, UNCHANGED <<tr, rm, primary>>, RelayTypes',
           \A e \in Devices \ {d} : op'[e] = op[e] /\ stale'[e] = stale[e] /\ key'[e] = key[e],
           \/ key'[d] = Transport!NotLoaded
           \/ key'[d].addrs = Transport!Published(d)
           \/ /\ key'[d] = key[d] /\ (stale[d] => stale'[d])
              /\ op'[d] \in {"no", "uncache"} => op[d] \in {"no", "uncache"}
    PROVE  RelayInv'
<1>1. Transport!PrimaryExists' BY DEF RelayInv, Transport!PrimaryExists, Transport!Has
<1>2. Transport!KeyIsCurrent'
  <2> SUFFICES ASSUME NEW e \in Devices, op'[e] \in {"no", "uncache"}, ~stale'[e], key'[e] # Transport!NotLoaded
               PROVE  key'[e].addrs = Transport!Published(e)'
    BY DEF Transport!KeyIsCurrent, Transport!NotLoaded
  <2>1. Transport!Published(e)' = Transport!Published(e) BY DEF Transport!Published, Transport!Has
  <2>2. op[e] \in {"no", "uncache"} /\ ~stale[e] /\ key[e] # Transport!NotLoaded => key[e].addrs = Transport!Published(e)
    BY DEF RelayInv, Transport!KeyIsCurrent
  <2> QED BY <2>1, <2>2
<1> QED BY <1>1, <1>2 DEF RelayInv

LEMMA AnnounceOK ==
    ASSUME RelayInv, NEW d \in Devices, First \in Addrs, Transport!send_sync_transports(d)
    PROVE  RelayInv'
<1> USE DEF Transport!send_sync_transports
<1>1. PICK item : item = [rm |-> rm[d],
                          tr |-> [a \in Addrs |-> IF a = First /\ one[d] THEN Transport!NoTransport ELSE tr[d][a]]]
  OBVIOUS
<1>2. item \in ItemRecords BY <1>1, NoRow DEF ItemRecords, RelayInv, RelayTypes
<1>3. items' = [items EXCEPT ![d] = Append(@, item)] BY <1>1
<1>4. RelayTypes'
  <2>1. items' \in [Devices -> Seq(ItemRecords)]
    <3>1. Append(items[d], item) \in Seq(ItemRecords) BY <1>2, AppendProperties DEF RelayInv, RelayTypes
    <3> QED BY <1>3, <3>1 DEF RelayInv, RelayTypes
  <2> QED BY <2>1 DEF RelayInv, RelayTypes
<1>5. key'[d] = Transport!NotLoaded BY DEF Transport!DropKey, RelayInv, RelayTypes
<1>6. \A e \in Devices \ {d} : op'[e] = op[e] /\ stale'[e] = stale[e] /\ key'[e] = key[e]
  BY DEF RelayInv, RelayTypes
<1>7. UNCHANGED <<tr, rm, primary>> OBVIOUS
<1> QED BY <1>4, <1>5, <1>6, <1>7, SettledOK

LEMMA UncacheOK ==
    ASSUME RelayInv, NEW d \in Devices, Transport!Uncache(d)
    PROVE  RelayInv'
<1> USE DEF Transport!Uncache, RelayInv
<1>1. RelayTypes' BY DEF RelayTypes
<1>2. \A e \in Devices \ {d} : op'[e] = op[e] /\ stale'[e] = stale[e] /\ key'[e] = key[e]
  BY DEF RelayTypes
<1>3. key'[d] = key[d] /\ stale'[d] = stale[d] /\ op[d] \in {"no", "uncache"} OBVIOUS
<1>4. UNCHANGED <<tr, rm, primary>> OBVIOUS
<1> HIDE DEF RelayInv
<1> QED BY <1>1, <1>2, <1>3, <1>4, SettledOK

LEMMA SendSyncOK ==
    ASSUME RelayInv, NEW d \in Devices, Transport!send_sync_msg(d)
    PROVE  RelayInv'
<1> USE DEF Transport!send_sync_msg
<1>1. PICK m : m = [from |-> d, addr |-> cached[d], items |-> items[d]] OBVIOUS
<1>2. m \in SyncMessages BY <1>1 DEF SyncMessages, RelayInv, RelayTypes
<1>3. log' \in Seq(SyncMessages) BY <1>1, <1>2, AppendProperties DEF RelayInv, RelayTypes
<1>4. items' \in [Devices -> Seq(ItemRecords)]
  <2>1. << >> \in Seq(ItemRecords) BY EmptySeq
  <2> QED BY <2>1 DEF RelayInv, RelayTypes
<1>5. RelayTypes' BY <1>3, <1>4 DEF RelayInv, RelayTypes
<1>6. UNCHANGED <<tr, rm, primary, op, stale, key>> OBVIOUS
<1> QED BY <1>5, <1>6, SettledOK

LEMMA TakeSyncOK ==
    ASSUME RelayInv, NEW d \in Devices, Transport!Receive(d)
    PROVE  RelayInv'
<1> USE DEF Transport!Receive
<1>1. PICK m : m = log[read[d] + 1] OBVIOUS
<1>2. m \in SyncMessages
  <2>1. log \in Seq(SyncMessages) /\ read[d] \in Nat BY DEF RelayInv, RelayTypes
  <2>2. Len(log) \in Nat /\ DOMAIN log = 1 .. Len(log) BY <2>1, LenProperties
  <2>3. read[d] + 1 \in 1 .. Len(log) BY <2>1, <2>2
  <2> QED BY <1>1, <2>1, <2>2, <2>3
<1>3. incoming' = incoming \/ incoming' = [incoming EXCEPT ![d] = m.items] BY <1>1
<1>4. incoming' \in [Devices -> Seq(ItemRecords)]
  BY <1>2, <1>3 DEF SyncMessages, RelayInv, RelayTypes
<1>5. read' \in [Devices -> Nat]
  <2>1. read' = [read EXCEPT ![d] = @ + 1] OBVIOUS
  <2> HIDE DEF Transport!Receive
  <2> QED BY <2>1 DEF RelayInv, RelayTypes
<1>6. UNCHANGED <<tr, rm, primary, cached, items, log, op, stale, key, now, changes>> OBVIOUS
<1> HIDE DEF Transport!Receive
<1>7. RelayTypes' BY <1>4, <1>5, <1>6 DEF RelayInv, RelayTypes
<1> QED BY <1>6, <1>7, SettledOK

LEMMA ForgetKeyOK ==
    ASSUME RelayInv, NEW d \in Devices, Transport!ForgetKey(d)
    PROVE  RelayInv'
<1> USE DEF Transport!ForgetKey
<1>1. RelayTypes' BY DEF RelayInv, RelayTypes
<1>2. key'[d] = Transport!NotLoaded BY DEF Transport!DropKey, RelayInv, RelayTypes
<1>3. \A e \in Devices \ {d} : op'[e] = op[e] /\ stale'[e] = stale[e] /\ key'[e] = key[e]
  BY DEF RelayInv, RelayTypes
<1>4. UNCHANGED <<tr, rm, primary>> OBVIOUS
<1> QED BY <1>1, <1>2, <1>3, <1>4, SettledOK

LEMMA StoreKeyOK ==
    ASSUME RelayInv, NEW d \in Devices, Transport!StoreKey(d)
    PROVE  RelayInv'
<1> USE DEF Transport!StoreKey
<1>0. DOMAIN key' = Devices BY DEF RelayInv, RelayTypes
<1>1. RelayTypes' BY <1>0 DEF RelayInv, RelayTypes
<1>2. key'[d].addrs = Transport!Published(d) BY DEF RelayInv, RelayTypes
<1>3. \A e \in Devices \ {d} : op'[e] = op[e] /\ stale'[e] = stale[e] /\ key'[e] = key[e]
  BY DEF RelayInv, RelayTypes
<1>4. UNCHANGED <<tr, rm, primary>> OBVIOUS
<1> QED BY <1>1, <1>2, <1>3, <1>4, SettledOK

LEMMA LoadKeyOK ==
    ASSUME RelayInv, NEW d \in Devices, Transport!LoadKey(d)
    PROVE  RelayInv'
<1> USE DEF Transport!LoadKey
<1>1. RelayTypes' BY DEF RelayInv, RelayTypes
<1>2. UNCHANGED <<tr, rm, primary, op, stale, key>> OBVIOUS
<1> QED BY <1>1, <1>2, SettledOK

(* The address of a message becomes the primary one only if it has a row. *)
LEMMA FollowOK ==
    ASSUME RelayInv, NEW d \in Devices, Transport!FollowPrimary(d)
    PROVE  RelayInv'
<1> USE DEF Transport!FollowPrimary
<1>1. PICK p : p = IF Transport!Followed(d, follow[d]) THEN follow[d] ELSE primary[d] OBVIOUS
<1>2. p \in Transport!Has(tr[d]) BY <1>1 DEF Transport!Followed, RelayInv, Transport!PrimaryExists
<1>3. p \in Addrs BY <1>2 DEF Transport!Has
<1>4. primary' = [primary EXCEPT ![d] = p] BY <1>1 DEF RelayInv, RelayTypes
<1>5. RelayTypes'
  <2>1. primary' \in [Devices -> Addrs] BY <1>3, <1>4 DEF RelayInv, RelayTypes
  <2>2. cached' \in [Devices -> Addrs] BY <2>1 DEF RelayInv, RelayTypes
  <2> QED BY <2>1, <2>2 DEF RelayInv, RelayTypes
<1>6. Transport!PrimaryExists'
  <2> SUFFICES ASSUME NEW e \in Devices PROVE primary'[e] \in Transport!Has(tr[e])
    BY DEF Transport!PrimaryExists, Transport!Has
  <2> QED BY <1>2, <1>4 DEF RelayInv, RelayTypes, Transport!PrimaryExists
<1>7. Transport!KeyIsCurrent'
  <2> SUFFICES ASSUME NEW e \in Devices, op[e] \in {"no", "uncache"}, ~stale'[e], key[e] # Transport!NotLoaded
               PROVE  key[e].addrs = Transport!Published(e)
    BY DEF Transport!KeyIsCurrent, Transport!NotLoaded, Transport!Published, Transport!Has
  <2>1. ~stale[e] BY DEF RelayInv, RelayTypes
  <2> QED BY <2>1 DEF RelayInv, Transport!KeyIsCurrent
<1> QED BY <1>5, <1>6, <1>7 DEF RelayInv

LEMMA TickOK == ASSUME RelayInv, Transport!Tick PROVE RelayInv'
<1> USE DEF Transport!Tick
<1>1. RelayTypes' BY DEF RelayInv, RelayTypes
<1>2. Transport!PrimaryExists' BY DEF RelayInv, Transport!PrimaryExists, Transport!Has
<1>3. Transport!KeyIsCurrent' BY DEF RelayInv, Transport!KeyIsCurrent, Transport!Published, Transport!Has, Transport!NotLoaded
<1> QED BY <1>1, <1>2, <1>3 DEF RelayInv

(* What a sync item makes of a table: every row is one of the two, and the    *)
(* primary address keeps one.                                                 *)
LEMMA MergedOK ==
    ASSUME NEW d \in Devices, NEW old, NEW m \in ItemRecords, NEW p \in Addrs, p = primary[d],
           old.tr \in [Addrs -> TransportRecords], old.rm \in [Addrs -> Nat], old.tr[p] # Transport!NoTransport
    PROVE  /\ Transport!Merged(d, old, m).tr \in [Addrs -> TransportRecords]
           /\ Transport!Merged(d, old, m).rm \in [Addrs -> Nat]
           /\ Transport!Merged(d, old, m).tr[p] # Transport!NoTransport
<1>0. m.tr \in [Addrs -> TransportRecords] /\ m.rm \in [Addrs -> Nat] BY DEF ItemRecords
<1>1. PICK added : added = Transport!AfterAdds(old.tr, m) OBVIOUS
<1>2. added \in [Addrs -> TransportRecords] BY <1>0, <1>1 DEF Transport!AfterAdds, Transport!Saved
<1>3. added[p] # Transport!NoTransport BY <1>1 DEF Transport!AfterAdds, Transport!Saved
<1>4. PICK out : out = {a \in Transport!Applied(d, added, m) : Transport!Outdated(added[a], m.rm[a])} OBVIOUS
<1>5. p \notin out BY <1>4 DEF Transport!Applied
<1>6. Transport!Merged(d, old, m).tr = [a \in Addrs |-> IF a \in out THEN Transport!NoTransport ELSE added[a]]
  BY <1>1, <1>4 DEF Transport!Merged
<1>7. Transport!Merged(d, old, m).rm = [a \in Addrs |-> IF a \in Transport!Applied(d, added, m) /\ m.rm[a] > old.rm[a]
                                                THEN m.rm[a] ELSE old.rm[a]]
  BY <1>1 DEF Transport!Merged
<1> QED BY <1>0, <1>2, <1>3, <1>5, <1>6, <1>7, NoRow

LEMMA SyncOK ==
    ASSUME RelayInv, NEW d \in Devices, Transport!sync_transports(d)
    PROVE  RelayInv'
<1> USE DEF Transport!sync_transports
<1>0. /\ tr \in [Devices -> [Addrs -> TransportRecords]] /\ rm \in [Devices -> [Addrs -> Nat]]
      /\ incoming \in [Devices -> Seq(ItemRecords)] /\ primary \in [Devices -> Addrs]
      /\ DOMAIN stale = Devices
  BY DEF RelayInv, RelayTypes
<1>1. PICK old : old = [tr |-> tr[d], one |-> one[d], rm |-> rm[d]] OBVIOUS
<1>2. Head(incoming[d]) \in ItemRecords /\ Tail(incoming[d]) \in Seq(ItemRecords)
  BY <1>0, HeadTailProperties
<1>3. PICK merged : merged = Transport!Merged(d, old, Head(incoming[d])) OBVIOUS
<1>4. /\ merged.tr \in [Addrs -> TransportRecords] /\ merged.rm \in [Addrs -> Nat]
      /\ merged.tr[primary[d]] # Transport!NoTransport
  <2>1. old.tr = tr[d] /\ old.rm = rm[d] BY <1>1
  <2>2. tr[d][primary[d]] # Transport!NoTransport BY DEF RelayInv, Transport!PrimaryExists, Transport!Has
  <2>3. primary[d] \in Addrs BY <1>0
  <2>4. old.tr \in [Addrs -> TransportRecords] /\ old.rm \in [Addrs -> Nat] BY <1>0, <2>1
  <2> QED BY <1>2, <1>3, <2>1, <2>2, <2>3, <2>4, MergedOK
<1>5. /\ tr' = [tr EXCEPT ![d] = merged.tr] /\ rm' = [rm EXCEPT ![d] = merged.rm]
      /\ stale' = [stale EXCEPT ![d] = merged.tr # tr[d]]
  BY <1>1, <1>3
<1>6. RelayTypes'
  <2>1. tr' \in [Devices -> [Addrs -> TransportRecords]] BY <1>0, <1>4, <1>5
  <2>2. rm' \in [Devices -> [Addrs -> Nat]] BY <1>0, <1>4, <1>5
  <2>3. incoming' \in [Devices -> Seq(ItemRecords)] BY <1>0, <1>2
  <2> QED BY <2>1, <2>2, <2>3 DEF RelayInv, RelayTypes
<1>7. Transport!PrimaryExists'
  <2> SUFFICES ASSUME NEW e \in Devices PROVE primary[e] \in Addrs /\ tr'[e][primary[e]] # Transport!NoTransport
    BY DEF Transport!PrimaryExists, Transport!Has
  <2>1. primary[e] \in Addrs /\ tr[e][primary[e]] # Transport!NoTransport
    BY DEF RelayInv, Transport!PrimaryExists, Transport!Has
  <2> QED BY <1>0, <1>4, <1>5, <2>1
<1>8. Transport!KeyIsCurrent'
  <2> SUFFICES ASSUME NEW e \in Devices, op[e] \in {"no", "uncache"}, ~stale'[e], key[e] # Transport!NotLoaded
               PROVE  key[e].addrs = Transport!Published(e)'
    BY DEF Transport!KeyIsCurrent, Transport!NotLoaded
  <2>1. ~stale[e] /\ tr'[e] = tr[e]
    <3>1. CASE e = d
      <4>1. tr'[d] = merged.tr /\ stale'[d] = (merged.tr # tr[d]) BY <1>0, <1>5
      <4> QED BY <3>1, <4>1
    <3>2. CASE e # d BY <1>0, <1>5, <3>2
    <3> QED BY <3>1, <3>2
  <2>2. key[e].addrs = Transport!Published(e) BY <2>1 DEF RelayInv, Transport!KeyIsCurrent
  <2> QED BY <2>1, <2>2 DEF Transport!Published, Transport!Has
<1> QED BY <1>6, <1>7, <1>8 DEF RelayInv

LEMMA RelaySteps == ASSUME Configuration PROVE RelayInv /\ [Transport!Next]_(Transport!vars) => RelayInv'
<1> SUFFICES ASSUME RelayInv, [Transport!Next]_(Transport!vars) PROVE RelayInv' OBVIOUS
<1>1. ASSUME NEW d \in Devices, NEW a \in Addrs,
             \/ Transport!AddOrUpdate(d, a) \/ Transport!delete_transport(d, a) \/ Transport!SetPrimary(d, a)
             \/ \E u \in BOOLEAN : Transport!set_transport_unpublished(d, a, u)
      PROVE  RelayInv'
  BY <1>1, AddOK, DeleteOK, SetPrimaryOK, UnpublishOK
<1>2. ASSUME NEW d \in Devices,
             \/ Transport!send_sync_transports(d) \/ Transport!Uncache(d) \/ Transport!send_sync_msg(d)
      PROVE  RelayInv'
  BY <1>2, AnnounceOK, UncacheOK, SendSyncOK DEF Configuration
<1>3. ASSUME NEW d \in Devices,
             Transport!Receive(d) \/ Transport!sync_transports(d) \/ Transport!FollowPrimary(d) \/ Transport!ForgetKey(d)
      PROVE  RelayInv'
  BY <1>3, TakeSyncOK, SyncOK, FollowOK, ForgetKeyOK
<1>4. ASSUME NEW d \in Devices, Transport!LoadKey(d) \/ Transport!StoreKey(d) PROVE RelayInv'
  BY <1>4, LoadKeyOK, StoreKeyOK
<1>5. CASE UNCHANGED Transport!vars
  <2> USE <1>5 DEF Transport!vars
  <2>1. RelayTypes' BY DEF RelayInv, RelayTypes
  <2>2. Transport!PrimaryExists' BY DEF RelayInv, Transport!PrimaryExists, Transport!Has
  <2>3. Transport!KeyIsCurrent' BY DEF RelayInv, Transport!KeyIsCurrent, Transport!Published, Transport!Has, Transport!NotLoaded
  <2> QED BY <2>1, <2>2, <2>3 DEF RelayInv
<1> QED BY <1>1, <1>2, <1>3, <1>4, <1>5, TickOK DEF Transport!Next

LEMMA RelaysHold == ASSUME Configuration PROVE Transport!Spec => []RelayInv
<1>1. Transport!Init => RelayInv BY RelayInit
<1>2. RelayInv /\ [Transport!Next]_(Transport!vars) => RelayInv' BY RelaySteps
<1> QED BY <1>1, <1>2, PTL DEF Transport!Spec

(* configured_addr names a transport of its device at all times: deleting     *)
(* here, the removals and the primary address that are synced from other      *)
(* devices and any crossing of them leave the device a transport to send      *)
(* from.                                                                      *)
THEOREM PrimaryStays == ASSUME Configuration PROVE Transport!Spec => []Transport!PrimaryExists
<1>1. RelayInv => Transport!PrimaryExists BY DEF RelayInv
<1> QED BY <1>1, RelaysHold, PTL

(* The cached public key lists the relays that are published whenever no      *)
(* change waits to be announced, however the loading of the key, the calls    *)
(* of the user and the sync items that are executed meanwhile interleave.     *)
THEOREM KeyStaysCurrent == ASSUME Configuration PROVE Transport!Spec => []Transport!KeyIsCurrent
<1>1. RelayInv => Transport!KeyIsCurrent BY DEF RelayInv
<1> QED BY <1>1, RelaysHold, PTL

-----------------------------------------------------------------------------
(* That the devices come to the same transports. *)

(* Of two states of the tables the first is not later than the second: what   *)
(* was there is replaced by something newer or was removed after it, and what *)
(* is there now was added after its last removal.                             *)
NotLater(S, x, y) ==
    \A a \in S : /\ x.rm[a] <= y.rm[a]
                 /\ IF y.tr[a] = Transport!NoTransport
                    THEN x.tr[a] = Transport!NoTransport \/ (0 < y.rm[a] /\ x.tr[a].ts <= y.rm[a])
                    ELSE y.rm[a] < y.tr[a].ts /\ x.tr[a].ts <= y.tr[a].ts
Same(S, x, y) == \A a \in S : x.rm[a] = y.rm[a] /\ x.tr[a] = y.tr[a]
Lex(p, q) == p[1] < q[1] \/ (p[1] = q[1] /\ p[2] < q[2])

(* A device with the tables x and one whose changes it reads, with the tables *)
(* y: the items between them (at the positions P) are ever later states, and  *)
(* once the change is announced the last of them is y.                        *)
OnTheWay(S, P, item, x, y, done) ==
    /\ \A p \in P : NotLater(S, x, item[p]) /\ NotLater(S, item[p], y)
    /\ \A p, q \in P : Lex(p, q) => NotLater(S, item[p], item[q])
    /\ NotLater(S, x, y)
    /\ done => IF P = {} THEN Same(S, x, y)
               ELSE \E p \in P : (\A q \in P : q = p \/ Lex(q, p)) /\ Same(S, item[p], y)

LEMMA EarlierTrans ==
    ASSUME NEW S \in SUBSET Addrs, NEW x \in ItemRecords, NEW y \in ItemRecords, NEW z \in ItemRecords,
           NotLater(S, x, y), NotLater(S, y, z)
    PROVE  NotLater(S, x, z)
<1> SUFFICES ASSUME NEW a \in S
             PROVE  /\ x.rm[a] <= z.rm[a]
                    /\ IF z.tr[a] = Transport!NoTransport
                       THEN x.tr[a] = Transport!NoTransport \/ (0 < z.rm[a] /\ x.tr[a].ts <= z.rm[a])
                       ELSE z.rm[a] < z.tr[a].ts /\ x.tr[a].ts <= z.tr[a].ts
  BY DEF NotLater
<1>1. /\ x.rm[a] \in Nat /\ y.rm[a] \in Nat /\ z.rm[a] \in Nat
      /\ x.tr[a].ts \in Nat /\ y.tr[a].ts \in Nat /\ z.tr[a].ts \in Nat
  BY DEF ItemRecords, TransportRecords
<1>2. Transport!NoTransport.ts = 0 BY DEF Transport!NoTransport
<1> QED BY <1>1, <1>2 DEF NotLater

(* The device makes another change, or more addresses have been primary. *)
LEMMA OnTheWayLater ==
    ASSUME NEW S \in SUBSET Addrs, NEW T \in SUBSET S, NEW P, NEW item \in [P -> ItemRecords],
           NEW x \in ItemRecords, NEW y \in ItemRecords, NEW z \in ItemRecords, NEW b,
           OnTheWay(S, P, item, x, y, b), NotLater(T, y, z)
    PROVE  OnTheWay(T, P, item, x, z, FALSE)
<1>1. ASSUME NEW u \in ItemRecords, NotLater(S, u, y) PROVE NotLater(T, u, z)
  <2>1. NotLater(T, u, y) BY <1>1 DEF NotLater
  <2>2. T \in SUBSET Addrs OBVIOUS
  <2> QED BY <2>1, <2>2, EarlierTrans
<1>2. \A p \in P : NotLater(T, x, item[p]) BY DEF OnTheWay, NotLater
<1>3. \A p, q \in P : Lex(p, q) => NotLater(T, item[p], item[q])
  <2> SUFFICES ASSUME NEW p \in P, NEW q \in P, Lex(p, q) PROVE NotLater(T, item[p], item[q]) OBVIOUS
  <2>1. NotLater(S, item[p], item[q]) BY DEF OnTheWay
  <2> QED BY <2>1 DEF NotLater
<1>4. \A p \in P : NotLater(T, item[p], z) BY <1>1 DEF OnTheWay
<1>5. NotLater(T, x, z) BY <1>1 DEF OnTheWay
<1> QED BY <1>2, <1>3, <1>4, <1>5 DEF OnTheWay

LEMMA OnTheWayFewer ==
    ASSUME NEW S \in SUBSET Addrs, NEW T \in SUBSET S, NEW P, NEW item, NEW x, NEW y, NEW b,
           OnTheWay(S, P, item, x, y, b)
    PROVE  OnTheWay(T, P, item, x, y, b)
<1>1. \A p \in P : NotLater(T, x, item[p]) /\ NotLater(T, item[p], y) BY DEF OnTheWay, NotLater
<1>2. \A p, q \in P : Lex(p, q) => NotLater(T, item[p], item[q])
  <2> SUFFICES ASSUME NEW p \in P, NEW q \in P, Lex(p, q) PROVE NotLater(T, item[p], item[q]) OBVIOUS
  <2>1. NotLater(S, item[p], item[q]) BY DEF OnTheWay
  <2> QED BY <2>1 DEF NotLater
<1>3. NotLater(T, x, y) BY DEF OnTheWay, NotLater
<1>4. ASSUME b PROVE IF P = {} THEN Same(T, x, y)
                     ELSE \E p \in P : (\A q \in P : q = p \/ Lex(q, p)) /\ Same(T, item[p], y)
  <2>1. CASE P = {} BY <1>4, <2>1 DEF OnTheWay, Same
  <2>2. CASE P # {}
    <3>1. PICK p \in P : (\A q \in P : q = p \/ Lex(q, p)) /\ Same(S, item[p], y) BY <1>4, <2>2 DEF OnTheWay
    <3>2. Same(T, item[p], y) BY <3>1 DEF Same
    <3> QED BY <2>2, <3>1, <3>2
  <2> QED BY <2>1, <2>2
<1> QED BY <1>1, <1>2, <1>3, <1>4 DEF OnTheWay

(* It announces its tables: they are the last item. *)
LEMMA OnTheWayMore ==
    ASSUME NEW S \in SUBSET Addrs, NEW P, NEW item \in [P -> ItemRecords], NEW x \in ItemRecords,
           NEW y \in ItemRecords, NEW b, OnTheWay(S, P, item, x, y, b), NotLater(S, y, y),
           NEW r, r \notin P, \A p \in P : Lex(p, r) /\ ~Lex(r, p), ~Lex(r, r),
           NEW Q, Q = P \cup {r}, NEW more, \A p \in P : more[p] = item[p],
           more[r] \in ItemRecords, Same(S, more[r], y)
    PROVE  OnTheWay(S, Q, more, x, y, TRUE)
<1>1. ASSUME NEW u \in ItemRecords PROVE NotLater(S, u, more[r]) <=> NotLater(S, u, y)
  BY DEF NotLater, Same
<1>2. NotLater(S, more[r], y) BY DEF NotLater, Same
<1>3. \A p \in Q : NotLater(S, x, more[p]) /\ NotLater(S, more[p], y)
  <2> SUFFICES ASSUME NEW p \in Q PROVE NotLater(S, x, more[p]) /\ NotLater(S, more[p], y) OBVIOUS
  <2>1. CASE p = r BY <1>1, <1>2, <2>1 DEF OnTheWay
  <2>2. CASE p \in P BY <2>2 DEF OnTheWay
  <2> QED BY <2>1, <2>2
<1>4. \A p, q \in Q : Lex(p, q) => NotLater(S, more[p], more[q])
  <2> SUFFICES ASSUME NEW p \in Q, NEW q \in Q, Lex(p, q) PROVE NotLater(S, more[p], more[q]) OBVIOUS
  <2>1. p \in P OBVIOUS
  <2>2. CASE q = r
    <3>1. NotLater(S, item[p], y) /\ item[p] \in ItemRecords /\ more[p] = item[p] BY <2>1 DEF OnTheWay
    <3> QED BY <1>1, <2>2, <3>1
  <2>3. CASE q \in P BY <2>1, <2>3 DEF OnTheWay
  <2> QED BY <2>2, <2>3
<1>5. \E p \in Q : (\A q \in Q : q = p \/ Lex(q, p)) /\ Same(S, more[p], y) OBVIOUS
<1>6. NotLater(S, x, y) BY DEF OnTheWay
<1> QED BY <1>3, <1>4, <1>5, <1>6 DEF OnTheWay

(* The first item is executed: the tables of the device become that state. *)
LEMMA OnTheWayLess ==
    ASSUME NEW S \in SUBSET Addrs, NEW P, NEW item, NEW x, NEW y, NEW b \in BOOLEAN, OnTheWay(S, P, item, x, y, b),
           NEW r \in P, \A p \in P : p = r \/ Lex(r, p), ~Lex(r, r), \A p \in P : ~(Lex(r, p) /\ Lex(p, r)),
           NEW v, Same(S, v, item[r]),
           NEW Q, NEW f, NEW rest, \A q \in Q : f[q] \in P /\ f[q] # r /\ rest[q] = item[f[q]],
           \A p \in P : p # r => \E q \in Q : f[q] = p,
           \A p, q \in Q : Lex(p, q) <=> Lex(f[p], f[q]),
           \A p, q \in Q : f[p] = f[q] => p = q
    PROVE  OnTheWay(S, Q, rest, v, y, b)
<1>1. \A u : NotLater(S, item[r], u) <=> NotLater(S, v, u) BY DEF NotLater, Same
<1>2. \A p \in Q : NotLater(S, v, rest[p]) /\ NotLater(S, rest[p], y)
  <2> SUFFICES ASSUME NEW p \in Q PROVE NotLater(S, v, rest[p]) /\ NotLater(S, rest[p], y) OBVIOUS
  <2>1. f[p] \in P /\ Lex(r, f[p]) /\ rest[p] = item[f[p]] OBVIOUS
  <2>2. NotLater(S, item[r], item[f[p]]) /\ NotLater(S, item[f[p]], y) BY <2>1 DEF OnTheWay
  <2> QED BY <1>1, <2>1, <2>2
<1>3. \A p, q \in Q : Lex(p, q) => NotLater(S, rest[p], rest[q]) BY DEF OnTheWay
<1>4. NotLater(S, v, y) BY <1>1 DEF OnTheWay
<1>5. ASSUME b PROVE IF Q = {} THEN Same(S, v, y)
                     ELSE \E p \in Q : (\A q \in Q : q = p \/ Lex(q, p)) /\ Same(S, rest[p], y)
  <2>1. PICK l \in P : (\A q \in P : q = l \/ Lex(q, l)) /\ Same(S, item[l], y) BY <1>5 DEF OnTheWay
  <2>2. CASE l = r
    <3>1. \A p \in P : p = r BY <2>1, <2>2
    <3>2. Q = {} BY <3>1
    <3>3. Same(S, v, y) BY <2>1, <2>2 DEF Same
    <3> QED BY <3>2, <3>3
  <2>3. CASE l # r
    <3>1. PICK m \in Q : f[m] = l BY <2>3
    <3>2. \A q \in Q : q = m \/ Lex(q, m)
      <4> SUFFICES ASSUME NEW q \in Q PROVE q = m \/ Lex(q, m) OBVIOUS
      <4>1. f[q] = l \/ Lex(f[q], l) BY <2>1
      <4> QED BY <3>1, <4>1
    <3>3. Same(S, rest[m], y) BY <2>1, <3>1
    <3> QED BY <3>2, <3>3
  <2> QED BY <2>2, <2>3
<1> QED BY <1>2, <1>3, <1>4, <1>5 DEF OnTheWay
(* Merging such an item gives its state, at the addresses that were never     *)
(* primary.                                                                   *)
LEMMA MergeGives ==
    ASSUME NEW d, NEW S \in SUBSET Addrs, primary[d] \notin S,
           NEW x \in ItemRecords, NEW m \in ItemRecords, NEW b, NotLater(S, x, m),
           NEW v, v = Transport!Merged(d, [tr |-> x.tr, one |-> b, rm |-> x.rm], m)
    PROVE  Same(S, v, m)
<1> SUFFICES ASSUME NEW a \in S PROVE v.rm[a] = m.rm[a] /\ v.tr[a] = m.tr[a] BY DEF Same
<1>1. PICK t, r, u, n : t = x.tr[a] /\ r = x.rm[a] /\ u = m.tr[a] /\ n = m.rm[a] OBVIOUS
<1>2. t \in TransportRecords /\ u \in TransportRecords /\ r \in Nat /\ n \in Nat
  BY <1>1 DEF ItemRecords
<1>3. PICK added : added = Transport!AfterAdds(x.tr, m) OBVIOUS
<1>4. added[a] = IF u = Transport!NoTransport THEN t
                 ELSE IF t = Transport!NoTransport THEN u ELSE Transport!Saved(t, u)
  BY <1>1, <1>3 DEF Transport!AfterAdds
<1>5. a \in Transport!Applied(d, added, m) <=> n # 0 BY <1>1 DEF Transport!Applied
<1>6. v.rm[a] = IF n # 0 /\ n > r THEN n ELSE r
  BY <1>1, <1>3, <1>5 DEF Transport!Merged
<1>7. v.tr[a] = IF n # 0 /\ added[a].ts <= n THEN Transport!NoTransport ELSE added[a]
  BY <1>1, <1>3, <1>5 DEF Transport!Merged, Transport!Outdated
<1>8. r <= n /\ IF u = Transport!NoTransport THEN t = Transport!NoTransport \/ (0 < n /\ t.ts <= n)
                                           ELSE n < u.ts /\ t.ts <= u.ts
  BY <1>1 DEF NotLater
<1>9. Transport!NoTransport.ts = 0 BY DEF Transport!NoTransport
<1>10. t.ts \in Nat /\ u.ts \in Nat BY <1>2 DEF TransportRecords
<1>11. v.rm[a] = n BY <1>2, <1>6, <1>8
<1>12. v.tr[a] = u
  <2>1. CASE u = Transport!NoTransport
    <3>1. added[a] = t BY <1>4, <2>1
    <3>2. CASE t = Transport!NoTransport BY <1>7, <2>1, <3>1, <3>2
    <3>3. CASE 0 < n /\ t.ts <= n BY <1>7, <2>1, <3>1, <3>3
    <3> QED BY <1>8, <2>1, <3>2, <3>3
  <2>2. CASE u # Transport!NoTransport
    <3>1. added[a] = u
      <4>1. CASE t = Transport!NoTransport BY <1>4, <2>2, <4>1
      <4>2. CASE t # Transport!NoTransport
        <5>1. added[a] = Transport!Saved(t, u) BY <1>4, <2>2, <4>2
        <5>2. CASE t.ver # u.ver \/ t.ts < u.ts \/ t.pub # u.pub BY <5>1, <5>2 DEF Transport!Saved
        <5>3. CASE ~(t.ver # u.ver \/ t.ts < u.ts \/ t.pub # u.pub)
          <6>1. t.ts = u.ts BY <1>8, <1>10, <2>2, <5>3
          <6>2. t = u BY <1>2, <5>3, <6>1 DEF TransportRecords
          <6> QED BY <5>1, <6>2 DEF Transport!Saved
        <5> QED BY <5>2, <5>3
      <4> QED BY <4>1, <4>2
    <3> QED BY <1>2, <1>7, <1>8, <1>10, <2>2, <3>1
  <2> QED BY <2>1, <2>2
<1> QED BY <1>1, <1>11, <1>12

Plain == Addrs \ (used \cup {First})
Table(d) == [rm |-> rm[d], tr |-> tr[d]]

(* What a device e has not executed yet of what w announced: the rest of the  *)
(* message it reads, the messages it has not read, and what w has not sent.   *)
NotExecuted(w, e, k) ==
    IF k = read[e] THEN incoming[e]
    ELSE IF k = Len(log) + 1 THEN items[w]
    ELSE IF log[k].from = w THEN log[k].items ELSE << >>
Places(w, e) ==
    {p \in Nat \X Nat : p[1] \in read[e] .. Len(log) + 1 /\ p[2] \in 1 .. Len(NotExecuted(w, e, p[1]))}
ItemAt(w, e) == [p \in Places(w, e) |-> NotExecuted(w, e, p[1])[p[2]]]
Announced(w) == op[w] \notin {"announce", "announce_primary"}
Follows(w, e) == OnTheWay(Plain, Places(w, e), ItemAt(w, e), Table(e), Table(w), Announced(w))

(* Of all devices w was the last to make changes.  It has read what the       *)
(* others sent; they have sent everything and have at most its mail to read.  *)
Turn(w) ==
    /\ follow[w] = NoAddr /\ \A i \in read[w] + 1 .. Len(log) : log[i].from = w
    /\ \A e \in Devices \ {w} :
         /\ op[e] = "no" /\ items[e] = << >>
         /\ \A i \in read[e] + 1 .. Len(log) : log[i].from \in {e, w}
Dated(w) == \A a \in Plain : tr[w][a].ts <= now /\ rm[w][a] <= now
Leads(w) ==
    /\ Turn(w) /\ Dated(w) /\ NotLater(Plain, Table(w), Table(w))
    /\ \A e \in Devices \ {w} : Follows(w, e)

Reading ==
    /\ DOMAIN follow = Devices
    /\ \A d \in Devices : /\ primary[d] \in used /\ read[d] <= Len(log)
                          /\ follow[d] = NoAddr => incoming[d] = << >>
AgreeInv == Reading /\ \E w \in Devices : Leads(w)

LEMMA TableType == ASSUME RelayTypes, NEW d \in Devices PROVE Table(d) \in ItemRecords
BY DEF RelayTypes, Table, ItemRecords

LEMMA ItemsType ==
    ASSUME RelayTypes, Reading, NEW w \in Devices, NEW e \in Devices
    PROVE  /\ \A k \in read[e] .. Len(log) + 1 : NotExecuted(w, e, k) \in Seq(ItemRecords)
           /\ ItemAt(w, e) \in [Places(w, e) -> ItemRecords]
<1>1. Len(log) \in Nat /\ read[e] \in Nat /\ read[e] <= Len(log) BY LenProperties DEF RelayTypes, Reading
<1>2. ASSUME NEW k \in read[e] .. Len(log) + 1 PROVE NotExecuted(w, e, k) \in Seq(ItemRecords)
  <2>1. CASE k = read[e] BY <2>1 DEF NotExecuted, RelayTypes
  <2>2. CASE k # read[e] /\ k = Len(log) + 1 BY <2>2 DEF NotExecuted, RelayTypes
  <2>3. CASE k # read[e] /\ k # Len(log) + 1
    <3>1. k \in 1 .. Len(log) BY <1>1, <2>3
    <3>2. log[k] \in SyncMessages BY <3>1, ElementOfSeq DEF RelayTypes
    <3>3. log[k].items \in Seq(ItemRecords) BY <3>2 DEF SyncMessages
    <3>4. << >> \in Seq(ItemRecords) BY EmptySeq
    <3> QED BY <2>3, <3>3, <3>4 DEF NotExecuted
  <2> QED BY <2>1, <2>2, <2>3
<1>3. ASSUME NEW p \in Places(w, e) PROVE ItemAt(w, e)[p] \in ItemRecords
  <2>1. p[1] \in read[e] .. Len(log) + 1 /\ p[2] \in 1 .. Len(NotExecuted(w, e, p[1])) BY DEF Places
  <2>2. NotExecuted(w, e, p[1]) \in Seq(ItemRecords) BY <1>2, <2>1
  <2>3. NotExecuted(w, e, p[1])[p[2]] \in ItemRecords BY <2>1, <2>2, ElementOfSeq
  <2> QED BY <2>3 DEF ItemAt
<1>4. ItemAt(w, e) = [p \in Places(w, e) |-> ItemAt(w, e)[p]] BY DEF ItemAt
<1> QED BY <1>2, <1>3, <1>4

(* Who has read everything has the tables of the device that has sent it. *)
LEMMA NothingLeft ==
    ASSUME RelayTypes, Reading, NEW w \in Devices, NEW e \in Devices, e # w,
           items[w] = << >>, Transport!Current(e)
    PROVE  Places(w, e) = {}
<1> SUFFICES ASSUME NEW p \in Places(w, e) PROVE FALSE OBVIOUS
<1>0. Len(log) \in Nat /\ read[e] \in Nat /\ read[e] <= Len(log) BY LenProperties DEF RelayTypes, Reading
<1>1. PICK k : k = p[1] OBVIOUS
<1>2. k \in read[e] .. Len(log) + 1 /\ p[2] \in 1 .. Len(NotExecuted(w, e, k)) BY <1>1 DEF Places
<1>3. NotExecuted(w, e, k) = << >>
  <2>1. CASE k = read[e] BY <2>1 DEF NotExecuted, Reading, Transport!Current
  <2>2. CASE k # read[e] /\ k = Len(log) + 1 BY <2>2 DEF NotExecuted
  <2>3. CASE k # read[e] /\ k # Len(log) + 1
    <3>1. k \in read[e] + 1 .. Len(log) BY <1>0, <1>2, <2>3
    <3>2. log[k].from = e BY <3>1 DEF Transport!Current
    <3> QED BY <2>3, <3>2 DEF NotExecuted
  <2> QED BY <2>1, <2>2, <2>3
<1>4. Len(NotExecuted(w, e, k)) = 0 BY <1>3
<1> QED BY <1>2, <1>4

LEMMA AllTheSame ==
    ASSUME RelayTypes, Reading, NEW w \in Devices, Leads(w), items[w] = << >>, op[w] = "no",
           NEW e \in Devices, Transport!Current(e)
    PROVE  Same(Plain, Table(e), Table(w))
<1>1. CASE e = w BY <1>1 DEF Same
<1>2. CASE e # w
  <2>1. Places(w, e) = {} BY <1>2, NothingLeft
  <2>2. Follows(w, e) /\ Announced(w) BY <1>2 DEF Leads, Announced
  <2> QED BY <2>1, <2>2 DEF Follows, OnTheWay
<1> QED BY <1>1, <1>2

(* A device may make a change only when it can take its turn. *)
LEMMA TakesTurn ==
    ASSUME TakingTurns, RelayTypes, AgreeInv, NEW d \in Devices, Transport!MayChange(d)
    PROVE  Leads(d)
<1>1. PICK w \in Devices : Leads(w) BY DEF AgreeInv
<1>2. Reading BY DEF AgreeInv
<1>3. CASE w = d BY <1>1, <1>3
<1>4. CASE w # d
  <2>1. Transport!Current(d) /\ \A e \in Devices \ {d} : Transport!CaughtUp(e) BY DEF TakingTurns, Transport!MayChange
  <2>2. \A e \in Devices : Transport!Current(e) BY <2>1 DEF Transport!CaughtUp
  <2>3. items[w] = << >> /\ op[w] = "no" BY <1>4, <2>1 DEF Transport!CaughtUp
  <2>4. \A e \in Devices : Same(Plain, Table(e), Table(w)) BY <1>1, <1>2, <2>2, <2>3, AllTheSame
  <2>5. items[d] = << >> BY <1>1, <1>4 DEF Leads, Turn
  <2>6. Turn(d) BY <2>1, <2>2 DEF Turn, Transport!CaughtUp, Transport!Current
  <2>7. \A e, g \in Devices : Same(Plain, Table(e), Table(g)) /\ NotLater(Plain, Table(e), Table(g))
    <3>1. NotLater(Plain, Table(w), Table(w)) BY <1>1 DEF Leads
    <3> SUFFICES ASSUME NEW e \in Devices, NEW g \in Devices
                 PROVE  Same(Plain, Table(e), Table(g)) /\ NotLater(Plain, Table(e), Table(g))
      OBVIOUS
    <3>2. Same(Plain, Table(e), Table(w)) /\ Same(Plain, Table(g), Table(w)) BY <2>4
    <3> QED BY <3>1, <3>2 DEF Same, NotLater
  <2>8. ASSUME NEW e \in Devices \ {d} PROVE Follows(d, e)
    <3>1. Places(d, e) = {} BY <1>2, <2>2, <2>5, NothingLeft
    <3> QED BY <2>7, <3>1 DEF Follows, OnTheWay
  <2>9. Dated(d) BY <1>1, <2>7 DEF Dated, Leads, Same, Table
  <2> QED BY <2>6, <2>7, <2>8, <2>9 DEF Leads
<1> QED BY <1>3, <1>4

LEMMA QuietAgrees == ASSUME RelayTypes, AgreeInv PROVE Transport!TransportsAgree
<1> SUFFICES ASSUME Transport!Quiet, NEW d \in Devices, NEW e \in Devices, NEW a \in Plain
             PROVE  tr[d][a] = tr[e][a]
  BY DEF Transport!TransportsAgree, Plain
<1>1. PICK w \in Devices : Leads(w) BY DEF AgreeInv
<1>2. \A g \in Devices : Transport!Current(g) /\ op[g] = "no" /\ items[g] = << >> BY DEF Transport!Quiet, Transport!CaughtUp
<1>3. Same(Plain, Table(d), Table(w)) /\ Same(Plain, Table(e), Table(w)) BY <1>1, <1>2, AllTheSame DEF AgreeInv
<1> QED BY <1>3 DEF Same, Table
LEMMA PlacesStay ==
    ASSUME NEW w \in Devices, NEW e \in Devices, read'[e] = read[e], incoming'[e] = incoming[e],
           items'[w] = items[w], log' = log
    PROVE  Places(w, e)' = Places(w, e) /\ ItemAt(w, e)' = ItemAt(w, e)
<1>1. \A k : NotExecuted(w, e, k)' = NotExecuted(w, e, k) BY DEF NotExecuted
<1>2. Places(w, e)' = Places(w, e) BY <1>1 DEF Places
<1> QED BY <1>1, <1>2 DEF ItemAt

LEMMA FollowsStays ==
    ASSUME NEW w \in Devices, NEW e \in Devices, Follows(w, e), used \subseteq used',
           tr'[e] = tr[e], rm'[e] = rm[e], tr'[w] = tr[w], rm'[w] = rm[w],
           Announced(w)' <=> Announced(w),
           Places(w, e)' = Places(w, e), ItemAt(w, e)' = ItemAt(w, e)
    PROVE  Follows(w, e)'
<1>1. PICK S, T : S = Plain /\ T = Plain' OBVIOUS
<1>2. S \in SUBSET Addrs /\ T \in SUBSET S BY <1>1 DEF Plain
<1>3. PICK P, item, x, y : P = Places(w, e) /\ item = ItemAt(w, e) /\ x = Table(e) /\ y = Table(w) OBVIOUS
<1>4. PICK b \in BOOLEAN : b = Announced(w) BY DEF Announced
<1>5. OnTheWay(S, P, item, x, y, b) BY <1>1, <1>3, <1>4 DEF Follows
<1>6. OnTheWay(T, P, item, x, y, b) BY <1>2, <1>5, OnTheWayFewer
<1>7. Table(e)' = x /\ Table(w)' = y BY <1>3 DEF Table
<1>8. Announced(w)' = b BY <1>4 DEF Announced
<1>9. Follows(w, e)' = OnTheWay(Plain', Places(w, e)', ItemAt(w, e)', Table(e)', Table(w)', Announced(w)')
  BY DEF Follows, OnTheWay, NotLater, Same, Lex, Transport!NoTransport
<1> QED BY <1>1, <1>3, <1>6, <1>7, <1>8, <1>9

(* Steps that change neither tables nor what is to be executed. *)
LEMMA LeadsStays ==
    ASSUME NEW w \in Devices, Leads(w), used \subseteq used', now \in Nat, now' \in Nat, now <= now',
           RelayTypes, UNCHANGED <<tr, rm, items, incoming, log, read>>, follow'[w] = NoAddr,
           Announced(w)' <=> Announced(w), \A e \in Devices \ {w} : op'[e] = op[e]
    PROVE  Leads(w)'
<1>1. Turn(w)' BY DEF Leads, Turn
<1>2. Plain' \subseteq Plain BY DEF Plain
<1>3. Dated(w)'
  <2>1. \A a \in Addrs : tr[w][a].ts \in Nat /\ rm[w][a] \in Nat BY DEF RelayTypes, TransportRecords
  <2> QED BY <1>2, <2>1 DEF Leads, Dated, Plain
<1>4. NotLater(Plain, Table(w), Table(w))' BY <1>2 DEF Leads, NotLater, Table, Plain, Transport!NoTransport
<1>5. ASSUME NEW e \in Devices \ {w} PROVE Follows(w, e)'
  <2>1. Follows(w, e) BY DEF Leads
  <2>2. Places(w, e)' = Places(w, e) /\ ItemAt(w, e)' = ItemAt(w, e) BY PlacesStay
  <2> QED BY <2>1, <2>2, FollowsStays
<1> QED BY <1>1, <1>3, <1>4, <1>5 DEF Leads

(* A change that the device makes to its own tables. *)
LEMMA LeadChanges ==
    ASSUME RelayTypes, RelayTypes', Reading, NEW w \in Devices, Leads(w), used \subseteq used',
           \A e \in Devices \ {w} : tr'[e] = tr[e] /\ rm'[e] = rm[e] /\ op'[e] = op[e],
           NotLater(Plain', Table(w), Table(w)'), NotLater(Plain', Table(w)', Table(w)'), Dated(w)',
           ~(Announced(w)'), UNCHANGED <<incoming, follow, log, read, items>>
    PROVE  Leads(w)'
<1>1. Turn(w)' BY DEF Leads, Turn
<1>2. ASSUME NEW e \in Devices \ {w} PROVE Follows(w, e)'
  <2>1. PICK S, T : S = Plain /\ T = Plain' OBVIOUS
  <2>2. S \in SUBSET Addrs /\ T \in SUBSET S BY <2>1 DEF Plain
  <2>3. PICK P, item, x, y, z :
          P = Places(w, e) /\ item = ItemAt(w, e) /\ x = Table(e) /\ y = Table(w) /\ z = Table(w)'
    OBVIOUS
  <2>4. item \in [P -> ItemRecords] /\ x \in ItemRecords /\ y \in ItemRecords BY <2>3, ItemsType, TableType
  <2>5. z \in ItemRecords BY <2>3 DEF RelayTypes, Table, ItemRecords, TransportRecords
  <2>6. OnTheWay(S, P, item, x, y, Announced(w)) BY <2>1, <2>3 DEF Leads, Follows
  <2>7. OnTheWay(T, P, item, x, z, FALSE) BY <2>1, <2>2, <2>3, <2>4, <2>5, <2>6, OnTheWayLater
  <2>8. Places(w, e)' = P /\ ItemAt(w, e)' = item BY <2>3, PlacesStay
  <2>9. Table(e)' = x BY <2>3 DEF Table
  <2>10. Follows(w, e)' = OnTheWay(Plain', Places(w, e)', ItemAt(w, e)', Table(e)', Table(w)', Announced(w)')
    BY DEF Follows, OnTheWay, NotLater, Same, Lex, Transport!NoTransport
  <2>11. OnTheWay(T, P, item, x, z, FALSE) => OnTheWay(T, P, item, x, z, Announced(w)') BY DEF OnTheWay
  <2> QED BY <2>1, <2>3, <2>7, <2>8, <2>9, <2>10, <2>11
<1>3. NotLater(Plain, Table(w), Table(w))' = NotLater(Plain', Table(w)', Table(w)') BY DEF NotLater, Transport!NoTransport
<1> QED BY <1>1, <1>2, <1>3 DEF Leads
LEMMA ChangeAgrees ==
    ASSUME TakingTurns, RelayTypes, RelayTypes', AgreeInv, NEW d \in Devices, NEW a \in Addrs, Transport!MayChange(d),
           NEW entry \in TransportRecords, NEW n \in Nat,
           tr' = [tr EXCEPT ![d][a] = entry], rm' = [rm EXCEPT ![d][a] = n], used \subseteq used',
           \E o \in {"announce", "announce_primary"} : op' = [op EXCEPT ![d] = o],
           \A e \in Devices : primary'[e] \in used',
           UNCHANGED <<incoming, follow, log, read, items, now>>,
           Leads(d) /\ a \in Plain' =>
             /\ rm[d][a] <= n /\ n <= now /\ entry.ts <= now
             /\ IF entry = Transport!NoTransport
                THEN tr[d][a] = Transport!NoTransport \/ (0 < n /\ tr[d][a].ts <= n)
                ELSE n < entry.ts /\ tr[d][a].ts <= entry.ts
    PROVE  AgreeInv'
<1>0. /\ tr \in [Devices -> [Addrs -> TransportRecords]] /\ rm \in [Devices -> [Addrs -> Nat]]
      /\ now \in Nat
  BY DEF RelayTypes
<1>1. Leads(d) BY TakesTurn
<1>2. Reading' BY DEF AgreeInv, Reading
<1>3. \A e \in Devices \ {d} : tr'[e] = tr[e] /\ rm'[e] = rm[e] /\ op'[e] = op[e] BY <1>0 DEF RelayTypes
<1>4. ~(Announced(d)') BY DEF Announced, RelayTypes
<1>5. /\ tr'[d][a] = entry /\ rm'[d][a] = n
      /\ \A c \in Addrs \ {a} : tr'[d][c] = tr[d][c] /\ rm'[d][c] = rm[d][c]
  BY <1>0
<1>6. Plain' \subseteq Plain BY DEF Plain
<1>7. PICK y, z : y = Table(d) /\ z = Table(d)' OBVIOUS
<1>8. y.rm = rm[d] /\ y.tr = tr[d] /\ z.rm = rm'[d] /\ z.tr = tr'[d] BY <1>7 DEF Table
<1>9. NotLater(Plain', y, y) BY <1>1, <1>6, <1>7 DEF Leads, NotLater
<1>10. Dated(d)'
  <2> SUFFICES ASSUME NEW c \in Plain' PROVE tr'[d][c].ts <= now /\ rm'[d][c] <= now BY DEF Dated
  <2>1. c \in Addrs /\ c \in Plain BY <1>6 DEF Plain
  <2>2. CASE c = a BY <1>1, <1>5, <2>2
  <2>3. CASE c # a BY <1>1, <1>5, <2>1, <2>3 DEF Leads, Dated
  <2> QED BY <2>2, <2>3
<1>11. NotLater(Plain', y, z)
  <2> SUFFICES ASSUME NEW c \in Plain'
               PROVE  /\ y.rm[c] <= z.rm[c]
                      /\ IF z.tr[c] = Transport!NoTransport
                         THEN y.tr[c] = Transport!NoTransport \/ (0 < z.rm[c] /\ y.tr[c].ts <= z.rm[c])
                         ELSE z.rm[c] < z.tr[c].ts /\ y.tr[c].ts <= z.tr[c].ts
    BY DEF NotLater
  <2>1. CASE c = a BY <1>1, <1>5, <1>8, <2>1
  <2>2. CASE c # a
    <3>1. c \in Addrs BY DEF Plain
    <3> QED BY <1>5, <1>8, <1>9, <2>2, <3>1 DEF NotLater
  <2> QED BY <2>1, <2>2
<1>12. NotLater(Plain', z, z)
  <2> SUFFICES ASSUME NEW c \in Plain'
               PROVE  /\ z.rm[c] <= z.rm[c]
                      /\ z.tr[c] # Transport!NoTransport => z.rm[c] < z.tr[c].ts /\ z.tr[c].ts <= z.tr[c].ts
    BY DEF NotLater
  <2>1. c \in Addrs BY DEF Plain
  <2>2. z.rm[c] \in Nat /\ z.tr[c].ts \in Nat
    <3>1. tr'[d][c] \in TransportRecords /\ rm'[d][c] \in Nat BY <2>1 DEF RelayTypes
    <3> QED BY <1>8, <3>1 DEF TransportRecords
  <2> QED BY <1>11, <2>2 DEF NotLater
<1>13. UNCHANGED <<incoming, follow, log, read, items>> OBVIOUS
<1>14. Leads(d)' BY <1>1, <1>3, <1>4, <1>7, <1>10, <1>11, <1>12, <1>13, LeadChanges DEF AgreeInv
<1> QED BY <1>2, <1>14 DEF AgreeInv

LEMMA LeadRow ==
    ASSUME RelayTypes, NEW d \in Devices, Leads(d), NEW a \in Plain
    PROVE  /\ tr[d][a].ts <= now /\ rm[d][a] <= now
           /\ tr[d][a] # Transport!NoTransport => rm[d][a] < tr[d][a].ts
BY DEF Leads, Dated, NotLater, Table

LEMMA AddAgrees ==
    ASSUME TakingTurns, RelayTypes, RelayTypes', AgreeInv, NEW d \in Devices, NEW a \in Addrs, Transport!AddOrUpdate(d, a)
    PROVE  AgreeInv'
<1>0. /\ tr \in [Devices -> [Addrs -> TransportRecords]] /\ rm \in [Devices -> [Addrs -> Nat]]
      /\ now \in Nat \ {0} /\ changes \in Nat
  BY DEF RelayTypes
<1>1. PICK new : new = [ver |-> changes + 2, ts |-> now, pub |-> TRUE] OBVIOUS
<1>2. PICK entry : entry = Transport!Saved(tr[d][a], new) OBVIOUS
<1>3. entry = new \/ entry = tr[d][a] BY <1>2 DEF Transport!Saved
<1>4. new \in TransportRecords /\ new.ts = now /\ new # Transport!NoTransport
  <2>1. new.pub = TRUE /\ Transport!NoTransport.pub = FALSE BY <1>1 DEF Transport!NoTransport
  <2> QED BY <1>0, <1>1, <2>1 DEF TransportRecords
<1>5. entry \in TransportRecords BY <1>0, <1>3, <1>4
<1>6. tr' = [tr EXCEPT ![d][a] = entry] BY <1>0, <1>1, <1>2 DEF Transport!AddOrUpdate
<1>7. rm' = [rm EXCEPT ![d][a] = rm[d][a]] /\ rm[d][a] \in Nat /\ rm[d][a] < now BY <1>0 DEF Transport!AddOrUpdate
<1>8. entry # Transport!NoTransport
  <2>1. tr[d][a] = Transport!NoTransport => entry = new BY <1>1, <1>2, <1>4 DEF Transport!Saved, Transport!NoTransport
  <2> QED BY <1>3, <1>4, <2>1
<1>9. /\ Transport!MayChange(d) /\ used' = used /\ op' = [op EXCEPT ![d] = "announce"] /\ primary' = primary
      /\ UNCHANGED <<incoming, follow, log, read, items, now>>
  BY DEF Transport!AddOrUpdate
<1>10. \A e \in Devices : primary'[e] \in used' BY <1>9 DEF AgreeInv, Reading
<1>11. ASSUME Leads(d), a \in Plain'
       PROVE  rm[d][a] <= rm[d][a] /\ rm[d][a] <= now /\ entry.ts <= now /\ rm[d][a] < entry.ts /\ tr[d][a].ts <= entry.ts
  <2>1. a \in Plain BY <1>9, <1>11 DEF Plain
  <2>2. tr[d][a].ts \in Nat BY <1>0 DEF TransportRecords
  <2> QED BY <1>0, <1>3, <1>4, <1>7, <1>8, <1>11, <2>1, <2>2, LeadRow
<1> QED BY <1>5, <1>6, <1>7, <1>8, <1>9, <1>10, <1>11, ChangeAgrees

LEMMA DeleteAgrees ==
    ASSUME TakingTurns, RelayTypes, RelayTypes', AgreeInv, NEW d \in Devices, NEW a \in Addrs, Transport!delete_transport(d, a)
    PROVE  AgreeInv'
<1>0. /\ tr[d][a] \in TransportRecords /\ rm[d][a] \in Nat /\ now \in Nat \ {0} BY DEF RelayTypes
<1>1. PICK n : n = Transport!RemovedAt(tr[d][a].ts) OBVIOUS
<1>2. tr[d][a].ts \in Nat BY <1>0 DEF TransportRecords
<1>3. n \in Nat /\ n >= now /\ n >= tr[d][a].ts /\ (tr[d][a].ts <= now => n = now)
  BY <1>0, <1>1, <1>2 DEF Transport!RemovedAt
<1>4. tr' = [tr EXCEPT ![d][a] = Transport!NoTransport] /\ rm' = [rm EXCEPT ![d][a] = n]
  BY <1>1 DEF Transport!delete_transport
<1>5. /\ Transport!MayChange(d) /\ used' = used /\ op' = [op EXCEPT ![d] = "announce"] /\ primary' = primary
      /\ UNCHANGED <<incoming, follow, log, read, items, now>>
  BY DEF Transport!delete_transport
<1>6. \A e \in Devices : primary'[e] \in used' BY <1>5 DEF AgreeInv, Reading
<1>7. Transport!NoTransport.ts = 0 BY DEF Transport!NoTransport
<1>8. ASSUME Leads(d), a \in Plain'
      PROVE  rm[d][a] <= n /\ n <= now /\ Transport!NoTransport.ts <= now /\ 0 < n /\ tr[d][a].ts <= n
  <2>1. a \in Plain BY <1>5, <1>8 DEF Plain
  <2> QED BY <1>0, <1>2, <1>3, <1>7, <1>8, <2>1, LeadRow
<1> QED BY <1>3, <1>4, <1>5, <1>6, <1>8, NoRow, ChangeAgrees

LEMMA UnpublishAgrees ==
    ASSUME TakingTurns, RelayTypes, RelayTypes', AgreeInv, NEW d \in Devices, NEW a \in Addrs, NEW u \in BOOLEAN,
           Transport!set_transport_unpublished(d, a, u)
    PROVE  AgreeInv'
<1>0. /\ tr \in [Devices -> [Addrs -> TransportRecords]] /\ rm \in [Devices -> [Addrs -> Nat]]
      /\ now \in Nat \ {0} /\ tr[d][a] \in TransportRecords
  <2>1. tr \in [Devices -> [Addrs -> TransportRecords]] /\ rm \in [Devices -> [Addrs -> Nat]]
    BY DEF RelayTypes
  <2>2. now \in Nat \ {0} BY DEF RelayTypes
  <2>3. tr[d][a] \in TransportRecords BY <2>1
  <2> QED BY <2>1, <2>2, <2>3
<1>1. PICK b \in BOOLEAN : b = ~u OBVIOUS
<1>2. PICK new : new = [[tr[d][a] EXCEPT !.pub = b] EXCEPT !.ts = now] OBVIOUS
<1>3. new \in TransportRecords /\ new.ts = now BY <1>0, <1>2 DEF TransportRecords
<1>4. tr' = tr \/ (a \in Transport!Has(tr[d]) /\ tr' = [tr EXCEPT ![d][a].pub = b, ![d][a].ts = now])
  BY <1>1 DEF Transport!set_transport_unpublished
<1>5. PICK entry : /\ entry = tr[d][a] \/ (entry = new /\ tr[d][a] # Transport!NoTransport)
                   /\ tr' = [tr EXCEPT ![d][a] = entry]
  <2>1. CASE tr' = tr
    <3>1. tr' = [tr EXCEPT ![d][a] = tr[d][a]] BY <1>0, <2>1
    <3> QED BY <3>1
  <2>2. CASE a \in Transport!Has(tr[d]) /\ tr' = [tr EXCEPT ![d][a].pub = b, ![d][a].ts = now]
    <3>1. tr' = [tr EXCEPT ![d][a] = new] BY <1>0, <1>2, <2>2
    <3>2. tr[d][a] # Transport!NoTransport BY <2>2 DEF Transport!Has
    <3> QED BY <3>1, <3>2
  <2> QED BY <1>4, <2>1, <2>2
<1>6. entry \in TransportRecords BY <1>0, <1>3, <1>5
<1>7. rm' = [rm EXCEPT ![d][a] = rm[d][a]] /\ rm[d][a] \in Nat BY <1>0 DEF Transport!set_transport_unpublished
<1>8. /\ Transport!MayChange(d) /\ used' = used /\ op' = [op EXCEPT ![d] = "announce"] /\ primary' = primary
      /\ UNCHANGED <<incoming, follow, log, read, items, now>>
  BY DEF Transport!set_transport_unpublished
<1>9. \A e \in Devices : primary'[e] \in used' BY <1>8 DEF AgreeInv, Reading
<1>10. ASSUME Leads(d), a \in Plain'
       PROVE  /\ rm[d][a] <= rm[d][a] /\ rm[d][a] <= now /\ entry.ts <= now
              /\ entry = Transport!NoTransport => tr[d][a] = Transport!NoTransport
              /\ entry # Transport!NoTransport => rm[d][a] < entry.ts /\ tr[d][a].ts <= entry.ts
  <2>1. a \in Plain BY <1>8, <1>10 DEF Plain
  <2>2. new # Transport!NoTransport BY <1>0, <1>3 DEF Transport!NoTransport
  <2>3. /\ tr[d][a].ts <= now /\ rm[d][a] <= now
        /\ tr[d][a] # Transport!NoTransport => rm[d][a] < tr[d][a].ts
    BY <1>10, <2>1, LeadRow
  <2>4. tr[d][a].ts \in Nat BY <1>0 DEF TransportRecords
  <2> QED BY <1>0, <1>3, <1>5, <1>7, <2>2, <2>3, <2>4
<1> QED BY <1>5, <1>6, <1>7, <1>8, <1>9, <1>10, ChangeAgrees

LEMMA SetPrimaryAgrees ==
    ASSUME TakingTurns, RelayTypes, RelayTypes', AgreeInv, NEW d \in Devices, NEW a \in Addrs, Transport!SetPrimary(d, a)
    PROVE  AgreeInv'
<1>0. /\ tr \in [Devices -> [Addrs -> TransportRecords]] /\ rm \in [Devices -> [Addrs -> Nat]]
      /\ now \in Nat \ {0} /\ tr[d][a] \in TransportRecords /\ primary \in [Devices -> Addrs]
  BY SMTT(20) DEF RelayTypes
<1>1. PICK entry : entry = [[tr[d][a] EXCEPT !.ts = now] EXCEPT !.pub = TRUE] OBVIOUS
<1>2. entry \in TransportRecords BY <1>0, <1>1 DEF TransportRecords
<1>3. tr' = [tr EXCEPT ![d][a] = entry]
  <2>1. tr' = [tr EXCEPT ![d][a].ts = now, ![d][a].pub = TRUE] BY DEF Transport!SetPrimary
  <2> QED BY <1>0, <1>1, <2>1
<1>4. rm' = [rm EXCEPT ![d][a] = rm[d][a]] /\ rm[d][a] \in Nat BY <1>0 DEF Transport!SetPrimary
<1>5. /\ Transport!MayChange(d) /\ used' = used \cup {a} /\ op' = [op EXCEPT ![d] = "announce_primary"]
      /\ primary' = [primary EXCEPT ![d] = a]
      /\ UNCHANGED <<incoming, follow, log, read, items, now>>
  BY DEF Transport!SetPrimary
<1>6. \A e \in Devices : primary'[e] \in used' BY <1>0, <1>5 DEF AgreeInv, Reading
<1>7. a \notin Plain' BY <1>5 DEF Plain
<1> QED BY <1>2, <1>3, <1>4, <1>5, <1>6, <1>7, ChangeAgrees
(* Two places are in order. *)
LEMMA LexOrder ==
    ASSUME NEW p \in Nat \X Nat, NEW q \in Nat \X Nat
    PROVE  ~Lex(p, p) /\ ~(Lex(p, q) /\ Lex(q, p)) /\ (p = q \/ Lex(p, q) \/ Lex(q, p))
<1>1. PICK i, j \in Nat : p = <<i, j>> OBVIOUS
<1>2. PICK k, l \in Nat : q = <<k, l>> OBVIOUS
<1> QED BY <1>1, <1>2 DEF Lex

LEMMA AnnounceAgrees ==
    ASSUME RelayTypes, RelayTypes', AgreeInv, NEW d \in Devices, Transport!send_sync_transports(d)
    PROVE  AgreeInv'
<1>0. PICK w \in Devices : Leads(w) BY DEF AgreeInv
<1>1. d = w /\ op[w] \in {"announce", "announce_primary"}
  BY <1>0 DEF Leads, Turn, Transport!send_sync_transports
<1>2. PICK item : item = [rm |-> rm[w],
                          tr |-> [a \in Addrs |-> IF a = First /\ one[w] THEN Transport!NoTransport ELSE tr[w][a]]]
  OBVIOUS
<1>3. /\ tr \in [Devices -> [Addrs -> TransportRecords]] /\ rm \in [Devices -> [Addrs -> Nat]]
      /\ items \in [Devices -> Seq(ItemRecords)] /\ log \in Seq(SyncMessages) /\ read \in [Devices -> Nat]
      /\ DOMAIN op = Devices
  BY DEF RelayTypes
<1>4. item \in ItemRecords /\ Same(Plain, item, Table(w)) BY <1>2, <1>3, NoRow DEF ItemRecords, Same, Table, Plain
<1>5. items' = [items EXCEPT ![w] = Append(items[w], item)] BY <1>1, <1>2, <1>3 DEF Transport!send_sync_transports
<1>6. /\ UNCHANGED <<tr, rm, primary, incoming, follow, log, read, now, used>>
      /\ op' = [op EXCEPT ![w] = IF op[w] = "announce" THEN "no" ELSE "uncache"]
  BY <1>1, <1>3 DEF Transport!send_sync_transports
<1>7. Announced(w)' BY <1>3, <1>6 DEF Announced
<1>8. \A e \in Devices \ {w} : op'[e] = op[e] /\ items'[e] = items[e] BY <1>3, <1>5, <1>6
<1>9. PICK s : s = items[w] OBVIOUS
<1>10. /\ items'[w] = Append(s, item) /\ s \in Seq(ItemRecords) /\ Len(s) \in Nat /\ Len(log) \in Nat
       /\ Len(Append(s, item)) = Len(s) + 1 /\ Append(s, item)[Len(s) + 1] = item
       /\ \A i \in 1 .. Len(s) : Append(s, item)[i] = s[i]
  BY <1>3, <1>4, <1>5, <1>9, AppendProperties, LenProperties
<1>11. ASSUME NEW e \in Devices \ {w} PROVE Follows(w, e)'
  <2>1. PICK S, P, x, y, r, n : /\ S = Plain /\ P = Places(w, e) /\ x = Table(e) /\ y = Table(w)
                                /\ n = Len(log) + 1 /\ r = <<n, Len(s) + 1>>
    OBVIOUS
  <2>2. read[e] \in Nat /\ read[e] <= Len(log) /\ n \in Nat /\ r \in Nat \X Nat /\ r[1] = n /\ r[2] = Len(s) + 1
    BY <1>3, <1>10, <2>1 DEF AgreeInv, Reading
  <2>3. NotExecuted(w, e, n) = s /\ NotExecuted(w, e, n)' = Append(s, item)
    BY <1>6, <1>9, <1>10, <2>1, <2>2 DEF NotExecuted
  <2>4. \A k : k # n => NotExecuted(w, e, k)' = NotExecuted(w, e, k) BY <1>6, <2>1 DEF NotExecuted
  <2>5. \A p \in P : p \in Nat \X Nat /\ Lex(p, r) /\ p # r
    <3> SUFFICES ASSUME NEW p \in P PROVE p \in Nat \X Nat /\ Lex(p, r) /\ p # r OBVIOUS
    <3>1. p \in Nat \X Nat /\ p[1] \in read[e] .. n /\ p[2] \in 1 .. Len(NotExecuted(w, e, p[1])) BY <2>1 DEF Places
    <3>2. CASE p[1] = n BY <1>10, <2>2, <2>3, <3>1, <3>2 DEF Lex
    <3>3. CASE p[1] # n BY <2>2, <3>1, <3>3 DEF Lex
    <3> QED BY <3>2, <3>3
  <2>6. Places(w, e)' = P \cup {r}
    <3>1. ASSUME NEW p \in Nat \X Nat
          PROVE  p \in Places(w, e)' <=> p \in P \cup {r}
      <4>1. p \in Places(w, e)' <=> p[1] \in read[e] .. n /\ p[2] \in 1 .. Len(NotExecuted(w, e, p[1])')
        BY <1>6, <2>1 DEF Places
      <4>2. p \in P <=> p[1] \in read[e] .. n /\ p[2] \in 1 .. Len(NotExecuted(w, e, p[1]))
        BY <2>1 DEF Places
      <4>3. CASE p[1] # n BY <2>2, <2>4, <4>1, <4>2, <4>3
      <4>4. CASE p[1] = n
        <5>1. p = r <=> p[2] = Len(s) + 1 BY <2>1, <4>4
        <5>0. n \in read[e] .. n BY <1>10, <2>1, <2>2
        <5>2. p \in P <=> p[2] \in 1 .. Len(s) BY <2>3, <4>2, <4>4, <5>0
        <5>3. p \in Places(w, e)' <=> p[2] \in 1 .. Len(s) + 1 BY <1>10, <2>3, <4>1, <4>4, <5>0
        <5>4. p[2] \in Nat OBVIOUS
        <5> QED BY <1>10, <5>1, <5>2, <5>3, <5>4
      <4> QED BY <4>3, <4>4
    <3>2. Places(w, e)' \subseteq Nat \X Nat /\ P \subseteq Nat \X Nat BY <2>1 DEF Places
    <3> QED BY <2>2, <3>1, <3>2
  <2>7. PICK more : more = ItemAt(w, e)' OBVIOUS
  <2>8. \A p \in P : more[p] = ItemAt(w, e)[p]
    <3> SUFFICES ASSUME NEW p \in P PROVE more[p] = ItemAt(w, e)[p] OBVIOUS
    <3>1. more[p] = NotExecuted(w, e, p[1])'[p[2]] BY <2>6, <2>7 DEF ItemAt
    <3>2. ItemAt(w, e)[p] = NotExecuted(w, e, p[1])[p[2]] /\ p[2] \in 1 .. Len(NotExecuted(w, e, p[1]))
      BY <2>1 DEF ItemAt, Places
    <3>3. CASE p[1] # n BY <2>4, <3>1, <3>2, <3>3
    <3>4. CASE p[1] = n BY <1>10, <2>3, <3>1, <3>2, <3>4
    <3> QED BY <3>3, <3>4
  <2>9. more[r] = item
    <3>1. more[r] = NotExecuted(w, e, r[1])'[r[2]] BY <2>6, <2>7 DEF ItemAt
    <3> QED BY <1>10, <2>2, <2>3, <3>1
  <2>10. ItemAt(w, e) \in [P -> ItemRecords] /\ x \in ItemRecords /\ y \in ItemRecords
    BY <2>1, ItemsType, TableType DEF AgreeInv
  <2>11. OnTheWay(S, P, ItemAt(w, e), x, y, Announced(w)) /\ NotLater(S, y, y) BY <1>0, <2>1 DEF Leads, Follows
  <2>12. S \in SUBSET Addrs BY <2>1 DEF Plain
  <2>13. r \notin P /\ (\A p \in P : Lex(p, r) /\ ~Lex(r, p)) /\ ~Lex(r, r) BY <2>2, <2>5, LexOrder
  <2>14. more[r] \in ItemRecords /\ Same(S, more[r], y) BY <1>4, <2>1, <2>9
  <2>15. OnTheWay(S, P \cup {r}, more, x, y, TRUE)
    BY <2>8, <2>10, <2>11, <2>12, <2>13, <2>14, OnTheWayMore
  <2>16. Plain' = S /\ Table(e)' = x /\ Table(w)' = y BY <1>6, <2>1 DEF Plain, Table
  <2>17. Follows(w, e)' = OnTheWay(Plain', Places(w, e)', ItemAt(w, e)', Table(e)', Table(w)', Announced(w)')
    BY DEF Follows, OnTheWay, NotLater, Same, Lex, Transport!NoTransport
  <2>18. Announced(w)' = TRUE BY <1>7 DEF Announced
  <2> QED BY <2>6, <2>7, <2>15, <2>16, <2>17, <2>18
<1>12. Turn(w)' BY <1>0, <1>6, <1>8 DEF Leads, Turn
<1>13. Dated(w)' /\ NotLater(Plain, Table(w), Table(w))'
  BY <1>0, <1>6 DEF Leads, Dated, Plain, NotLater, Table, Transport!NoTransport
<1>14. Reading' BY <1>6 DEF AgreeInv, Reading
<1>15. Leads(w)' BY <1>11, <1>12, <1>13 DEF Leads
<1> QED BY <1>14, <1>15 DEF AgreeInv
LEMMA SendAgrees ==
    ASSUME RelayTypes, RelayTypes', AgreeInv, NEW d \in Devices, Transport!send_sync_msg(d)
    PROVE  AgreeInv'
<1>0. PICK w \in Devices : Leads(w) BY DEF AgreeInv
<1>1. d = w BY <1>0 DEF Leads, Turn, Transport!send_sync_msg
<1>2. /\ items \in [Devices -> Seq(ItemRecords)] /\ log \in Seq(SyncMessages) /\ read \in [Devices -> Nat]
      /\ cached \in [Devices -> Addrs]
  BY DEF RelayTypes
<1>3. PICK m : m = [from |-> w, addr |-> cached[w], items |-> items[w]] OBVIOUS
<1>4. /\ log' = Append(log, m) /\ items' = [items EXCEPT ![w] = << >>]
      /\ UNCHANGED <<tr, rm, primary, incoming, follow, read, now, used, op>>
  BY <1>1, <1>3 DEF Transport!send_sync_msg
<1>5. m \in SyncMessages /\ m.from = w /\ m.items = items[w] BY <1>2, <1>3 DEF SyncMessages
<1>6. PICK n : n = Len(log) OBVIOUS
<1>7. /\ n \in Nat /\ Len(log') = n + 1 /\ log'[n + 1] = m /\ \A i \in 1 .. n : log'[i] = log[i]
  BY <1>2, <1>4, <1>5, <1>6, AppendProperties, LenProperties
<1>8. items'[w] = << >> /\ \A e \in Devices \ {w} : items'[e] = items[e] BY <1>2, <1>4
<1>9. \A e \in Devices : read[e] \in Nat /\ read[e] <= n BY <1>2, <1>6 DEF AgreeInv, Reading
<1>10. ASSUME NEW e \in Devices \ {w} PROVE Follows(w, e)'
  <2>1. NotExecuted(w, e, n + 2)' = << >> BY <1>4, <1>7, <1>8, <1>9 DEF NotExecuted
  <2>2. \A k \in read[e] .. n + 1 : NotExecuted(w, e, k)' = NotExecuted(w, e, k)
    <3> SUFFICES ASSUME NEW k \in read[e] .. n + 1 PROVE NotExecuted(w, e, k)' = NotExecuted(w, e, k) OBVIOUS
    <3>1. CASE k = read[e] BY <1>4, <3>1 DEF NotExecuted
    <3>2. CASE k = n + 1
      <4>1. k # read[e] /\ k # n + 2 BY <1>7, <1>9, <3>2
      <4>2. NotExecuted(w, e, k) = items[w] BY <1>6, <3>2, <4>1 DEF NotExecuted
      <4>3. NotExecuted(w, e, k)' = log'[n + 1].items BY <1>4, <1>5, <1>7, <3>2, <4>1 DEF NotExecuted
      <4> QED BY <1>5, <1>7, <4>2, <4>3
    <3>3. CASE k # read[e] /\ k # n + 1
      <4>1. k \in 1 .. n /\ k # n + 2 BY <1>7, <1>9, <3>3
      <4>2. log'[k] = log[k] BY <1>7, <4>1
      <4> QED BY <1>4, <1>6, <1>7, <3>3, <4>1, <4>2 DEF NotExecuted
    <3> QED BY <3>1, <3>2, <3>3
  <2>3. ASSUME NEW p \in Nat \X Nat PROVE p \in Places(w, e)' <=> p \in Places(w, e)
    <3>1. p \in Places(w, e)' <=> p[1] \in read[e] .. n + 2 /\ p[2] \in 1 .. Len(NotExecuted(w, e, p[1])')
      <4>1. Len(log') + 1 = n + 2 /\ read' = read BY <1>4, <1>7
      <4> QED BY <4>1 DEF Places
    <3>2. p \in Places(w, e) <=> p[1] \in read[e] .. n + 1 /\ p[2] \in 1 .. Len(NotExecuted(w, e, p[1]))
      BY <1>6 DEF Places
    <3>3. CASE p[1] = n + 2
      <4>1. Len(NotExecuted(w, e, p[1])') = 0 BY <2>1, <3>3
      <4>2. p \notin Places(w, e)' BY <3>1, <4>1
      <4>3. p \notin Places(w, e) BY <1>7, <1>9, <3>2, <3>3
      <4> QED BY <4>2, <4>3
    <3>4. CASE p[1] # n + 2
      <4>1. p[1] \in read[e] .. n + 2 <=> p[1] \in read[e] .. n + 1 BY <1>7, <1>9, <3>4
      <4> QED BY <2>2, <3>1, <3>2, <4>1
    <3> QED BY <3>3, <3>4
  <2>4. Places(w, e)' = Places(w, e)
    <3>1. Places(w, e)' \subseteq Nat \X Nat /\ Places(w, e) \subseteq Nat \X Nat BY DEF Places
    <3> QED BY <2>3, <3>1
  <2>5. ItemAt(w, e)' = ItemAt(w, e)
    <3>1. \A p \in Places(w, e) : p[1] \in read[e] .. n + 1 BY <1>6 DEF Places
    <3>2. \A p \in Places(w, e) : NotExecuted(w, e, p[1])'[p[2]] = NotExecuted(w, e, p[1])[p[2]] BY <2>2, <3>1
    <3>3. ItemAt(w, e)' = [p \in Places(w, e) |-> NotExecuted(w, e, p[1])'[p[2]]] BY <2>4 DEF ItemAt
    <3> QED BY <3>2, <3>3 DEF ItemAt
  <2>6. Follows(w, e) BY <1>0 DEF Leads
  <2>7. Announced(w)' <=> Announced(w) BY <1>4 DEF Announced
  <2> QED BY <1>4, <2>4, <2>5, <2>6, <2>7, FollowsStays
<1>11. ASSUME NEW e \in Devices, NEW i \in read[e] + 1 .. n + 1 PROVE log'[i].from \in {e, w} /\ (e = w => log'[i].from = w)
  <2>1. CASE i = n + 1 BY <1>5, <1>7, <2>1
  <2>2. CASE i # n + 1
    <3>1. i \in read[e] + 1 .. n /\ i \in 1 .. n BY <1>7, <1>9, <2>2
    <3> QED BY <1>0, <1>6, <1>7, <3>1 DEF Leads, Turn
  <2> QED BY <2>1, <2>2
<1>12. Turn(w)' BY <1>0, <1>4, <1>7, <1>8, <1>11 DEF Leads, Turn
<1>13. Dated(w)' /\ NotLater(Plain, Table(w), Table(w))'
  BY <1>0, <1>4 DEF Leads, Dated, Plain, NotLater, Table, Transport!NoTransport
<1>14. Reading'
  <2>1. \A e \in Devices : read[e] <= Len(log') BY <1>7, <1>9
  <2> QED BY <1>4, <2>1 DEF AgreeInv, Reading
<1>15. Leads(w)' BY <1>10, <1>12, <1>13 DEF Leads
<1> QED BY <1>14, <1>15 DEF AgreeInv

LEMMA TakeAgrees ==
    ASSUME TakingTurns, RelayTypes, RelayTypes', AgreeInv, NEW d \in Devices, Transport!Receive(d)
    PROVE  AgreeInv'
<1>0. PICK w \in Devices : Leads(w) BY DEF AgreeInv
<1>1. /\ incoming \in [Devices -> Seq(ItemRecords)] /\ log \in Seq(SyncMessages) /\ read \in [Devices -> Nat]
      /\ DOMAIN follow = Devices
  BY DEF RelayTypes, AgreeInv, Reading
<1>2. PICK n, m, c : n = Len(log) /\ c = read[d] + 1 /\ m = log[c] OBVIOUS
<1>3. n \in Nat /\ (\A e \in Devices : read[e] \in Nat /\ read[e] <= n) /\ read[d] < n
  BY <1>1, <1>2, LenProperties DEF AgreeInv, Reading, Transport!Receive
<1>4. c \in 1 .. n /\ c \in Nat BY <1>1, <1>2, <1>3
<1>5. m \in SyncMessages BY <1>1, <1>2, <1>4, ElementOfSeq
<1>6. m.addr # NoAddr BY <1>5 DEF SyncMessages, TakingTurns
<1>7. follow[d] = NoAddr /\ incoming[d] = << >> BY DEF Transport!Receive, AgreeInv, Reading
<1>8. /\ UNCHANGED <<tr, rm, primary, items, log, now, used, op>> /\ read' = [read EXCEPT ![d] = c]
      /\ IF m.from = d THEN UNCHANGED <<incoming, follow>>
         ELSE incoming' = [incoming EXCEPT ![d] = m.items] /\ follow' = [follow EXCEPT ![d] = m.addr]
  BY <1>1, <1>2 DEF Transport!Receive
<1>9. read'[d] = c /\ \A e \in Devices \ {d} : read'[e] = read[e] /\ incoming'[e] = incoming[e] /\ follow'[e] = follow[e]
  BY <1>1, <1>8
<1>10. IF m.from = d THEN incoming'[d] = << >> /\ follow'[d] = NoAddr
       ELSE incoming'[d] = m.items /\ follow'[d] = m.addr
  BY <1>1, <1>7, <1>8
<1>11. m.from \in {d, w}
  <2>1. c \in read[d] + 1 .. n BY <1>1, <1>2, <1>3, <1>4
  <2> QED BY <1>0, <1>2, <2>1 DEF Leads, Turn
<1>12. Reading'
  <2>1. DOMAIN follow' = Devices BY <1>1, <1>8
  <2>2. \A e \in Devices : read'[e] <= Len(log') BY <1>2, <1>3, <1>4, <1>8, <1>9
  <2>3. \A e \in Devices : follow'[e] = NoAddr => incoming'[e] = << >> BY <1>6, <1>9, <1>10 DEF AgreeInv, Reading
  <2> QED BY <1>8, <2>1, <2>2, <2>3 DEF AgreeInv, Reading
<1>13. ASSUME NEW e \in Devices \ {w} PROVE Follows(w, e)'
  <2>0. Follows(w, e) /\ (Announced(w)' <=> Announced(w)) BY <1>0, <1>8 DEF Leads, Announced
  <2>1. CASE e # d
    <3>1. Places(w, e)' = Places(w, e) /\ ItemAt(w, e)' = ItemAt(w, e) BY <1>8, <1>9, <2>1, PlacesStay
    <3> QED BY <1>8, <2>0, <3>1, FollowsStays
  <2>2. CASE e = d
    <3>1. NotExecuted(w, d, read[d]) = << >> BY <1>7 DEF NotExecuted
    <3>2. NotExecuted(w, d, c)' = NotExecuted(w, d, c)
      <4>1. NotExecuted(w, d, c)' = incoming'[d] BY <1>9 DEF NotExecuted
      <4>2. c # read[d] /\ c # Len(log) + 1 BY <1>2, <1>3, <1>4
      <4>3. NotExecuted(w, d, c) = IF m.from = w THEN m.items ELSE << >> BY <1>2, <4>2 DEF NotExecuted
      <4> QED BY <1>10, <1>11, <2>2, <4>1, <4>3
    <3>3. \A k : k # c /\ k # read[d] => NotExecuted(w, d, k)' = NotExecuted(w, d, k) BY <1>8, <1>9 DEF NotExecuted
    <3>4. ASSUME NEW p \in Nat \X Nat PROVE p \in Places(w, d)' <=> p \in Places(w, d)
      <4>1. p \in Places(w, d)' <=> p[1] \in c .. n + 1 /\ p[2] \in 1 .. Len(NotExecuted(w, d, p[1])')
        <5>1. Len(log') + 1 = n + 1 BY <1>2, <1>8
        <5> QED BY <1>9, <5>1 DEF Places
      <4>2. p \in Places(w, d) <=> p[1] \in read[d] .. n + 1 /\ p[2] \in 1 .. Len(NotExecuted(w, d, p[1]))
        BY <1>2 DEF Places
      <4>3. CASE p[1] = read[d]
        <5>1. Len(NotExecuted(w, d, p[1])) = 0 BY <3>1, <4>3
        <5>2. p \notin Places(w, d) BY <4>2, <5>1
        <5>3. p \notin Places(w, d)' BY <1>2, <1>3, <4>1, <4>3
        <5> QED BY <5>2, <5>3
      <4>4. CASE p[1] # read[d]
        <5>1. p[1] \in c .. n + 1 <=> p[1] \in read[d] .. n + 1 BY <1>2, <1>3, <4>4
        <5> QED BY <3>2, <3>3, <4>1, <4>2, <4>4, <5>1
      <4> QED BY <4>3, <4>4
    <3>5. Places(w, d)' = Places(w, d)
      <4>1. Places(w, d)' \subseteq Nat \X Nat /\ Places(w, d) \subseteq Nat \X Nat BY DEF Places
      <4> QED BY <3>4, <4>1
    <3>6. ItemAt(w, d)' = ItemAt(w, d)
      <4>1. \A p \in Places(w, d) : p[1] # read[d]
        <5> SUFFICES ASSUME NEW p \in Places(w, d), p[1] = read[d] PROVE FALSE OBVIOUS
        <5>1. p[2] \in 1 .. Len(NotExecuted(w, d, p[1])) BY DEF Places
        <5>2. Len(NotExecuted(w, d, p[1])) = 0 BY <3>1
        <5> QED BY <5>1, <5>2
      <4>2. \A p \in Places(w, d) : NotExecuted(w, d, p[1])'[p[2]] = NotExecuted(w, d, p[1])[p[2]] BY <3>2, <3>3, <4>1
      <4>3. ItemAt(w, d)' = [p \in Places(w, d) |-> NotExecuted(w, d, p[1])'[p[2]]] BY <3>5 DEF ItemAt
      <4> QED BY <4>2, <4>3 DEF ItemAt
    <3> QED BY <1>8, <2>0, <2>2, <3>5, <3>6, FollowsStays
  <2> QED BY <2>1, <2>2
<1>14. Turn(w)'
  <2>1. follow'[w] = NoAddr
    <3>1. CASE w = d BY <1>10, <1>11, <3>1
    <3>2. CASE w # d BY <1>0, <1>9, <3>2 DEF Leads, Turn
    <3> QED BY <3>1, <3>2
  <2>2. ASSUME NEW e \in Devices, NEW i \in read'[e] + 1 .. n PROVE i \in read[e] + 1 .. n
    BY <1>2, <1>3, <1>9, <2>2
  <2> QED BY <1>0, <1>2, <1>8, <2>1, <2>2 DEF Leads, Turn
<1>15. Dated(w)' /\ NotLater(Plain, Table(w), Table(w))'
  BY <1>0, <1>8 DEF Leads, Dated, Plain, NotLater, Table, Transport!NoTransport
<1>16. Leads(w)' BY <1>13, <1>14, <1>15 DEF Leads
<1> QED BY <1>12, <1>16 DEF AgreeInv
LEMMA SyncAgrees ==
    ASSUME RelayTypes, RelayTypes', AgreeInv, NEW d \in Devices, Transport!sync_transports(d)
    PROVE  AgreeInv'
<1>0. PICK w \in Devices : Leads(w) BY DEF AgreeInv
<1>1. d # w BY <1>0 DEF Leads, Turn, AgreeInv, Reading, Transport!sync_transports
<1>2. /\ tr \in [Devices -> [Addrs -> TransportRecords]] /\ rm \in [Devices -> [Addrs -> Nat]]
      /\ incoming \in [Devices -> Seq(ItemRecords)] /\ read \in [Devices -> Nat] /\ log \in Seq(SyncMessages)
  BY DEF RelayTypes
<1>3. PICK s, m : s = incoming[d] /\ m = Head(s) OBVIOUS
<1>4. /\ s \in Seq(ItemRecords) /\ s # << >> /\ m \in ItemRecords /\ m = s[1] /\ Len(s) \in Nat /\ Len(s) >= 1
      /\ Tail(s) \in Seq(ItemRecords) /\ Len(Tail(s)) = Len(s) - 1
      /\ \A i \in 1 .. Len(Tail(s)) : Tail(s)[i] = s[i + 1]
  <2>1. s \in Seq(ItemRecords) /\ s # << >> BY <1>2, <1>3 DEF Transport!sync_transports
  <2> QED BY <1>3, <2>1, HeadTailProperties, LenProperties, EmptySeq
<1>5. PICK x, y : x = Table(d) /\ y = Table(w) OBVIOUS
<1>6. x \in ItemRecords /\ y \in ItemRecords /\ x.tr = tr[d] /\ x.rm = rm[d] BY <1>5, TableType DEF Table
<1>7. PICK v : v = Transport!Merged(d, [tr |-> x.tr, one |-> one[d], rm |-> x.rm], m) OBVIOUS
<1>8. /\ tr' = [tr EXCEPT ![d] = v.tr] /\ rm' = [rm EXCEPT ![d] = v.rm]
      /\ incoming' = [incoming EXCEPT ![d] = Tail(s)]
      /\ UNCHANGED <<primary, op, items, follow, log, read, now, used>>
  BY <1>2, <1>3, <1>6, <1>7 DEF Transport!sync_transports
<1>9. /\ tr'[d] = v.tr /\ rm'[d] = v.rm /\ incoming'[d] = Tail(s)
      /\ \A e \in Devices \ {d} : tr'[e] = tr[e] /\ rm'[e] = rm[e] /\ incoming'[e] = incoming[e]
  BY <1>2, <1>8
<1>10. PICK n, c : n = Len(log) /\ c = read[d] OBVIOUS
<1>11. n \in Nat /\ c \in Nat /\ c <= n BY <1>2, <1>10, LenProperties DEF AgreeInv, Reading
<1>12. NotExecuted(w, d, c) = s /\ NotExecuted(w, d, c)' = Tail(s)
  BY <1>3, <1>8, <1>9, <1>10 DEF NotExecuted
<1>13. \A k : k # c => NotExecuted(w, d, k)' = NotExecuted(w, d, k) BY <1>8, <1>10 DEF NotExecuted
<1>14. PICK S, P, item, Q, rest : /\ S = Plain /\ P = Places(w, d) /\ item = ItemAt(w, d)
                                  /\ Q = Places(w, d)' /\ rest = ItemAt(w, d)'
  OBVIOUS
<1>15. S \in SUBSET Addrs /\ primary[d] \notin S BY <1>14 DEF Plain, AgreeInv, Reading
<1>16. \A p \in P : /\ p \in Nat \X Nat /\ p[1] \in c .. n + 1 /\ p[2] \in 1 .. Len(NotExecuted(w, d, p[1]))
                    /\ item[p] = NotExecuted(w, d, p[1])[p[2]]
  BY <1>10, <1>14 DEF Places, ItemAt
<1>17. \A p \in Q : /\ p \in Nat \X Nat /\ p[1] \in c .. n + 1 /\ p[2] \in 1 .. Len(NotExecuted(w, d, p[1])')
                    /\ rest[p] = NotExecuted(w, d, p[1])'[p[2]]
  BY <1>8, <1>10, <1>14 DEF Places, ItemAt
<1>18. \A i, j \in Nat : /\ <<i, j>> \in P <=> i \in c .. n + 1 /\ j \in 1 .. Len(NotExecuted(w, d, i))
                         /\ <<i, j>> \in Q <=> i \in c .. n + 1 /\ j \in 1 .. Len(NotExecuted(w, d, i)')
  BY <1>8, <1>10, <1>14 DEF Places
<1>19. PICK r : r = <<c, 1>> OBVIOUS
<1>20. r \in P /\ item[r] = m /\ r \in Nat \X Nat BY <1>4, <1>11, <1>12, <1>16, <1>18, <1>19
<1>21. \A p \in P : p = r \/ Lex(r, p)
  <2> SUFFICES ASSUME NEW p \in P PROVE p = r \/ Lex(r, p) OBVIOUS
  <2>1. p \in Nat \X Nat /\ p[1] \in c .. n + 1 /\ p[2] \in 1 .. Len(NotExecuted(w, d, p[1])) BY <1>16
  <2>2. PICK i, j \in Nat : p = <<i, j>> BY <2>1
  <2>3. i >= c /\ j >= 1 BY <1>11, <2>1, <2>2
  <2> QED BY <1>11, <1>19, <2>2, <2>3 DEF Lex
<1>22. OnTheWay(S, P, item, x, y, Announced(w)) BY <1>0, <1>1, <1>5, <1>14 DEF Leads, Follows
<1>23. Same(S, v, m)
  <2>1. NotLater(S, x, m) BY <1>20, <1>22 DEF OnTheWay
  <2> QED BY <1>4, <1>6, <1>7, <1>15, <2>1, MergeGives
<1>24. PICK f : f = [q \in Q |-> IF q[1] = c THEN <<c, q[2] + 1>> ELSE q] OBVIOUS
<1>25. ASSUME NEW q \in Q PROVE f[q] \in P /\ f[q] # r /\ rest[q] = item[f[q]]
  <2>1. PICK i, j \in Nat : q = <<i, j>> BY <1>17
  <2>2. i \in c .. n + 1 /\ j \in 1 .. Len(NotExecuted(w, d, i)') /\ rest[q] = NotExecuted(w, d, i)'[j] BY <1>17, <2>1
  <2>3. CASE i = c
    <3>1. f[q] = <<c, j + 1>> BY <1>24, <2>1, <2>3
    <3>2. j \in 1 .. Len(s) - 1 /\ rest[q] = s[j + 1] BY <1>4, <1>12, <2>2, <2>3
    <3>3. <<c, j + 1>> \in P BY <1>4, <1>11, <1>12, <1>18, <3>2
    <3>4. item[<<c, j + 1>>] = s[j + 1] BY <1>12, <1>16, <3>3
    <3>5. j + 1 # 1 BY <3>2
    <3> QED BY <1>19, <3>1, <3>2, <3>3, <3>4, <3>5
  <2>4. CASE i # c
    <3>1. f[q] = q BY <1>24, <2>1, <2>4
    <3>2. q \in P BY <1>13, <1>18, <2>1, <2>2, <2>4
    <3>3. item[q] = NotExecuted(w, d, i)[j] BY <1>16, <2>1, <3>2
    <3> QED BY <1>13, <1>19, <2>1, <2>2, <2>4, <3>1, <3>2, <3>3
  <2> QED BY <2>3, <2>4
<1>26. ASSUME NEW p \in P, p # r PROVE \E q \in Q : f[q] = p
  <2>1. PICK i, j \in Nat : p = <<i, j>> BY <1>16
  <2>2. i \in c .. n + 1 /\ j \in 1 .. Len(NotExecuted(w, d, i)) BY <1>16, <2>1
  <2>3. CASE i = c
    <3>1. j # 1 BY <1>19, <1>26, <2>1, <2>3
    <3>2. PICK k : k = j - 1 OBVIOUS
    <3>3. k \in 1 .. Len(s) - 1 /\ k + 1 = j /\ k \in Nat BY <1>4, <1>12, <2>2, <2>3, <3>1, <3>2
    <3>4. <<c, k>> \in Q BY <1>4, <1>11, <1>12, <1>18, <3>3
    <3>5. f[<<c, k>>] = <<c, k + 1>> BY <1>24, <3>4
    <3> QED BY <2>1, <2>3, <3>3, <3>4, <3>5
  <2>4. CASE i # c
    <3>1. p \in Q BY <1>13, <1>18, <2>1, <2>2, <2>4
    <3>2. f[p] = p BY <1>24, <2>1, <2>4, <3>1
    <3> QED BY <3>1, <3>2
  <2> QED BY <2>3, <2>4
<1>27. ASSUME NEW p \in Q, NEW q \in Q PROVE (Lex(p, q) <=> Lex(f[p], f[q])) /\ (f[p] = f[q] => p = q)
  <2>1. PICK i, j \in Nat : p = <<i, j>> BY <1>17
  <2>2. PICK k, l \in Nat : q = <<k, l>> BY <1>17
  <2>3. f[p] = <<i, IF i = c THEN j + 1 ELSE j>> BY <1>24, <2>1
  <2>4. f[q] = <<k, IF k = c THEN l + 1 ELSE l>> BY <1>24, <2>2
  <2> QED BY <2>1, <2>2, <2>3, <2>4 DEF Lex
<1>28. PICK b \in BOOLEAN : b = Announced(w) BY DEF Announced
<1>29. PICK z : z = Table(d)' OBVIOUS
<1>30. z.tr = v.tr /\ z.rm = v.rm BY <1>9, <1>29 DEF Table
<1>31. Same(S, z, item[r]) BY <1>20, <1>23, <1>30 DEF Same
<1>32. OnTheWay(S, P, item, x, y, b) BY <1>22, <1>28
<1>33. ~Lex(r, r) /\ \A p \in P : ~(Lex(r, p) /\ Lex(p, r)) BY <1>16, <1>20, LexOrder
<1>34. OnTheWay(S, Q, rest, z, y, b)
  BY <1>15, <1>20, <1>21, <1>25, <1>26, <1>27, <1>31, <1>32, <1>33, OnTheWayLess
<1>35. Follows(w, d)'
  <2>1. Plain' = S /\ Table(w)' = y /\ Announced(w)' = b
    <3>1. tr'[w] = tr[w] /\ rm'[w] = rm[w] BY <1>1, <1>9
    <3> QED BY <1>5, <1>8, <1>14, <1>28, <3>1 DEF Plain, Table, Announced
  <2>2. Follows(w, d)' = OnTheWay(Plain', Places(w, d)', ItemAt(w, d)', Table(d)', Table(w)', Announced(w)')
    BY DEF Follows, OnTheWay, NotLater, Same, Lex, Transport!NoTransport
  <2> QED BY <1>14, <1>29, <1>34, <2>1, <2>2
<1>36. ASSUME NEW e \in Devices \ {w, d} PROVE Follows(w, e)'
  <2>1. Follows(w, e) /\ (Announced(w)' <=> Announced(w)) BY <1>0, <1>8 DEF Leads, Announced
  <2>2. Places(w, e)' = Places(w, e) /\ ItemAt(w, e)' = ItemAt(w, e) BY <1>8, <1>9, PlacesStay
  <2>3. tr'[e] = tr[e] /\ rm'[e] = rm[e] /\ tr'[w] = tr[w] /\ rm'[w] = rm[w] BY <1>1, <1>9
  <2> QED BY <1>8, <2>1, <2>2, <2>3, FollowsStays
<1>37. Turn(w)' BY <1>0, <1>8 DEF Leads, Turn
<1>38. Dated(w)' /\ NotLater(Plain, Table(w), Table(w))'
  <2>1. tr'[w] = tr[w] /\ rm'[w] = rm[w] BY <1>1, <1>9
  <2> QED BY <1>0, <1>8, <2>1 DEF Leads, Dated, Plain, NotLater, Table, Transport!NoTransport
<1>39. Reading'
  <2>1. \A e \in Devices : follow[e] = NoAddr => incoming'[e] = << >>
    <3> SUFFICES ASSUME NEW e \in Devices, follow[e] = NoAddr PROVE incoming'[e] = << >> OBVIOUS
    <3>1. e # d BY <1>3, <1>4 DEF AgreeInv, Reading
    <3> QED BY <1>9, <3>1 DEF AgreeInv, Reading
  <2> QED BY <1>8, <2>1 DEF AgreeInv, Reading
<1>40. Leads(w)' BY <1>35, <1>36, <1>37, <1>38 DEF Leads
<1> QED BY <1>39, <1>40 DEF AgreeInv

LEMMA ElseAgrees ==
    ASSUME RelayTypes, RelayTypes', AgreeInv,
           \/ \E d \in Devices : \/ Transport!Uncache(d) \/ Transport!FollowPrimary(d) \/ Transport!ForgetKey(d)
                                 \/ Transport!LoadKey(d) \/ Transport!StoreKey(d)
           \/ Transport!Tick \/ UNCHANGED Transport!vars
    PROVE  AgreeInv'
<1>0. PICK w \in Devices : Leads(w) BY DEF AgreeInv
<1>1. now \in Nat /\ now' \in Nat /\ DOMAIN op = Devices /\ primary \in [Devices -> Addrs]
  BY DEF RelayTypes
<1>2. ASSUME UNCHANGED <<tr, rm, items, incoming, log, read>>, follow'[w] = NoAddr, used \subseteq used',
             now <= now', Announced(w)' <=> Announced(w), \A e \in Devices \ {w} : op'[e] = op[e], Reading'
      PROVE  AgreeInv'
  <2>1. Leads(w)' BY <1>0, <1>1, <1>2, LeadsStays
  <2> QED BY <1>2, <2>1 DEF AgreeInv
<1>3. follow[w] = NoAddr BY <1>0 DEF Leads, Turn
<1>4. ASSUME UNCHANGED <<tr, rm, items, incoming, log, read, follow, used, op, primary>>, now <= now'
      PROVE  AgreeInv'
  <2>1. Reading' BY <1>4 DEF AgreeInv, Reading
  <2>2. Announced(w)' <=> Announced(w) BY <1>4 DEF Announced
  <2> QED BY <1>2, <1>3, <1>4, <2>1, <2>2
<1>5. ASSUME NEW d \in Devices, Transport!Uncache(d) PROVE AgreeInv'
  <2>1. d = w BY <1>0, <1>5 DEF Leads, Turn, Transport!Uncache
  <2>2. op[w] = "uncache" /\ op' = [op EXCEPT ![w] = "no"] BY <1>5, <2>1 DEF Transport!Uncache
  <2>3. UNCHANGED <<tr, rm, items, incoming, log, read, follow, used, primary, now>> BY <1>5 DEF Transport!Uncache
  <2>4. Reading' BY <2>3 DEF AgreeInv, Reading
  <2>5. op'[w] = "no" /\ \A e \in Devices \ {w} : op'[e] = op[e] BY <1>1, <2>2
  <2>6. Announced(w)' <=> Announced(w) BY <2>2, <2>5 DEF Announced
  <2> QED BY <1>1, <1>2, <1>3, <2>3, <2>4, <2>5, <2>6
<1>6. ASSUME NEW d \in Devices, Transport!FollowPrimary(d) PROVE AgreeInv'
  <2>1. d # w /\ incoming[d] = << >> BY <1>0, <1>6 DEF Leads, Turn, Transport!FollowPrimary
  <2>2. /\ UNCHANGED <<tr, rm, items, incoming, log, read, op, now>> /\ follow' = [follow EXCEPT ![d] = NoAddr]
        /\ used' = used \cup {primary'[d]} /\ \A e \in Devices \ {d} : primary'[e] = primary[e]
    BY <1>1, <1>6 DEF Transport!FollowPrimary
  <2>3. DOMAIN follow = Devices BY DEF AgreeInv, Reading
  <2>4. follow'[d] = NoAddr /\ \A e \in Devices \ {d} : follow'[e] = follow[e] BY <2>2, <2>3
  <2>5. DOMAIN follow' = Devices BY <2>2, <2>3
  <2>6. \A e \in Devices : primary'[e] \in used' BY <2>2 DEF AgreeInv, Reading
  <2>7. Reading' BY <2>1, <2>2, <2>4, <2>5, <2>6 DEF AgreeInv, Reading
  <2>8. Announced(w)' <=> Announced(w) BY <2>2 DEF Announced
  <2>9. follow'[w] = NoAddr BY <1>3, <2>1, <2>4
  <2> QED BY <1>1, <1>2, <2>2, <2>7, <2>8, <2>9
<1>7. ASSUME NEW d \in Devices, Transport!ForgetKey(d) \/ Transport!LoadKey(d) \/ Transport!StoreKey(d) PROVE AgreeInv'
  <2>1. UNCHANGED <<tr, rm, items, incoming, log, read, follow, used, op, primary, now>>
    BY <1>7 DEF Transport!ForgetKey, Transport!LoadKey, Transport!StoreKey
  <2> QED BY <1>1, <1>4, <2>1
<1>8. CASE Transport!Tick BY <1>1, <1>4, <1>8 DEF Transport!Tick
<1>9. CASE UNCHANGED Transport!vars BY <1>1, <1>4, <1>9 DEF Transport!vars
<1> QED BY <1>5, <1>6, <1>7, <1>8, <1>9

LEMMA AgreeInit ==
    ASSUME Configuration, RelayTypes, Transport!Init, NEW w \in Devices PROVE AgreeInv
<1>1. Len(log) = 0 /\ \A d \in Devices : read[d] = 0 BY DEF Transport!Init
<1>2. Reading BY <1>1 DEF Reading, Transport!Init
<1>3. Turn(w) BY <1>1 DEF Turn, Transport!Init
<1>4. \A d \in Devices, a \in Addrs : /\ rm[d][a] = 0 /\ tr[d][a].ts <= 1
                                      /\ tr[d][a] # Transport!NoTransport => tr[d][a].ts = 1
                                      /\ tr[d][a] = tr[w][a]
  BY DEF Transport!Init, Transport!NoTransport
<1>5. Dated(w) BY <1>4 DEF Dated, Plain, Transport!Init
<1>6. \A d \in Devices : Same(Plain, Table(d), Table(w)) BY <1>4 DEF Same, Table, Plain
<1>7. \A d \in Devices : NotLater(Plain, Table(d), Table(w)) BY <1>4 DEF NotLater, Table, Plain
<1>8. ASSUME NEW e \in Devices \ {w} PROVE Follows(w, e)
  <2>1. Transport!Current(e) /\ items[w] = << >> BY <1>1 DEF Transport!Current, Transport!Init
  <2>2. Places(w, e) = {} BY <1>2, <2>1, NothingLeft
  <2> QED BY <1>6, <1>7, <2>2 DEF Follows, OnTheWay
<1> QED BY <1>2, <1>3, <1>5, <1>7, <1>8 DEF AgreeInv, Leads

LEMMA AgreeSteps ==
    ASSUME TakingTurns, RelayTypes, RelayTypes', AgreeInv, [Transport!Next]_(Transport!vars)
    PROVE  AgreeInv'
<1>1. ASSUME NEW d \in Devices, NEW a \in Addrs,
             \/ Transport!AddOrUpdate(d, a) \/ Transport!delete_transport(d, a) \/ Transport!SetPrimary(d, a)
             \/ \E u \in BOOLEAN : Transport!set_transport_unpublished(d, a, u)
      PROVE  AgreeInv'
  BY <1>1, AddAgrees, DeleteAgrees, SetPrimaryAgrees, UnpublishAgrees
<1>2. ASSUME NEW d \in Devices,
             Transport!send_sync_transports(d) \/ Transport!send_sync_msg(d) \/ Transport!Receive(d) \/ Transport!sync_transports(d)
      PROVE  AgreeInv'
  BY <1>2, AnnounceAgrees, SendAgrees, TakeAgrees, SyncAgrees
<1> QED BY <1>1, <1>2, ElseAgrees DEF Transport!Next

LEMMA TablesAgree ==
    ASSUME Configuration, TakingTurns PROVE Transport!Spec => []Transport!TransportsAgree
<1>1. CASE Devices = {}
  <2>1. Transport!TransportsAgree BY <1>1 DEF Transport!TransportsAgree
  <2> QED BY <2>1, PTL
<1>2. CASE Devices # {}
  <2>1. Transport!Init /\ RelayInv => AgreeInv BY <1>2, AgreeInit DEF RelayInv
  <2>2. AgreeInv /\ RelayInv /\ RelayInv' /\ [Transport!Next]_(Transport!vars) => AgreeInv' BY AgreeSteps DEF RelayInv
  <2>3. AgreeInv /\ RelayInv => Transport!TransportsAgree BY QuietAgrees DEF RelayInv
  <2> QED BY <2>1, <2>2, <2>3, RelaysHold, PTL DEF Transport!Spec
<1> QED BY <1>1, <1>2

(* Devices that make changes in turn come to the same transports: once all    *)
(* sync messages have been executed the tables are equal, but for row 1 and   *)
(* the addresses that were primary somewhere; and at any time each of them    *)
(* has the transport it sends from.                                           *)
THEOREM DevicesComeToAgree ==
    ASSUME Configuration, TakingTurns PROVE Transport!Spec => []Transport!TransportsSound
<1>1. Transport!PrimaryExists /\ Transport!TransportsAgree => Transport!TransportsSound BY DEF Transport!TransportsSound
<1> QED BY <1>1, PrimaryStays, TablesAgree, PTL

-----------------------------------------------------------------------------
(* Calls. *)

Words == {"call", "accepted", "ended"}
CallStates == [known : BOOLEAN, accepted : BOOLEAN, ended : BOOLEAN, canceled : BOOLEAN]
AtWork == [does : {"nothing", "accept", "end", "decline", "cancel"}, copy : CallStates]
RingTypes ==
    /\ ring \in [Call!Handset -> CallStates]
    /\ busy \in [Call!Handset -> [Call!Handlers -> AtWork]]
    /\ mail \in [Call!Handset -> [Call!Users -> Seq(Words)]]
    /\ box \in [Call!Users -> Seq([from : Call!Handset, what : Words])]
    /\ heard \in [Call!Handset -> Nat] /\ \A d \in Call!Handset : heard[d] <= Len(box[Call!User(d)])
    /\ hungUp \in BOOLEAN

(* One handler at a time, and what it has loaded is what is stored. *)
OneHandler ==
    \A d \in Call!Handset, h \in Call!Handlers : busy[d][h] # Call!Free =>
        /\ busy[d][h].copy = ring[d] /\ ring[d].known
        /\ \A g \in Call!Handlers : g # h => busy[d][g] = Call!Free

(* Who was called knows of the call once the first message is read. *)
CallHeard ==
    /\ ring[Placer].known
    /\ \A d \in Callees : ring[d].known <=> heard[d] >= 1
    /\ \A d \in Call!Handset : ring[d].ended => ring[d].known

(* That first message is the call; no other says so. *)
CallFirst ==
    /\ \A s \in Call!Handset, u \in Call!Users : \A i \in 1 .. Len(mail[s][u]) :
         mail[s][u][i] = "call" => s = Placer /\ i = 1
    /\ IF box["callee"] = << >>
       THEN /\ \A s \in Callees : mail[s]["callee"] = << >>
            /\ Len(mail[Placer]["callee"]) >= 1 /\ mail[Placer]["callee"][1] = "call"
       ELSE \A s \in Call!Handset : \A i \in 1 .. Len(mail[s]["callee"]) : mail[s]["callee"][i] # "call"
    /\ \A i \in 1 .. Len(box["callee"]) : box["callee"][i].what = "call" <=> i = 1
    /\ \A u \in Call!Users : \A i \in 1 .. Len(box[u]) : box[u][i].what = "call" => box[u][i].from = Placer

(* Once somebody has hung up every device has ended the call, is about to, or *)
(* has the message before it.                                                 *)
Ends(d) == ring[d].ended \/ \E h \in Call!Handlers : busy[d][h] # Call!Free /\ busy[d][h].does # "accept"
Waiting(d) ==
    \/ \E i \in 1 .. Len(box[Call!User(d)]) :
         /\ i > heard[d] /\ box[Call!User(d)][i].what = "ended" /\ box[Call!User(d)][i].from # d
    \/ \E s \in Call!Handset \ {d} : \E i \in 1 .. Len(mail[s][Call!User(d)]) :
         mail[s][Call!User(d)][i] = "ended"
AllTold == hungUp => \A d \in Call!Handset : Ends(d) \/ Waiting(d)

RingInv == RingTypes /\ OneHandler /\ CallHeard /\ CallFirst /\ AllTold

LEMMA RingNames ==
    ASSUME CallSetup
    PROVE  /\ Call!Handset = {Placer} \cup Callees
           /\ \A d \in Call!Handset : Call!User(d) \in Call!Users
           /\ \A d \in Callees : Call!User(d) = "callee" /\ d # Placer /\ d \in Call!Handset
           /\ Call!User(Placer) = "caller"
           /\ "callee" \in Call!Users /\ "caller" \in Call!Users
BY DEF CallSetup, Call!Handset, Call!User, Call!Users, Call!Incoming

LEMMA RingRecords == Call!Unknown \in CallStates /\ Call!Fresh \in CallStates /\ Call!Free \in AtWork
<1>1. Call!Unknown \in CallStates BY DEF Call!Unknown, CallStates
<1>2. Call!Fresh \in CallStates BY <1>1 DEF Call!Fresh, CallStates
<1> QED BY <1>1, <1>2 DEF Call!Free, AtWork

LEMMA FreshCall == Call!Fresh.known /\ ~Call!Fresh.ended /\ ~Call!Unknown.known /\ ~Call!Unknown.ended
BY DEF Call!Fresh, Call!Unknown

LEMMA RingInit == ASSUME CallSetup PROVE Call!Init => RingInv
<1> SUFFICES ASSUME Call!Init PROVE RingInv OBVIOUS
<1>0. << >> \in Seq(Words) /\ <<"call">> \in Seq(Words) /\ << >> \in Seq([from : Call!Handset, what : Words])
  BY DEF Words
<1>1. mail = [s \in Call!Handset |-> [u \in Call!Users |-> IF s = Placer THEN <<"call">> ELSE << >>]]
  BY DEF Call!Init
<1>2. RingTypes
  <2>1. ring \in [Call!Handset -> CallStates] /\ busy \in [Call!Handset -> [Call!Handlers -> AtWork]]
    BY RingRecords DEF Call!Init
  <2>2. mail \in [Call!Handset -> [Call!Users -> Seq(Words)]] BY <1>0, <1>1
  <2>3. box \in [Call!Users -> Seq([from : Call!Handset, what : Words])] /\ \A u \in Call!Users : box[u] = << >>
    BY <1>0 DEF Call!Init
  <2>4. heard \in [Call!Handset -> Nat] /\ \A d \in Call!Handset : heard[d] <= Len(box[Call!User(d)])
    BY <2>3, RingNames DEF Call!Init
  <2> QED BY <2>1, <2>2, <2>3, <2>4 DEF RingTypes, Call!Init
<1>3. OneHandler BY DEF OneHandler, Call!Init
<1>4. CallHeard BY RingNames, FreshCall DEF CallHeard, Call!Init
<1>5. CallFirst
  <2>1. Len(<<"call">>) = 1 /\ Len(<< >>) = 0 OBVIOUS
  <2>2. \A s \in Call!Handset, u \in Call!Users : mail[s][u] = IF s = Placer THEN <<"call">> ELSE << >>
    BY <1>1
  <2>3. box["callee"] = << >> /\ \A u \in Call!Users : Len(box[u]) = 0 BY RingNames DEF Call!Init
  <2>4. \A s \in Call!Handset, u \in Call!Users : \A i \in 1 .. Len(mail[s][u]) :
          mail[s][u][i] = "call" => s = Placer /\ i = 1
    BY <2>2
  <2>5. /\ \A s \in Callees : mail[s]["callee"] = << >>
        /\ Len(mail[Placer]["callee"]) >= 1 /\ mail[Placer]["callee"][1] = "call"
    BY <2>2, RingNames
  <2> QED BY <2>3, <2>4, <2>5 DEF CallFirst
<1>6. AllTold BY DEF AllTold, Call!Init
<1> QED BY <1>2, <1>3, <1>4, <1>5, <1>6 DEF RingInv

(* What leaves the messages alone: the state of one device changes, but what  *)
(* was ended or about to be ended stays so.                                   *)
LEMMA LocalOK ==
    ASSUME CallSetup, RingInv, ring' \in [Call!Handset -> CallStates],
           busy' \in [Call!Handset -> [Call!Handlers -> AtWork]],
           UNCHANGED <<mail, box, heard, hungUp>>, OneHandler',
           \A e \in Call!Handset : /\ ring'[e].known <=> ring[e].known
                                   /\ ring'[e].ended => ring[e].known
                                   /\ Ends(e) => Ends(e)'
    PROVE  RingInv'
<1>1. RingTypes' BY DEF RingInv, RingTypes, Call!User, Call!Incoming
<1>2. CallHeard' BY RingNames DEF RingInv, CallHeard
<1>3. CallFirst' BY DEF RingInv, CallFirst
<1>4. AllTold' BY DEF RingInv, AllTold, Waiting, Call!User, Call!Incoming
<1> QED BY <1>1, <1>2, <1>3, <1>4 DEF RingInv
(* A handler loads the message. *)
LEMMA LoadsOK ==
    ASSUME CallSetup, RingInv, NEW d \in Call!Handset, NEW h \in Call!Handlers, NEW b \in AtWork,
           Call!MayLoad(d, h), ring[d].known, b.copy = ring[d],
           busy' = [busy EXCEPT ![d][h] = b], UNCHANGED <<ring, mail, box, heard, hungUp>>
    PROVE  RingInv'
<1>0. /\ busy \in [Call!Handset -> [Call!Handlers -> AtWork]] /\ ring \in [Call!Handset -> CallStates]
  BY DEF RingInv, RingTypes
<1>1. \A g \in Call!Handlers : busy[d][g] = Call!Free BY DEF CallSetup, Call!MayLoad
<1>2. busy' \in [Call!Handset -> [Call!Handlers -> AtWork]] BY <1>0
<1>3. \A e \in Call!Handset \ {d} : busy'[e] = busy[e] BY <1>0
<1>4. busy'[d][h] = b /\ \A g \in Call!Handlers : g # h => busy'[d][g] = Call!Free BY <1>0, <1>1
<1>5. OneHandler'
  <2> SUFFICES ASSUME NEW e \in Call!Handset, NEW k \in Call!Handlers, busy'[e][k] # Call!Free
               PROVE  /\ busy'[e][k].copy = ring[e] /\ ring[e].known
                      /\ \A g \in Call!Handlers : g # k => busy'[e][g] = Call!Free
    BY DEF OneHandler, Call!Free, Call!Unknown, Call!Handset, Call!Handlers
  <2>1. CASE e = d BY <1>4, <2>1
  <2>2. CASE e # d BY <1>3, <2>2 DEF RingInv, OneHandler
  <2> QED BY <2>1, <2>2
<1>6. ASSUME NEW e \in Call!Handset, Ends(e) PROVE Ends(e)'
  <2>1. CASE e = d BY <1>1, <1>6, <2>1 DEF Ends
  <2>2. CASE e # d BY <1>3, <1>6, <2>2 DEF Ends, Call!Free, Call!Unknown, Call!Handlers
  <2> QED BY <2>1, <2>2
<1>7. \A e \in Call!Handset : ring'[e].ended => ring[e].known BY DEF RingInv, CallHeard
<1>8. ring' \in [Call!Handset -> CallStates] BY <1>0
<1> QED BY <1>2, <1>5, <1>6, <1>7, <1>8, LocalOK

(* What a handler writes back. *)
LEMMA MarkedOK ==
    ASSUME NEW b \in AtWork
    PROVE  /\ Call!Marked(b) \in CallStates /\ (Call!Marked(b).known <=> b.copy.known)
           /\ Call!Marked(b).ended <=> (b.copy.ended \/ b.does # "accept")
<1>1. PICK x \in BOOLEAN : x = (b.copy.accepted \/ b.does = "accept") OBVIOUS
<1>2. PICK y \in BOOLEAN : y = (b.copy.ended \/ b.does # "accept") OBVIOUS
<1>3. PICK z \in BOOLEAN : z = (b.copy.canceled \/ b.does = "cancel") OBVIOUS
<1>4. PICK c : c = b.copy OBVIOUS
<1>5. c \in CallStates BY <1>4 DEF AtWork
<1>6. Call!Marked(b) = [c EXCEPT !.accepted = x, !.ended = y, !.canceled = z]
  BY <1>1, <1>2, <1>3, <1>4, <1>5 DEF Call!Marked, CallStates
<1>7. PICK v : v = [c EXCEPT !.accepted = x, !.ended = y, !.canceled = z] OBVIOUS
<1>8. v \in CallStates /\ v.known = c.known /\ v.ended = y BY <1>5, <1>7 DEF CallStates
<1> QED BY <1>2, <1>4, <1>6, <1>7, <1>8

LEMMA WritesOK ==
    ASSUME RingInv, NEW d \in Call!Handset, NEW h \in Call!Handlers,
           busy[d][h] # Call!Free, Call!Writes(d, h)
    PROVE  /\ ring' \in [Call!Handset -> CallStates]
           /\ busy' \in [Call!Handset -> [Call!Handlers -> AtWork]]
           /\ OneHandler'
           /\ busy[d][h].does # "accept" => ring'[d].ended
           /\ \A e \in Call!Handset : /\ ring'[e].known <=> ring[e].known
                                      /\ ring'[e].ended => ring[e].known
                                      /\ Ends(e) => Ends(e)'
<1>0. /\ busy \in [Call!Handset -> [Call!Handlers -> AtWork]] /\ ring \in [Call!Handset -> CallStates]
  BY DEF RingInv, RingTypes
<1>1. PICK b : b = busy[d][h] OBVIOUS
<1>2. b \in AtWork /\ b.copy = ring[d] /\ ring[d].known /\ \A g \in Call!Handlers : g # h => busy[d][g] = Call!Free
  BY <1>0, <1>1 DEF RingInv, OneHandler
<1>3. PICK v : v = Call!Marked(b) OBVIOUS
<1>4. v \in CallStates /\ v.known /\ (v.ended <=> (ring[d].ended \/ b.does # "accept"))
  BY <1>2, <1>3, MarkedOK
<1>5. ring' = [ring EXCEPT ![d] = v] /\ busy' = [busy EXCEPT ![d][h] = Call!Free]
  BY <1>1, <1>3 DEF Call!Writes
<1>6. ring' \in [Call!Handset -> CallStates] BY <1>0, <1>4, <1>5
<1>7. busy' \in [Call!Handset -> [Call!Handlers -> AtWork]] BY <1>0, <1>5, RingRecords
<1>8. ring'[d] = v /\ \A g \in Call!Handlers : busy'[d][g] = Call!Free BY <1>0, <1>2, <1>5
<1>9. \A e \in Call!Handset \ {d} : ring'[e] = ring[e] /\ busy'[e] = busy[e] BY <1>0, <1>5
<1>10. OneHandler'
  <2> SUFFICES ASSUME NEW e \in Call!Handset, NEW k \in Call!Handlers, busy'[e][k] # Call!Free
               PROVE  /\ busy'[e][k].copy = ring'[e] /\ ring'[e].known
                      /\ \A g \in Call!Handlers : g # k => busy'[e][g] = Call!Free
    BY DEF OneHandler, Call!Free, Call!Unknown, Call!Handset, Call!Handlers
  <2>1. e # d BY <1>8
  <2> QED BY <1>9, <2>1 DEF RingInv, OneHandler
<1>11. ASSUME NEW e \in Call!Handset, Ends(e) PROVE Ends(e)'
  <2>1. CASE e = d
    <3>1. ring[d].ended \/ b.does # "accept" BY <1>1, <1>2, <1>11, <2>1 DEF Ends
    <3> QED BY <1>4, <1>8, <2>1, <3>1 DEF Ends
  <2>2. CASE e # d BY <1>9, <1>11, <2>2 DEF Ends, Call!Free, Call!Unknown, Call!Handlers
  <2> QED BY <2>1, <2>2
<1>12. ASSUME NEW e \in Call!Handset
       PROVE  (ring'[e].known <=> ring[e].known) /\ (ring'[e].ended => ring[e].known)
  BY <1>2, <1>4, <1>8, <1>9 DEF RingInv, CallHeard
<1> QED BY <1>1, <1>4, <1>6, <1>7, <1>8, <1>10, <1>11, <1>12

(* The API call also sends a message, to the users of both sides. *)
LEMMA AnnounceRingOK ==
    ASSUME CallSetup, RingInv, NEW d \in Call!Handset, Call!Announce(d)
    PROVE  RingInv'
<1>0. /\ busy \in [Call!Handset -> [Call!Handlers -> AtWork]] /\ mail \in [Call!Handset -> [Call!Users -> Seq(Words)]]
      /\ "api" \in Call!Handlers /\ box' = box /\ heard' = heard
  BY DEF RingInv, RingTypes, Call!Handlers, Call!Announce
<1>1. /\ ring' \in [Call!Handset -> CallStates]
      /\ busy' \in [Call!Handset -> [Call!Handlers -> AtWork]] /\ OneHandler'
      /\ busy[d]["api"].does # "accept" => ring'[d].ended
      /\ \A e \in Call!Handset : /\ ring'[e].known <=> ring[e].known
                                 /\ ring'[e].ended => ring[e].known
                                 /\ Ends(e) => Ends(e)'
  BY <1>0, WritesOK DEF Call!Announce
<1>2. PICK w \in {"accepted", "ended"} :
        /\ w = IF busy[d]["api"].does = "accept" THEN "accepted" ELSE "ended"
        /\ mail' = [mail EXCEPT ![d] = [u \in Call!Users |-> Append(mail[d][u], w)]]
  BY <1>0 DEF Call!Announce, Call!Sent
<1>3. hungUp' \in BOOLEAN /\ (hungUp' => hungUp \/ w = "ended")
  BY <1>2 DEF Call!Announce, RingInv, RingTypes
<1>4. \A s \in Call!Handset \ {d} : mail'[s] = mail[s] BY <1>0, <1>2
<1>5. \A u \in Call!Users : mail'[d][u] = Append(mail[d][u], w) BY <1>0, <1>2
<1>6. mail' \in [Call!Handset -> [Call!Users -> Seq(Words)]]
  <2>1. \A u \in Call!Users : Append(mail[d][u], w) \in Seq(Words) BY <1>0, AppendProperties DEF Words
  <2> QED BY <1>0, <1>2, <2>1
<1>7. \A u \in Call!Users : /\ Len(mail'[d][u]) = Len(mail[d][u]) + 1 /\ Len(mail[d][u]) \in Nat
                            /\ mail'[d][u][Len(mail[d][u]) + 1] = w
                            /\ \A i \in 1 .. Len(mail[d][u]) : mail'[d][u][i] = mail[d][u][i]
  <2> SUFFICES ASSUME NEW u \in Call!Users
               PROVE  /\ Len(mail'[d][u]) = Len(mail[d][u]) + 1 /\ Len(mail[d][u]) \in Nat
                      /\ mail'[d][u][Len(mail[d][u]) + 1] = w
                      /\ \A i \in 1 .. Len(mail[d][u]) : mail'[d][u][i] = mail[d][u][i]
    OBVIOUS
  <2>1. mail[d][u] \in Seq(Words) /\ w \in Words BY <1>0, <1>2 DEF Words
  <2> QED BY <1>5, <2>1, AppendProperties, LenProperties, SMTT(20)
<1>8. RingTypes' BY <1>0, <1>1, <1>3, <1>6 DEF RingInv, RingTypes, Call!User, Call!Incoming
<1>9. CallHeard' BY <1>0, <1>1, RingNames DEF RingInv, CallHeard
<1>10. ASSUME NEW s \in Call!Handset, NEW u \in Call!Users, NEW i \in 1 .. Len(mail'[s][u]), mail'[s][u][i] = "call"
       PROVE  i \in 1 .. Len(mail[s][u]) /\ mail[s][u][i] = "call"
  BY <1>2, <1>4, <1>7, <1>10
<1>11. CallFirst'
  <2>1. \A s \in Call!Handset, u \in Call!Users : \A i \in 1 .. Len(mail'[s][u]) :
          mail'[s][u][i] = "call" => s = Placer /\ i = 1
    BY <1>10 DEF RingInv, CallFirst
  <2>2. CASE box["callee"] = << >>
    <3>1. /\ \A s \in Callees : mail[s]["callee"] = << >>
          /\ Len(mail[Placer]["callee"]) >= 1 /\ mail[Placer]["callee"][1] = "call"
      BY <2>2 DEF RingInv, CallFirst
    <3>2. d = Placer
      <4> SUFFICES ASSUME d \in Callees PROVE FALSE BY RingNames
      <4>1. ring[d].known BY <1>0 DEF RingInv, OneHandler, Call!Announce
      <4>2. heard[d] >= 1 /\ heard[d] \in Nat /\ heard[d] <= Len(box["callee"])
        BY <4>1, RingNames DEF RingInv, CallHeard, RingTypes
      <4> QED BY <2>2, <4>2
    <3>3. /\ \A s \in Callees : mail'[s]["callee"] = << >>
          /\ Len(mail'[Placer]["callee"]) >= 1 /\ mail'[Placer]["callee"][1] = "call"
      BY <1>4, <1>7, <3>1, <3>2, RingNames
    <3> QED BY <1>0, <2>1, <2>2, <3>3 DEF RingInv, CallFirst
  <2>3. CASE box["callee"] # << >>
    <3>1. \A s \in Call!Handset : \A i \in 1 .. Len(mail'[s]["callee"]) : mail'[s]["callee"][i] # "call"
      BY <1>10, <2>3, RingNames DEF RingInv, CallFirst
    <3> QED BY <1>0, <2>1, <2>3, <3>1 DEF RingInv, CallFirst
  <2> QED BY <2>2, <2>3
<1>12. AllTold'
  <2> SUFFICES ASSUME hungUp', NEW e \in Call!Handset PROVE Ends(e)' \/ Waiting(e)'
    BY DEF AllTold
  <2>1. Call!User(e) \in Call!Users BY RingNames
  <2>2. CASE w = "ended"
    <3>1. CASE e = d BY <1>1, <1>2, <2>2, <3>1 DEF Ends
    <3>2. CASE e # d
      <4>1. PICK i : i = Len(mail[d][Call!User(e)]) + 1 OBVIOUS
      <4>2. i \in 1 .. Len(mail'[d][Call!User(e)]) /\ mail'[d][Call!User(e)][i] = "ended"
        BY <1>7, <2>1, <2>2, <4>1
      <4> QED BY <3>2, <4>2 DEF Waiting, Call!User, Call!Incoming
    <3> QED BY <3>1, <3>2
  <2>3. CASE w # "ended"
    <3>1. Ends(e) \/ Waiting(e) BY <1>3, <2>3 DEF RingInv, AllTold
    <3>2. ASSUME NEW s \in Call!Handset, NEW i \in 1 .. Len(mail[s][Call!User(e)])
          PROVE  i \in 1 .. Len(mail'[s][Call!User(e)]) /\ mail'[s][Call!User(e)][i] = mail[s][Call!User(e)][i]
      BY <1>4, <1>7, <2>1
    <3>3. Waiting(e) => Waiting(e)' BY <1>0, <3>2, ZenonT(40) DEF Waiting, Call!User, Call!Incoming
    <3> QED BY <1>1, <3>1, <3>3
  <2> QED BY <2>2, <2>3
<1> QED BY <1>1, <1>8, <1>9, <1>11, <1>12 DEF RingInv
(* The ringing timeout runs where the call is known. *)
Rings == timer \in [Call!Handset -> BOOLEAN] /\ \A d \in Call!Handset : timer[d] => ring[d].known

LEMMA QuietOK ==
    ASSUME CallSetup, RingInv, UNCHANGED <<ring, busy, mail, box, heard, hungUp>>
    PROVE  RingInv'
<1>1. OneHandler' BY DEF RingInv, OneHandler, Call!Free, Call!Unknown, Call!Handset, Call!Handlers
<1>2. ring' \in [Call!Handset -> CallStates] /\ busy' \in [Call!Handset -> [Call!Handlers -> AtWork]]
  BY DEF RingInv, RingTypes
<1>3. \A e \in Call!Handset : Ends(e) => Ends(e)' BY DEF Ends, Call!Free, Call!Unknown, Call!Handlers
<1>4. \A e \in Call!Handset : ring'[e].ended => ring[e].known BY DEF RingInv, CallHeard
<1> QED BY <1>1, <1>2, <1>3, <1>4, LocalOK

LEMMA ApiLoadsOK ==
    ASSUME CallSetup, RingInv, NEW d \in Call!Handset, Call!accept_incoming_call(d) \/ Call!end_call(d)
    PROVE  RingInv'
<1>0. ring[d] \in CallStates /\ "api" \in Call!Handlers BY DEF RingInv, RingTypes, Call!Handlers
<1>1. PICK w \in {"accept", "end", "decline", "cancel"} : Call!Loads(d, "api", w)
  BY DEF Call!accept_incoming_call, Call!end_call, Call!EndOf
<1>2. PICK b : b = [does |-> w, copy |-> ring[d]] OBVIOUS
<1>3. b \in AtWork /\ b.copy = ring[d] BY <1>0, <1>1, <1>2 DEF AtWork
<1>5. busy' = [busy EXCEPT ![d]["api"] = b] BY <1>1, <1>2 DEF Call!Loads
<1>6. ring[d].known /\ Call!MayLoad(d, "api") /\ UNCHANGED <<ring, mail, box, heard, hungUp>>
  BY DEF Call!accept_incoming_call, Call!end_call
<1> QED BY <1>0, <1>3, <1>5, <1>6, LoadsOK

LEMMA TimerLoadsOK ==
    ASSUME CallSetup, RingInv, Rings, NEW d \in Call!Handset, Call!TimerLoads(d)
    PROVE  RingInv'
<1>0. ring[d] \in CallStates /\ "timer" \in Call!Handlers BY DEF RingInv, RingTypes, Call!Handlers
<1>1. CASE UNCHANGED busy BY <1>1, QuietOK DEF Call!TimerLoads
<1>2. CASE ~UNCHANGED busy
  <2>1. PICK w \in {"cancel", "end"} : Call!Loads(d, "timer", w) BY <1>2 DEF Call!TimerLoads
  <2>2. PICK b : b = [does |-> w, copy |-> ring[d]] OBVIOUS
  <2>3. b \in AtWork /\ b.copy = ring[d] BY <1>0, <2>1, <2>2 DEF AtWork
  <2>4. busy' = [busy EXCEPT ![d]["timer"] = b] BY <2>1, <2>2 DEF Call!Loads
  <2>5. ring[d].known /\ Call!MayLoad(d, "timer") /\ UNCHANGED <<ring, mail, box, heard, hungUp>>
    BY DEF Call!TimerLoads, Rings
  <2> QED BY <1>0, <2>3, <2>4, <2>5, LoadsOK
<1> QED BY <1>1, <1>2

LEMMA WriterOK ==
    ASSUME CallSetup, RingInv, NEW d \in Call!Handset, Call!TimerWrites(d) \/ Call!ReceiveWrites(d)
    PROVE  RingInv'
<1>1. PICK h \in Call!Handlers : busy[d][h] # Call!Free /\ Call!Writes(d, h)
  BY DEF Call!TimerWrites, Call!ReceiveWrites, Call!Handlers
<1>2. UNCHANGED <<mail, box, heard, hungUp>> BY DEF Call!TimerWrites, Call!ReceiveWrites
<1>3. /\ ring' \in [Call!Handset -> CallStates]
      /\ busy' \in [Call!Handset -> [Call!Handlers -> AtWork]] /\ OneHandler'
      /\ \A e \in Call!Handset : /\ ring'[e].known <=> ring[e].known
                                 /\ ring'[e].ended => ring[e].known
                                 /\ Ends(e) => Ends(e)'
  BY <1>1, WritesOK
<1> QED BY <1>2, <1>3, LocalOK

(* The provider puts the oldest message of a device into a mailbox. *)
LEMMA DeliverOK ==
    ASSUME CallSetup, RingInv, NEW d \in Call!Handset, NEW v \in Call!Users, Call!Deliver(d, v)
    PROVE  RingInv'
<1>0. /\ mail \in [Call!Handset -> [Call!Users -> Seq(Words)]]
      /\ box \in [Call!Users -> Seq([from : Call!Handset, what : Words])]
      /\ heard \in [Call!Handset -> Nat] /\ UNCHANGED <<ring, busy, heard, hungUp>>
  BY DEF RingInv, RingTypes, Call!Deliver
<1>1. PICK q : q = mail[d][v] OBVIOUS
<1>2. PICK m : m = [from |-> d, what |-> Head(q)] OBVIOUS
<1>3. q \in Seq(Words) /\ q # << >> BY <1>0, <1>1 DEF Call!Deliver
<1>4. /\ Len(q) \in Nat /\ Len(q) >= 1 /\ Head(q) = q[1] /\ q[1] \in Words
      /\ Tail(q) \in Seq(Words) /\ Len(Tail(q)) = Len(q) - 1
      /\ \A i \in 1 .. Len(Tail(q)) : Tail(q)[i] = q[i + 1]
  BY <1>3, HeadTailProperties, LenProperties, EmptySeq
<1>5. mail' = [mail EXCEPT ![d][v] = Tail(q)] /\ box' = [box EXCEPT ![v] = Append(box[v], m)]
  BY <1>0, <1>1, <1>2 DEF Call!Deliver
<1>6. m \in [from : Call!Handset, what : Words] /\ m.from = d /\ m.what = q[1] BY <1>2, <1>4
<1>7. box[v] \in Seq([from : Call!Handset, what : Words]) /\ Len(box[v]) \in Nat BY <1>0, LenProperties
<1>8. PICK n \in Nat : n = Len(box[v]) BY <1>7
<1>9. /\ box'[v] = Append(box[v], m) /\ box'[v] \in Seq([from : Call!Handset, what : Words])
      /\ Len(box'[v]) = n + 1 /\ box'[v][n + 1] = m
      /\ \A i \in 1 .. n : box'[v][i] = box[v][i]
  BY <1>0, <1>5, <1>6, <1>7, <1>8, AppendProperties
<1>10. \A u \in Call!Users : u # v => box'[u] = box[u] BY <1>0, <1>5
<1>11. mail'[d][v] = Tail(q) /\ \A s \in Call!Handset, u \in Call!Users : s # d \/ u # v => mail'[s][u] = mail[s][u]
  BY <1>0, <1>5
<1>12. mail' \in [Call!Handset -> [Call!Users -> Seq(Words)]] BY <1>0, <1>4, <1>5
<1>13. box' \in [Call!Users -> Seq([from : Call!Handset, what : Words])] BY <1>0, <1>5, <1>9
<1>14. RingTypes'
  <2>1. \A e \in Call!Handset : heard[e] <= Len(box'[Call!User(e)])
    <3> SUFFICES ASSUME NEW e \in Call!Handset PROVE heard[e] <= Len(box'[Call!User(e)])
      OBVIOUS
    <3>1. Call!User(e) \in Call!Users /\ heard[e] \in Nat /\ heard[e] <= Len(box[Call!User(e)])
      BY <1>0, RingNames DEF RingInv, RingTypes
    <3> QED BY <1>8, <1>9, <1>10, <3>1
  <2> QED BY <1>0, <1>12, <1>13, <2>1 DEF RingInv, RingTypes, Call!User, Call!Incoming
<1>15. OneHandler' BY <1>0 DEF RingInv, OneHandler, Call!Free, Call!Unknown, Call!Handset, Call!Handlers
<1>16. CallHeard' BY <1>0 DEF RingInv, CallHeard
<1>17. CallFirst'
  <2>1. ASSUME NEW s \in Call!Handset, NEW u \in Call!Users, NEW i \in 1 .. Len(mail'[s][u]), mail'[s][u][i] = "call"
        PROVE  (s # d \/ u # v) /\ s = Placer /\ i = 1 /\ i \in 1 .. Len(mail[s][u]) /\ mail[s][u][i] = "call"
    <3>1. CASE s = d /\ u = v
      <4>1. i \in 1 .. Len(Tail(q)) /\ Tail(q)[i] = "call" BY <1>11, <2>1, <3>1
      <4>2. i + 1 \in 1 .. Len(mail[d][v]) /\ mail[d][v][i + 1] = "call" BY <1>1, <1>4, <4>1
      <4>3. i + 1 = 1 BY <4>2 DEF RingInv, CallFirst
      <4> QED BY <4>1, <4>3, <1>4
    <3>2. CASE s # d \/ u # v
      <4>1. mail'[s][u] = mail[s][u] BY <1>11, <3>2
      <4> QED BY <2>1, <3>2, <4>1 DEF RingInv, CallFirst
    <3> QED BY <3>1, <3>2
  <2>2. /\ v = "callee" /\ box["callee"] = << >> => d = Placer /\ q[1] = "call"
        /\ q[1] = "call" => d = Placer
    <3>1. 1 \in 1 .. Len(mail[d][v]) BY <1>1, <1>4
    <3>2. q[1] = "call" => d = Placer BY <1>1, <3>1 DEF RingInv, CallFirst
    <3>3. ASSUME v = "callee", box["callee"] = << >> PROVE d = Placer /\ q[1] = "call"
      BY <1>1, <1>3, <3>3, RingNames DEF RingInv, CallFirst
    <3> QED BY <3>2, <3>3
  <2>3. box'["callee"] # << >> \/ v # "callee"
    BY <1>8, <1>9, EmptySeq
  <2>4. IF box'["callee"] = << >>
        THEN /\ \A s \in Callees : mail'[s]["callee"] = << >>
             /\ Len(mail'[Placer]["callee"]) >= 1 /\ mail'[Placer]["callee"][1] = "call"
        ELSE \A s \in Call!Handset : \A i \in 1 .. Len(mail'[s]["callee"]) : mail'[s]["callee"][i] # "call"
    <3>1. CASE v = "callee"
      <4>1. SUFFICES ASSUME NEW s \in Call!Handset, NEW i \in 1 .. Len(mail'[s]["callee"]), mail'[s]["callee"][i] = "call"
                     PROVE  FALSE
        BY <2>3, <3>1
      <4>2. s # d /\ s = Placer /\ i \in 1 .. Len(mail[s]["callee"]) /\ mail[s]["callee"][i] = "call"
        BY <2>1, <3>1, <4>1
      <4>3. CASE box["callee"] = << >> BY <2>2, <3>1, <4>2, <4>3
      <4>4. CASE box["callee"] # << >> BY <4>2, <4>4 DEF RingInv, CallFirst
      <4> QED BY <4>3, <4>4
    <3>2. CASE v # "callee"
      <4>1. box'["callee"] = box["callee"] /\ \A s \in Call!Handset : mail'[s]["callee"] = mail[s]["callee"]
        BY <1>10, <1>11, <3>2, RingNames
      <4> QED BY <4>1, RingNames DEF RingInv, CallFirst
    <3> QED BY <3>1, <3>2
  <2>5. \A i \in 1 .. Len(box'["callee"]) : box'["callee"][i].what = "call" <=> i = 1
    <3>1. CASE v = "callee"
      <4>1. CASE box["callee"] = << >>
        <5>1. n = 0 BY <1>8, <3>1, <4>1
        <5> QED BY <1>6, <1>9, <2>2, <3>1, <4>1, <5>1
      <4>2. CASE box["callee"] # << >>
        <5>1. n >= 1 BY <1>7, <1>8, <3>1, <4>2, EmptySeq
        <5>2. q[1] # "call" BY <1>1, <1>4, <3>1, <4>2 DEF RingInv, CallFirst
        <5>3. \A i \in 1 .. n : box'["callee"][i].what = "call" <=> i = 1 BY <1>8, <1>9, <3>1 DEF RingInv, CallFirst
        <5> QED BY <1>6, <1>9, <3>1, <5>1, <5>2, <5>3
      <4> QED BY <4>1, <4>2
    <3>2. CASE v # "callee" BY <1>10, <3>2, RingNames DEF RingInv, CallFirst
    <3> QED BY <3>1, <3>2
  <2>6. \A u \in Call!Users : \A i \in 1 .. Len(box'[u]) : box'[u][i].what = "call" => box'[u][i].from = Placer
    <3>1. \A i \in 1 .. n : box'[v][i].what = "call" => box'[v][i].from = Placer
      BY <1>8, <1>9 DEF RingInv, CallFirst
    <3>2. \A i \in 1 .. Len(box'[v]) : box'[v][i].what = "call" => box'[v][i].from = Placer
      BY <1>6, <1>9, <2>2, <3>1
    <3>3. \A u \in Call!Users \ {v} : \A i \in 1 .. Len(box'[u]) : box'[u][i].what = "call" => box'[u][i].from = Placer
      BY <1>10 DEF RingInv, CallFirst
    <3> QED BY <3>2, <3>3
  <2>7. \A s \in Call!Handset, u \in Call!Users : \A i \in 1 .. Len(mail'[s][u]) :
          mail'[s][u][i] = "call" => s = Placer /\ i = 1
    BY <2>1
  <2> QED BY <2>4, <2>5, <2>6, <2>7 DEF CallFirst
<1>18. AllTold'
  <2> SUFFICES ASSUME hungUp', NEW e \in Call!Handset PROVE Ends(e)' \/ Waiting(e)'
    BY DEF AllTold
  <2>1. Call!User(e) \in Call!Users /\ Call!User(e)' = Call!User(e) BY RingNames DEF Call!User, Call!Incoming
  <2>2. Ends(e) \/ Waiting(e) BY <1>0 DEF RingInv, AllTold
  <2>3. CASE Ends(e) BY <1>0, <2>3 DEF Ends, Call!Free, Call!Unknown, Call!Handlers
  <2>4. ASSUME NEW i \in 1 .. Len(box[Call!User(e)]), i > heard[e],
               box[Call!User(e)][i].what = "ended", box[Call!User(e)][i].from # e
        PROVE  Waiting(e)'
    <3>1. i \in 1 .. Len(box'[Call!User(e)]) /\ box'[Call!User(e)][i] = box[Call!User(e)][i]
      BY <1>8, <1>9, <1>10, <2>1, <2>4
    <3> QED BY <1>0, <2>4, <3>1 DEF Waiting, Call!User, Call!Incoming
  <2>5. ASSUME NEW s \in Call!Handset \ {e}, NEW i \in 1 .. Len(mail[s][Call!User(e)]),
               mail[s][Call!User(e)][i] = "ended"
        PROVE  Waiting(e)'
    <3>1. CASE s # d \/ Call!User(e) # v
      <4>1. mail'[s][Call!User(e)] = mail[s][Call!User(e)] BY <1>11, <2>1, <3>1
      <4> QED BY <2>5, <4>1 DEF Waiting, Call!User, Call!Incoming
    <3>2. CASE s = d /\ Call!User(e) = v /\ i = 1
      <4>1. m.what = "ended" /\ m.from # e BY <1>1, <1>6, <2>5, <3>2
      <4>2. n + 1 > heard[e] BY <1>0, <1>8, <3>2 DEF RingInv, RingTypes
      <4>3. n + 1 \in 1 .. Len(box'[Call!User(e)]) /\ box'[Call!User(e)][n + 1] = m BY <1>9, <3>2
      <4> QED BY <1>0, <4>1, <4>2, <4>3 DEF Waiting, Call!User, Call!Incoming
    <3>3. CASE s = d /\ Call!User(e) = v /\ i # 1
      <4>1. PICK j : j = i - 1 OBVIOUS
      <4>2. j \in 1 .. Len(mail'[d][v]) /\ mail'[d][v][j] = "ended"
        BY <1>1, <1>4, <1>11, <2>5, <3>3, <4>1
      <4> QED BY <2>5, <3>3, <4>2 DEF Waiting, Call!User, Call!Incoming
    <3> QED BY <3>1, <3>2, <3>3
  <2> QED BY <2>2, <2>3, <2>4, <2>5 DEF Waiting
<1> QED BY <1>14, <1>15, <1>16, <1>17, <1>18 DEF RingInv
(* A device has read one message more, and what it said has its effect. *)
LEMMA ReadRingOK ==
    ASSUME CallSetup, RingInv, NEW d \in Call!Handset, heard[d] < Len(box[Call!User(d)]),
           heard' = [heard EXCEPT ![d] = heard[d] + 1], UNCHANGED <<mail, box, hungUp>>,
           ring' \in [Call!Handset -> CallStates], busy' \in [Call!Handset -> [Call!Handlers -> AtWork]],
           OneHandler', ring'[d].known,
           \A e \in Call!Handset \ {d} : ring'[e] = ring[e] /\ busy'[e] = busy[e],
           \/ Ends(d)'
           \/ /\ ~(Ends(d))
              /\ \/ box[Call!User(d)][heard[d] + 1].what # "ended"
                 \/ box[Call!User(d)][heard[d] + 1].from = d
    PROVE  RingInv'
<1>0. /\ heard \in [Call!Handset -> Nat] /\ heard' \in [Call!Handset -> Nat] /\ heard'[d] = heard[d] + 1
      /\ \A e \in Call!Handset \ {d} : heard'[e] = heard[e]
      /\ \A e \in Call!Handset : heard[e] <= Len(box[Call!User(e)])
      /\ \A e \in Call!Handset : Len(box[Call!User(e)]) \in Nat
  <2>1. /\ heard \in [Call!Handset -> Nat] /\ \A e \in Call!Handset : heard[e] <= Len(box[Call!User(e)])
        /\ box \in [Call!Users -> Seq([from : Call!Handset, what : Words])]
    BY DEF RingInv, RingTypes
  <2>2. \A e \in Call!Handset : Len(box[Call!User(e)]) \in Nat BY <2>1, RingNames, LenProperties
  <2> QED BY <2>1, <2>2
<1>1. RingTypes'
  <2>1. \A e \in Call!Handset : heard'[e] <= Len(box[Call!User(e)]) BY <1>0
  <2> QED BY <1>0, <2>1 DEF RingInv, RingTypes, Call!User, Call!Incoming
<1>2. CallHeard'
  <2>1. \A e \in Callees : ring'[e].known <=> heard'[e] >= 1 BY <1>0, RingNames, SMTT(20) DEF RingInv, CallHeard
  <2>2. ring'[Placer].known /\ \A e \in Call!Handset : ring'[e].ended => ring'[e].known
    BY RingNames DEF RingInv, CallHeard
  <2> QED BY <2>1, <2>2 DEF CallHeard, Call!Handset
<1>3. CallFirst' BY DEF RingInv, CallFirst
<1>4. AllTold'
  <2> SUFFICES ASSUME hungUp', NEW e \in Call!Handset PROVE Ends(e)' \/ Waiting(e)'
    BY DEF AllTold
  <2>1. Ends(e) \/ Waiting(e) BY DEF RingInv, AllTold
  <2>2. CASE e # d
    <3>1. Ends(e) => Ends(e)' BY <2>2 DEF Ends, Call!Free, Call!Unknown, Call!Handlers
    <3>2. heard'[e] = heard[e] BY <1>0, <2>2
    <3>3. Waiting(e) => Waiting(e)' BY <3>2 DEF Waiting, Call!User, Call!Incoming, Call!Handset
    <3> QED BY <2>1, <3>1, <3>3
  <2>3. CASE e = d /\ ~(Ends(d)')
    <3>1. Waiting(d) BY <2>1, <2>3
    <3>2. ASSUME NEW i \in 1 .. Len(box[Call!User(d)]), i > heard[d], box[Call!User(d)][i].what = "ended",
                 box[Call!User(d)][i].from # d
          PROVE  i > heard'[d]
      BY <1>0, <2>3, <3>2
    <3> QED BY <2>3, <3>1, <3>2 DEF Waiting, Call!User, Call!Incoming
  <2> QED BY <2>2, <2>3
<1> QED BY <1>1, <1>2, <1>3, <1>4 DEF RingInv

LEMMA ReceiveRingOK ==
    ASSUME CallSetup, RingInv, NEW d \in Call!Handset, Call!Receive(d)
    PROVE  RingInv'
<1>0. /\ busy \in [Call!Handset -> [Call!Handlers -> AtWork]] /\ ring \in [Call!Handset -> CallStates]
      /\ box \in [Call!Users -> Seq([from : Call!Handset, what : Words])] /\ heard \in [Call!Handset -> Nat]
      /\ "receive" \in Call!Handlers /\ Call!User(d) \in Call!Users
  BY RingNames DEF RingInv, RingTypes, Call!Handlers
<1>1. /\ heard[d] < Len(box[Call!User(d)]) /\ heard' = [heard EXCEPT ![d] = heard[d] + 1]
      /\ UNCHANGED <<mail, box, hungUp>>
  BY <1>0 DEF Call!Receive
<1>2. \A g \in Call!Handlers : busy[d][g] = Call!Free BY DEF CallSetup, Call!Receive, Call!MayLoad
<1>3. PICK k : k = heard[d] + 1 OBVIOUS
<1>4. PICK m : m = box[Call!User(d)][k] OBVIOUS
<1>5. k \in 1 .. Len(box[Call!User(d)]) BY <1>0, <1>1, <1>3, LenProperties
<1>6. m.what = "call" => m.from = Placer BY <1>0, <1>4, <1>5 DEF RingInv, CallFirst
<1>7. d \in Callees => (m.what = "call" <=> k = 1) BY <1>4, <1>5, RingNames DEF RingInv, CallFirst
<1>8. m.from = d \/ m.what # "call" => ring[d].known
  <2>1. CASE d = Placer BY <2>1 DEF RingInv, CallHeard
  <2>2. CASE d \in Callees
    <3>1. ASSUME m.from = d \/ m.what # "call" PROVE heard[d] >= 1
      BY <1>0, <1>3, <1>6, <1>7, <2>2, <3>1, RingNames
    <3> QED BY <2>2, <3>1 DEF RingInv, CallHeard
  <2> QED BY <2>1, <2>2, RingNames
<1>9. Ends(d) <=> ring[d].ended BY <1>2 DEF Ends
<1>10. \/ m.from = d /\ UNCHANGED <<ring, busy>>
       \/ m.from # d /\ m.what = "call" /\ ring' = [ring EXCEPT ![d] = Call!Fresh] /\ UNCHANGED busy
       \/ /\ m.from # d /\ m.what = "accepted" /\ UNCHANGED ring
          /\ UNCHANGED busy \/ (~ring[d].ended /\ Call!Loads(d, "receive", "accept"))
       \/ /\ m.from # d /\ m.what = "ended" /\ UNCHANGED ring
          /\ IF ~ring[d].ended
             THEN \E w \in {"end", "decline", "cancel"} : Call!Loads(d, "receive", w)
             ELSE UNCHANGED busy
  BY <1>3, <1>4, <1>8 DEF Call!Receive, Call!EndedRelevant, Call!EndOf
<1>11. ASSUME UNCHANGED <<ring, busy>>, ring[d].known,
              ring[d].ended \/ m.what # "ended" \/ m.from = d
       PROVE  RingInv'
  <2>1. OneHandler' BY <1>11 DEF RingInv, OneHandler, Call!Free, Call!Unknown, Call!Handset, Call!Handlers
  <2>2. Ends(d)' <=> ring[d].ended BY <1>2, <1>11 DEF Ends, Call!Free, Call!Unknown, Call!Handlers
  <2>3. \A e \in Call!Handset \ {d} : ring'[e] = ring[e] /\ busy'[e] = busy[e] BY <1>11
  <2>4. ring' \in [Call!Handset -> CallStates] /\ busy' \in [Call!Handset -> [Call!Handlers -> AtWork]] /\ ring'[d].known
    BY <1>0, <1>11
  <2>5. \/ Ends(d)'
        \/ ~(Ends(d)) /\ (box[Call!User(d)][heard[d] + 1].what # "ended" \/ box[Call!User(d)][heard[d] + 1].from = d)
    BY <1>3, <1>4, <1>9, <1>11, <2>2
  <2> QED BY <1>1, <2>1, <2>3, <2>4, <2>5, ReadRingOK
<1>12. ASSUME NEW w \in {"accept", "end", "decline", "cancel"}, Call!Loads(d, "receive", w), UNCHANGED ring,
              ring[d].known, ~ring[d].ended, w # "accept" \/ m.what # "ended"
       PROVE  RingInv'
  <2>1. PICK b : b = [does |-> w, copy |-> ring[d]] OBVIOUS
  <2>2. b \in AtWork /\ b.does = w /\ b.copy = ring[d] /\ busy' = [busy EXCEPT ![d]["receive"] = b]
    BY <1>0, <1>12, <2>1 DEF AtWork, Call!Loads
  <2>3. ring' \in [Call!Handset -> CallStates] /\ busy' \in [Call!Handset -> [Call!Handlers -> AtWork]] /\ ring'[d].known
    BY <1>0, <1>12, <2>2
  <2>4. \A e \in Call!Handset \ {d} : ring'[e] = ring[e] /\ busy'[e] = busy[e] BY <1>0, <1>12, <2>2
  <2>5. busy'[d]["receive"] = b /\ \A g \in Call!Handlers : g # "receive" => busy'[d][g] = Call!Free
    BY <1>0, <1>2, <2>2
  <2>6. OneHandler'
    <3> SUFFICES ASSUME NEW e \in Call!Handset, NEW h \in Call!Handlers, busy'[e][h] # Call!Free
                 PROVE  /\ busy'[e][h].copy = ring'[e] /\ ring'[e].known
                        /\ \A g \in Call!Handlers : g # h => busy'[e][g] = Call!Free
      BY DEF OneHandler, Call!Free, Call!Unknown, Call!Handset, Call!Handlers
    <3>1. CASE e = d BY <1>12, <2>2, <2>5, <3>1
    <3>2. CASE e # d BY <2>4, <3>2 DEF RingInv, OneHandler
    <3> QED BY <3>1, <3>2
  <2>7. b # Call!Free BY <2>2 DEF Call!Free
  <2>8. w # "accept" => Ends(d)'
    BY <1>0, <2>2, <2>5, <2>7 DEF Ends, Call!Free, Call!Unknown, Call!Handlers
  <2>9. \/ Ends(d)'
        \/ ~(Ends(d)) /\ (box[Call!User(d)][heard[d] + 1].what # "ended" \/ box[Call!User(d)][heard[d] + 1].from = d)
    BY <1>3, <1>4, <1>9, <1>12, <2>8
  <2> QED BY <1>1, <2>3, <2>4, <2>6, <2>9, ReadRingOK
<1>13. ASSUME m.from # d, m.what = "call", ring' = [ring EXCEPT ![d] = Call!Fresh], UNCHANGED busy
       PROVE  RingInv'
  <2>1. d \in Callees /\ k = 1 BY <1>6, <1>7, <1>13, RingNames
  <2>2. ~ring[d].known /\ ~ring[d].ended BY <1>0, <1>3, <2>1 DEF RingInv, CallHeard
  <2>3. /\ ring' \in [Call!Handset -> CallStates] /\ busy' \in [Call!Handset -> [Call!Handlers -> AtWork]]
        /\ ring'[d] = Call!Fresh /\ \A e \in Call!Handset \ {d} : ring'[e] = ring[e] /\ busy'[e] = busy[e]
    BY <1>0, <1>13, RingRecords
  <2>4. OneHandler'
    <3> SUFFICES ASSUME NEW e \in Call!Handset, NEW h \in Call!Handlers, busy[e][h] # Call!Free
                 PROVE  /\ busy[e][h].copy = ring'[e] /\ ring'[e].known
                        /\ \A g \in Call!Handlers : g # h => busy[e][g] = Call!Free
      BY <1>13 DEF OneHandler, Call!Free, Call!Unknown, Call!Handset, Call!Handlers
    <3>1. e # d BY <1>2
    <3> QED BY <2>3, <3>1 DEF RingInv, OneHandler
  <2>5. ~(Ends(d)) /\ box[Call!User(d)][heard[d] + 1].what # "ended" BY <1>3, <1>4, <1>9, <1>13, <2>2
  <2>6. ring'[d].known BY <2>3, FreshCall
  <2> QED BY <1>1, <2>3, <2>4, <2>5, <2>6, ReadRingOK
<1>14. CASE m.from = d BY <1>8, <1>10, <1>11, <1>14
<1>15. CASE m.from # d /\ m.what = "call" BY <1>10, <1>13, <1>15
<1>16. CASE m.from # d /\ m.what = "accepted" BY <1>8, <1>10, <1>11, <1>12, <1>16
<1>17. CASE m.from # d /\ m.what = "ended" BY <1>8, <1>10, <1>11, <1>12, <1>17
<1> QED BY <1>10, <1>14, <1>15, <1>16, <1>17

LEMMA RingsInit == ASSUME CallSetup PROVE Call!Init => Rings
BY FreshCall DEF Rings, Call!Init

LEMMA RingsOK ==
    ASSUME CallSetup, RingInv, RingInv', Rings, [Call!Next]_(Call!vars)
    PROVE  Rings'
<1>1. CASE UNCHANGED <<timer, ring>> BY <1>1 DEF Rings, Call!Handset
<1>2. ASSUME NEW d \in Call!Handset, NEW h \in Call!Handlers, busy[d][h] # Call!Free,
             Call!Writes(d, h), UNCHANGED timer
      PROVE  Rings'
  BY <1>2, WritesOK DEF Rings, Call!Handset
<1>3. ASSUME NEW d \in Call!Handset, Call!TimerLoads(d) PROVE Rings'
  <2>1. \A e \in Call!Handset : timer'[e] => timer[e] BY <1>3 DEF Call!TimerLoads, Rings
  <2>2. timer' \in [Call!Handset -> BOOLEAN] /\ ring' = ring BY <1>3 DEF Call!TimerLoads, Rings
  <2> QED BY <2>1, <2>2 DEF Rings, Call!Handset
<1>4. ASSUME NEW d \in Call!Handset, Call!Receive(d) PROVE Rings'
  <2>1. CASE UNCHANGED <<timer, ring>> BY <1>1, <2>1
  <2>2. CASE ~UNCHANGED <<timer, ring>>
    <3>1. PICK x \in BOOLEAN : x = (Call!Incoming(d) /\ ~late) OBVIOUS
    <3>2. ring' = [ring EXCEPT ![d] = Call!Fresh] /\ timer' = [timer EXCEPT ![d] = x]
      BY <1>4, <2>2, <3>1 DEF Call!Receive
    <3>3. ring \in [Call!Handset -> CallStates] /\ timer \in [Call!Handset -> BOOLEAN] BY DEF RingInv, RingTypes, Rings
    <3>4. ring'[d] = Call!Fresh /\ \A e \in Call!Handset \ {d} : ring'[e] = ring[e] /\ timer'[e] = timer[e]
      BY <3>2, <3>3
    <3>5. timer' \in [Call!Handset -> BOOLEAN] BY <3>2, <3>3
    <3>6. \A e \in Call!Handset : timer'[e] => ring'[e].known BY <3>4, FreshCall DEF Rings
    <3> QED BY <3>5, <3>6 DEF Rings, Call!Handset
  <2> QED BY <2>1, <2>2
<1>5. CASE UNCHANGED Call!vars BY <1>1, <1>5 DEF Call!vars
<1>6. CASE Call!RingingEnds BY <1>1, <1>6 DEF Call!RingingEnds
<1>7. ASSUME NEW d \in Call!Handset, Call!accept_incoming_call(d) \/ Call!end_call(d) \/ \E u \in Call!Users : Call!Deliver(d, u)
      PROVE  Rings'
  BY <1>1, <1>7 DEF Call!accept_incoming_call, Call!end_call, Call!Deliver
<1>8. ASSUME NEW d \in Call!Handset, Call!Announce(d) \/ Call!TimerWrites(d) \/ Call!ReceiveWrites(d)
      PROVE  Rings'
  <2>1. PICK h \in Call!Handlers : busy[d][h] # Call!Free /\ Call!Writes(d, h)
    BY <1>8 DEF Call!Announce, Call!TimerWrites, Call!ReceiveWrites, Call!Handlers
  <2>2. UNCHANGED timer BY <1>8 DEF Call!Announce, Call!TimerWrites, Call!ReceiveWrites
  <2> QED BY <1>2, <2>1, <2>2
<1> QED BY <1>3, <1>4, <1>5, <1>6, <1>7, <1>8 DEF Call!Next

LEMMA RingSteps ==
    ASSUME CallSetup, RingInv, Rings, [Call!Next]_(Call!vars)
    PROVE  RingInv'
<1>1. CASE UNCHANGED Call!vars BY <1>1, QuietOK DEF Call!vars
<1>2. CASE Call!RingingEnds BY <1>2, QuietOK DEF Call!RingingEnds
<1>3. ASSUME NEW d \in Call!Handset, Call!accept_incoming_call(d) \/ Call!end_call(d) PROVE RingInv'
  BY <1>3, ApiLoadsOK
<1>4. ASSUME NEW d \in Call!Handset, Call!Announce(d) PROVE RingInv' BY <1>4, AnnounceRingOK
<1>5. ASSUME NEW d \in Call!Handset, Call!TimerLoads(d) PROVE RingInv' BY <1>5, TimerLoadsOK
<1>6. ASSUME NEW d \in Call!Handset, Call!TimerWrites(d) \/ Call!ReceiveWrites(d) PROVE RingInv'
  BY <1>6, WriterOK
<1>7. ASSUME NEW d \in Call!Handset, Call!Receive(d) PROVE RingInv' BY <1>7, ReceiveRingOK
<1>8. ASSUME NEW d \in Call!Handset, NEW u \in Call!Users, Call!Deliver(d, u) PROVE RingInv' BY <1>8, DeliverOK
<1> QED BY <1>1, <1>2, <1>3, <1>4, <1>5, <1>6, <1>7, <1>8 DEF Call!Next

LEMMA RingEnd == ASSUME CallSetup, RingInv PROVE Call!HangUpReachesAll
<1> SUFFICES ASSUME Call!Settled, hungUp, NEW d \in Call!Handset
             PROVE  Call!CallState(d) \notin {"Active", "Alerting"}
  BY DEF Call!HangUpReachesAll
<1>1. Ends(d) \/ Waiting(d) BY DEF RingInv, AllTold
<1>2. Call!User(d) \in Call!Users BY RingNames
<1>3. ~Waiting(d)
  <2>1. \A s \in Call!Handset : mail[s][Call!User(d)] = << >> BY <1>2 DEF Call!Settled
  <2>2. heard[d] = Len(box[Call!User(d)]) /\ heard[d] \in Nat BY DEF Call!Settled, RingInv, RingTypes
  <2>3. \A s \in Call!Handset : Len(mail[s][Call!User(d)]) = 0 BY <2>1
  <2> QED BY <2>2, <2>3 DEF Waiting
<1>4. ring[d].ended BY <1>1, <1>3 DEF Ends, Call!Settled
<1> QED BY <1>4 DEF Call!CallState

(* When a user has ended the call and all messages have arrived, the call is  *)
(* over on every device: end_call, the ringing timeout and the two messages   *)
(* of handle_call_msg, in any order (src/calls.rs).                           *)
THEOREM HangUpIsHeard == ASSUME CallSetup PROVE Call!Spec => []Call!HangUpReachesAll
<1>1. Call!Init => RingInv /\ Rings BY RingInit, RingsInit
<1>2. RingInv /\ Rings /\ [Call!Next]_(Call!vars) => (RingInv /\ Rings)' BY RingSteps, RingsOK
<1>3. RingInv => Call!HangUpReachesAll BY RingEnd
<1> QED BY <1>1, <1>2, <1>3, PTL DEF Call!Spec
-----------------------------------------------------------------------------
(* Rewriting the messages of a chat to key-contacts. *)

(* No message is rewritten before the migration. *)
RewriteInv ==
    /\ first \in Nat /\ DOMAIN from = 1 .. Msgs /\ phase \in {"old", "rewriting"}
    /\ phase = "old" => from = wrote
    /\ Key!MessagesRewritten

LEMMA RewriteInit == ASSUME Rewriting PROVE Key!Init => RewriteInv
  BY DEF Rewriting, Key!Init, RewriteInv, Key!MessagesRewritten

LEMMA RewriteStep == ASSUME Rewriting, RewriteInv, [Key!Next]_(Key!vars) PROVE RewriteInv'
<1>1. CASE UNCHANGED Key!vars BY <1>1 DEF Key!vars, RewriteInv, Key!MessagesRewritten
<1>2. CASE Key!Migrate
  <2>1. /\ phase = "old" /\ phase' = "rewriting" /\ first' = IF Msgs = 0 THEN 0 ELSE Msgs + 1
        /\ from' = from /\ wrote' = wrote
    BY <1>2 DEF Key!Migrate
  <2>2. first' \in Nat /\ \A i \in 1 .. Msgs : ~(i >= first') BY <2>1 DEF Rewriting
  <2>3. from' = wrote' /\ DOMAIN from' = 1 .. Msgs BY <2>1 DEF RewriteInv
  <2> QED BY <2>1, <2>2, <2>3 DEF RewriteInv, Key!MessagesRewritten
<1>3. CASE Key!Rewrite
  <2>1. PICK start : start = IF first > Batch THEN first - Batch ELSE 0 OBVIOUS
  <2>2. /\ phase = "rewriting" /\ phase' = phase /\ wrote' = wrote /\ map' = map /\ first' = start
        /\ from' = [i \in DOMAIN from |-> IF Key!InBatch(i, start, first) /\ from[i] \in DOMAIN map
                                          THEN map[from[i]] ELSE from[i]]
    BY <1>3, <2>1 DEF Key!Rewrite
  <2>3. start \in Nat /\ start <= first /\ first \in Nat /\ DOMAIN from = 1 .. Msgs
    BY <2>1 DEF Rewriting, RewriteInv
  <2>4. ASSUME NEW i \in 1 .. Msgs
        PROVE  from'[i] = IF i >= start /\ wrote[i] \in DOMAIN map THEN map[wrote[i]] ELSE wrote[i]
    <3>1. from[i] = IF i >= first /\ wrote[i] \in DOMAIN map THEN map[wrote[i]] ELSE wrote[i]
      BY <2>2, <2>3 DEF RewriteInv, Key!MessagesRewritten
    <3>2. from'[i] = IF start <= i /\ i < first /\ from[i] \in DOMAIN map THEN map[from[i]] ELSE from[i]
      BY <2>2, <2>3 DEF Key!InBatch
    <3>3. i \in Nat BY DEF Rewriting
    <3>4. CASE i >= first BY <2>3, <3>1, <3>2, <3>3, <3>4
    <3>5. CASE i < first BY <2>3, <3>1, <3>2, <3>3, <3>5
    <3> QED BY <2>3, <3>3, <3>4, <3>5
  <2>5. DOMAIN from' = 1 .. Msgs BY <2>2, <2>3
  <2> QED BY <2>2, <2>3, <2>4, <2>5 DEF RewriteInv, Key!MessagesRewritten
<1> QED BY <1>1, <1>2, <1>3 DEF Key!Next

-----------------------------------------------------------------------------
(* The parts next to each other: whatever `part' is, each of them behaves as  *)
(* its own specification allows, so that what was proved of it holds in the   *)
(* specification that is checked.                                             *)

LEMMA PartSteps ==
    ASSUME [OwnNext]_<<part, vars, transportVars, accountVars, updateVars, callVars, schemaVars, keyVars>>
    PROVE  /\ [Transport!Next]_(Transport!vars) /\ [Account!Next]_(Account!vars) /\ [Update!Next]_(Update!vars)
           /\ [Call!Next]_(Call!vars) /\ [Schema!Next]_(Schema!vars) /\ [Key!Next]_(Key!vars) /\ UNCHANGED part
<1>1. /\ UNCHANGED transportVars => UNCHANGED Transport!vars
      /\ UNCHANGED accountVars => UNCHANGED Account!vars
      /\ UNCHANGED updateVars => UNCHANGED Update!vars
      /\ UNCHANGED callVars => UNCHANGED Call!vars
      /\ UNCHANGED schemaVars => UNCHANGED Schema!vars
      /\ UNCHANGED keyVars => UNCHANGED Key!vars
  BY DEF transportVars, Transport!vars, accountVars, Account!vars, updateVars, Update!vars,
         callVars, Call!vars, schemaVars, Schema!vars, keyVars, Key!vars
<1>2. \/ OwnNext
      \/ UNCHANGED <<part, transportVars, accountVars, updateVars, callVars, schemaVars, keyVars>>
  OBVIOUS
<1> QED BY <1>1, <1>2 DEF OwnNext

LEMMA PartSpecs ==
    OwnSpec => Transport!Spec /\ Account!Spec /\ Update!Spec /\ Call!Spec /\ Schema!Spec
<1>1. OwnInit => Transport!Init /\ Account!Init /\ Update!Init /\ Call!Init /\ Schema!Init BY DEF OwnInit
<1>2. [OwnNext]_<<part, vars, transportVars, accountVars, updateVars, callVars, schemaVars, keyVars>> =>
        /\ [Transport!Next]_(Transport!vars) /\ [Account!Next]_(Account!vars) /\ [Update!Next]_(Update!vars)
        /\ [Call!Next]_(Call!vars) /\ [Schema!Next]_(Schema!vars)
  BY PartSteps
<1> QED BY <1>1, <1>2, PTL
        DEF OwnSpec, Transport!Spec, Account!Spec, Update!Spec, Call!Spec, Schema!Spec

(* Devices that make changes in turn come to the same transports, and each    *)
(* has the transport it sends from (Transports).                              *)
THEOREM TransportsAreSound == ASSUME Configuration, TakingTurns PROVE OwnSpec => []TransportsSound
<1>1. Transport!TransportsSound => TransportsSound BY DEF TransportsSound
<1> QED BY <1>1, PartSpecs, DevicesComeToAgree, PTL

(* The cached public key lists the published relays (Transports). *)
THEOREM KeyOfRelays == ASSUME Configuration PROVE OwnSpec => []KeyIsCurrent
<1>1. Transport!KeyIsCurrent => KeyIsCurrent BY DEF KeyIsCurrent
<1> QED BY <1>1, PartSpecs, KeyStaysCurrent, PTL

(* An account id that the UI was given never denotes another one (Accounts). *)
THEOREM AccountIds == ASSUME MaxUuid \in Nat PROVE OwnSpec => []IdsAreNotReused
<1>1. Account!IdsAreNotReused => IdsAreNotReused BY DEF IdsAreNotReused
<1> QED BY <1>1, PartSpecs, AccountIdsStay, PTL

(* No status update is lost on the way to the queue and into a message        *)
(* (StatusUpdates).                                                           *)
THEOREM NoUpdateIsLost == ASSUME OneByOne PROVE OwnSpec => []NoUpdateLost
<1>1. Update!NoUpdateLost => NoUpdateLost BY DEF NoUpdateLost
<1> QED BY <1>1, PartSpecs, UpdatesAreKept, PTL

(* A call that was ended is over on every device that has its mail (Calls). *)
THEOREM HangUps == ASSUME CallSetup PROVE OwnSpec => []HangUpReachesAll
<1>1. Call!HangUpReachesAll => HangUpReachesAll BY DEF HangUpReachesAll
<1> QED BY <1>1, PartSpecs, HangUpIsHeard, PTL

(* The steps of the program bring every database to the newest version,       *)
(* wherever its upgrades are interrupted but in the steps that cannot be      *)
(* repeated (Migrations).                                                     *)
THEOREM DatabasesAreUpgraded == ASSUME StepsFit PROVE OwnSpec => []Upgraded
<1>1. Schema!Upgraded => Upgraded BY DEF Upgraded
<1> QED BY <1>1, PartSpecs, UpgradesComplete, PTL

(* No message is left out between two batches of msgs_to_key_contacts, or     *)
(* rewritten before its batch, for any number of messages and any size of the *)
(* batches (KeyContacts).                                                     *)
THEOREM BatchesRewrite == ASSUME Rewriting PROVE OwnSpec => []MessagesRewritten
<1> DEFINE I == part = "keys" => RewriteInv
<1>1. OwnInit => I BY RewriteInit DEF OwnInit
<1>2. I /\ [OwnNext]_<<part, vars, transportVars, accountVars, updateVars, callVars, schemaVars, keyVars>> => I'
  BY PartSteps, RewriteStep
<1>3. I => MessagesRewritten BY DEF MessagesRewritten, RewriteInv
<1> QED BY <1>1, <1>2, <1>3, PTL DEF OwnSpec
=============================================================================

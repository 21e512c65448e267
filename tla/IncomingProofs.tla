---------------------------- MODULE IncomingProofs ----------------------------
(* Proofs about the parts that handle incoming mail.                          *)
(*                                                                            *)
(* ChatAssignment, for any number of people, groups, lists, channels, mails   *)
(* and operations: a mail that was not encrypted shows up in no encrypted     *)
(* chat, and only the user opens chats.  Both follow from what                *)
(* do_chat_assignment keeps of a partial result from one step to the next     *)
(* (Grown).                                                                   *)
(*                                                                            *)
(* MessageUpdates, a message that comes in parts: it is shown once and whole, *)
(* until it is deleted and not after.                                         *)
(*                                                                            *)
(* EphemeralSetting: the timer of a chat becomes the same for all members.    *)
(*                                                                            *)
(* SecureJoin, for any number of Alice's devices, codes, scans, withdrawals,  *)
(* revivals and faults: the handshake implements Invitation, and a withdrawn  *)
(* code is honoured nowhere once the devices are in sync.                     *)
EXTENDS MCIncoming, SequenceTheorems, WellFoundedInduction, TLAPS

(* The rows of the tables. *)
Contact == Contacts \cup {Me}
Chat == {c \in [typ : Types, of : Contact \cup Groups \cup Lists \cup Channels \cup {Nothing},
                members : SUBSET Contact, blocked : Blocking] :
            /\ c.typ = "single" => c.of \in Contact
            /\ c.typ = "list" => c.of \in Lists
            /\ c.typ = "group" => c.of \in Groups
            /\ c.typ \in {"in", "out"} => c.of \in Channels}
Msg == [chat : Nat, enc : BOOLEAN, out : BOOLEAN, shown : BOOLEAN, read : BOOLEAN,
        received : BOOLEAN]

Tabled == chats \in Seq(Chat)
Filed == msgs \in Seq(Msg) /\ \A i \in DOMAIN msgs : msgs[i].chat \in 0..Len(chats)
Sets == banned \subseteq Contacts /\ welcomed \subseteq Ids

(* The inductive invariant. *)
AssignInv == Len(chats) <= MaxChats /\ Tabled /\ Filed /\ Sets /\ NoPlainInEncrypted /\ OnlyWelcome

-----------------------------------------------------------------------------
(* What the headers of a mail have to do with each other. *)
MailOK(m) ==
    /\ m.from \in Everyone /\ m.to \in SUBSET Everyone /\ m.enc \in BOOLEAN
    /\ m.from = Self /\ m.to # {} => m.first \in m.to
    /\ m.grp # Nothing => m.grp \in Groups
    /\ m.list # Nothing => m.list \in (IF m.enc THEN Channels ELSE Lists)
    /\ m.secret => m.list \in Channels /\ m.enc

Headers == [from : Everyone, to : SUBSET Everyone, first : Everyone \cup {Nothing},
            enc : BOOLEAN, error : BOOLEAN, grp : Groups \cup {Nothing},
            list : Lists \cup Channels \cup {Nothing}, chat : BOOLEAN, removal : BOOLEAN,
            reaction : BOOLEAN, hidden : BOOLEAN, secret : BOOLEAN]

(* Every mail of the model has such headers. *)
LEMMA MailsOK == ASSUME NEW m \in Mails PROVE MailOK(m)
<1>1. ASSUME NEW d \in Deliverable
      PROVE  /\ d \in Headers
             /\ ~d.enc /\ ~d.secret /\ d.grp = Nothing /\ d.list = Nothing
             /\ d.from = Self /\ d.to # {} => d.first \in d.to
  <2>1. PICK f \in Everyone, t \in SUBSET Everyone, x \in Everyone \cup {Nothing} :
           d = Letter(f, t, x)
    BY <1>1 DEF Deliverable, Addressed
  <2>2. Blank \in Headers /\ Blank.enc = FALSE /\ Blank.secret = FALSE
        /\ Blank.grp = Nothing /\ Blank.list = Nothing
    BY DEF Blank, Headers, Everyone
  <2>3. d \in Headers
    BY <2>1, <2>2 DEF Headers, Letter
  <2>4. d.enc = FALSE /\ d.secret = FALSE /\ d.grp = Nothing /\ d.list = Nothing
    BY <2>1, <2>2 DEF Headers, Letter
  <2>5. d.from = Self /\ d.to # {} => d.first \in d.to
    BY DEF Deliverable
  <2> QED BY <2>3, <2>4, <2>5
<1>2. CASE m \in Classic
  BY <1>1, <1>2 DEF Classic, MailOK, Headers
<1>3. CASE m \in Direct
  <2>1. PICK d \in Deliverable, r \in BOOLEAN : m = DirectMail(d, r)
    BY <1>3 DEF Direct
  <2> QED BY <2>1, <1>1 DEF DirectMail, MailOK, Headers
<1>4. CASE m \in Pgp
  <2>1. PICK d \in Deliverable : m = [d EXCEPT !.enc = TRUE]
    BY <1>4 DEF Pgp
  <2> QED BY <2>1, <1>1 DEF MailOK, Headers
<1>5. CASE m \in GroupMails
  <2>1. PICK d \in Deliverable, e \in BOOLEAN, g \in Groups, r \in BOOLEAN :
           m = GroupMail(d, e, g, r)
    BY <1>5 DEF GroupMails
  <2> QED BY <2>1, <1>1 DEF GroupMail, MailOK, Headers
<1>6. CASE m \in ListMails
  <2>1. PICK d \in Deliverable, l \in Lists : m = [d EXCEPT !.list = l]
    BY <1>6 DEF ListMails
  <2> QED BY <2>1, <1>1 DEF MailOK, Headers
<1>7. CASE m \in ChannelMails
  <2>1. PICK d \in Deliverable, h \in Channels, s \in BOOLEAN :
           m = ChannelMail(d, h, s)
    BY <1>7 DEF ChannelMails
  <2> QED BY <2>1, <1>1 DEF ChannelMail, MailOK, Headers
<1>8. CASE m \in Garbled
  <2>1. PICK d \in Deliverable : m = [d EXCEPT !.error = TRUE]
    BY <1>8 DEF Garbled
  <2> QED BY <2>1, <1>1 DEF MailOK, Headers
<1>9. CASE m \in Reports
  <2>1. PICK d \in Deliverable : m = [d EXCEPT !.hidden = TRUE]
    BY <1>9 DEF Reports
  <2> QED BY <2>1, <1>1 DEF MailOK, Headers
<1> QED BY <1>2, <1>3, <1>4, <1>5, <1>6, <1>7, <1>8, <1>9 DEF Mails

(* The contact of an address: a key-contact for signed mails only.            *)
LEMMA Kinds ==
    ASSUME NEW p \in Everyone, NEW s \in BOOLEAN
    PROVE  /\ ContactOf(p, s) \in Contact
           /\ p # Self => ContactOf(p, s) # Me
           /\ ~s => ContactOf(p, s) \notin {Key(q) : q \in People}
BY NamesAssumption DEF ContactOf, Contact, Contacts, Everyone, Key, Addr, Me, Self

(* A function on 1..n is a sequence. *)
LEMMA FunctionIsSeq ==
    ASSUME NEW S, NEW n \in Nat, NEW f \in [1..n -> S]
    PROVE  f \in Seq(S) /\ Len(f) = n
<1>1. f \in Seq(S)
  BY SeqDef
<1>2. DOMAIN f = 1..n /\ DOMAIN f = 1..Len(f) /\ Len(f) \in Nat
  BY <1>1, LenProperties
<1> QED BY <1>1, <1>2

-----------------------------------------------------------------------------
(* What holds of a partial result for mail m, in every step of                *)
(* do_chat_assignment: chats keep their types, at most one chat is found, an  *)
(* unencrypted mail fits to it, and no other chat than this was opened.       *)
Result == [chats : Seq(Chat), id : SUBSET Nat, blocked : Blocking]
Open(m, c) == m.enc \/ (c.typ = "single" /\ c.of = Me) \/ ~IsEncrypted(c)
Vouched(m) == \/ ~Incoming(m)
              \/ \E i \in OfContact(FromId(m)) : chats[i].blocked = "Not"

Extended(r) == /\ Len(chats) <= Len(r.chats)
               /\ \A i \in Ids : r.chats[i].typ = chats[i].typ /\ r.chats[i].of = chats[i].of
Found(r) == r.id = {} \/ \E x \in 0..Len(r.chats) : r.id = {x}
Fits(m, r) == \A i \in r.id \ {Trash} : Open(m, r.chats[i])
Welcome(m, r) == ~Bot => \A i \in 1..Len(r.chats) :
                    r.chats[i].blocked = "Not" /\ r.chats[i].typ # "in"
                    => i \in welcomed \/ (Vouched(m) /\ i \in r.id)
Grown(m, r) == r \in Result /\ Extended(r) /\ Found(r) /\ Fits(m, r) /\ Welcome(m, r)

(* No chat, the trash, or a chat that was there. *)
LEMMA NoneGrown ==
    ASSUME Tabled, OnlyWelcome, NEW m
    PROVE  Grown(m, Undecided) /\ Grown(m, Trashed)
<1>1. Len(chats) \in Nat /\ Ids = 1..Len(chats)
  BY LenProperties DEF Tabled, Ids
<1> QED BY <1>1 DEF Tabled, OnlyWelcome, Grown, Undecided, Trashed, Result, Extended, Found, Fits,
                Welcome, Trash, Blocking

LEMMA ChosenGrown ==
    ASSUME Tabled, OnlyWelcome, NEW m, NEW i \in Ids, Open(m, chats[i])
    PROVE  Grown(m, Chosen(i))
<1>1. Len(chats) \in Nat /\ Ids = 1..Len(chats)
  BY LenProperties DEF Tabled, Ids
<1>2. chats[i] \in Chat
  BY <1>1, ElementOfSeq DEF Tabled
<1>3. chats[i].blocked \in Blocking
  BY <1>2 DEF Chat
<1> QED BY <1>1, <1>3 DEF Tabled, OnlyWelcome, Grown, Chosen, Result, Extended, Found, Fits, Welcome

(* A new chat: open only if somebody the user welcomed vouches for it.        *)
LEMMA CreatedGrown ==
    ASSUME Tabled, OnlyWelcome, NEW m, NEW typ, NEW of, NEW mem, NEW b, NEW g \in Blocking,
           [typ |-> typ, of |-> of, members |-> mem, blocked |-> b] \in Chat,
           Open(m, [typ |-> typ, of |-> of, members |-> mem, blocked |-> b]),
           ~Bot /\ b = "Not" /\ typ # "in" => Vouched(m)
    PROVE  Grown(m, Created(typ, of, mem, b, g))
<1> DEFINE c == [typ |-> typ, of |-> of, members |-> mem, blocked |-> b]
           new == Append(chats, c)
           r == Created(typ, of, mem, b, g)
<1>1. Len(chats) \in Nat /\ Ids = 1..Len(chats)
  BY LenProperties DEF Tabled, Ids
<1>2. /\ new \in Seq(Chat) /\ Len(new) = Len(chats) + 1 /\ new[Len(chats) + 1] = c
      /\ \A i \in 1..Len(chats) : new[i] = chats[i]
  BY AppendProperties DEF Tabled
<1>3. r = [chats |-> new, id |-> {Len(chats) + 1}, blocked |-> g]
  BY DEF Created
<1>4. c.typ = typ /\ c.blocked = b
  OBVIOUS
<1>5. \A i \in 1..Len(new) : i \in 1..Len(chats) \/ i = Len(chats) + 1
  BY <1>1, <1>2
<1> HIDE DEF c, new, r
<1>6. r \in Result
  BY <1>1, <1>2, <1>3 DEF Result
<1>7. Extended(r)
  BY <1>1, <1>2, <1>3 DEF Extended
<1>8. Found(r)
  BY <1>1, <1>2, <1>3 DEF Found
<1>9. Fits(m, r)
  BY <1>1, <1>2, <1>3 DEF Fits, c
<1>10. Welcome(m, r)
  BY <1>1, <1>2, <1>3, <1>4, <1>5 DEF Welcome, OnlyWelcome
<1> QED BY <1>6, <1>7, <1>8, <1>9, <1>10 DEF Grown, r

(* Setting the blocking of the chat that was found. *)
LEMMA BlockedGrown ==
    ASSUME Tabled, OnlyWelcome, NEW m, NEW r, Grown(m, r), NEW b \in Blocking,
           ~Bot /\ b = "Not" => Vouched(m)
    PROVE  Grown(m, WithBlocked(r, b)) /\ Grown(m, [WithBlocked(r, b) EXCEPT !.blocked = b])
<1> DEFINE n == Len(r.chats)
           new == [i \in DOMAIN r.chats |->
                      IF i \in r.id THEN [r.chats[i] EXCEPT !.blocked = b] ELSE r.chats[i]]
<1>1. r \in Result /\ r.chats \in Seq(Chat)
  BY DEF Grown, Result
<1>2. n \in Nat /\ DOMAIN r.chats = 1..n /\ \A i \in 1..n : r.chats[i] \in Chat
  BY <1>1, LenProperties
<1>3. \A c \in Chat : /\ [c EXCEPT !.blocked = b] \in Chat
                       /\ [c EXCEPT !.blocked = b].typ = c.typ
                       /\ [c EXCEPT !.blocked = b].of = c.of
                       /\ [c EXCEPT !.blocked = b].blocked = b
  BY DEF Chat
<1>4. new \in [1..n -> Chat]
  BY <1>2, <1>3
<1>5. new \in Seq(Chat) /\ Len(new) = n
  BY <1>2, <1>4, FunctionIsSeq
<1>6. \A i \in 1..n : /\ new[i].typ = r.chats[i].typ /\ new[i].of = r.chats[i].of
                       /\ new[i].blocked = IF i \in r.id THEN b ELSE r.chats[i].blocked
  BY <1>2, <1>3
<1>7. WithBlocked(r, b) = [r EXCEPT !.chats = new]
  BY DEF WithBlocked
<1> HIDE DEF new
<1>8. ASSUME NEW x \in Result, x.chats = new, x.id = r.id
      PROVE  Grown(m, x)
  <2>1. Extended(x)
    <3>1. Len(chats) \in Nat /\ Ids = 1..Len(chats)
      BY LenProperties DEF Tabled, Ids
    <3> QED BY <1>2, <1>5, <1>6, <1>8, <3>1 DEF Grown, Extended
  <2>2. Found(x)
    BY <1>5, <1>8 DEF Grown, Found
  <2>3. Fits(m, x)
    <3>1. \A i \in 1..n : IsEncrypted(new[i]) = IsEncrypted(r.chats[i])
      BY <1>6 DEF IsEncrypted
    <3>2. \A i \in 1..n : Open(m, r.chats[i]) => Open(m, new[i])
      BY <1>6, <3>1 DEF Open
    <3>3. \A i \in r.id \ {Trash} : i \in 1..n
      BY <1>2 DEF Grown, Found, Trash
    <3> QED BY <1>8, <3>2, <3>3 DEF Grown, Fits
  <2>4. Welcome(m, x)
    BY <1>2, <1>5, <1>6, <1>8 DEF Grown, Welcome
  <2> QED BY <1>8, <2>1, <2>2, <2>3, <2>4 DEF Grown
<1>9. /\ [r EXCEPT !.chats = new] \in Result
      /\ [r EXCEPT !.chats = new].chats = new /\ [r EXCEPT !.chats = new].id = r.id
  BY <1>1, <1>5 DEF Result
<1>10. \A x \in Result : /\ [x EXCEPT !.blocked = b] \in Result
                          /\ [x EXCEPT !.blocked = b].chats = x.chats
                          /\ [x EXCEPT !.blocked = b].id = x.id
  BY DEF Result
<1> QED BY <1>7, <1>8, <1>9, <1>10

(* The blocking a result is carried on with touches no chat. *)
LEMMA CarriedGrown ==
    ASSUME NEW m, NEW r, Grown(m, r), NEW b \in Blocking
    PROVE  Grown(m, [r EXCEPT !.blocked = b])
<1>1. /\ [r EXCEPT !.blocked = b] \in Result
      /\ [r EXCEPT !.blocked = b].chats = r.chats /\ [r EXCEPT !.blocked = b].id = r.id
  BY DEF Grown, Result
<1> QED BY <1>1 DEF Grown, Extended, Found, Fits, Welcome

(* The chat found by a contact fits to its mails. *)
LEMMA OwnChatFits ==
    ASSUME Tabled, NEW m, NEW c, m.enc \/ c = Me \/ c \notin {Key(q) : q \in People},
           NEW i \in OfContact(c)
    PROVE  i \in Ids /\ Open(m, chats[i])
BY DEF OfContact, Open, IsEncrypted

LEMMA FromIsContact ==
    ASSUME NEW m, MailOK(m)
    PROVE  /\ FromId(m) \in Contact
           /\ Incoming(m) => FromId(m) # Me
           /\ ~m.enc => FromId(m) \notin {Key(q) : q \in People}
BY Kinds DEF MailOK, FromId, Incoming

LEMMA ToIsContact ==
    ASSUME NEW m, MailOK(m), ~Incoming(m)
    PROVE  ToId(m) \in Contact /\ (m.enc \/ ToId(m) = Me \/ ToId(m) \notin {Key(q) : q \in People})
<1>1. CASE m.to = {}
  BY <1>1 DEF ToId, Contact
<1>2. CASE m.to # {}
  <2>1. m.first \in Everyone /\ m.enc \in BOOLEAN
    BY <1>2 DEF MailOK, Incoming
  <2> QED BY <1>2, <2>1, Kinds DEF ToId
<1> QED BY <1>1, <1>2

LEMMA CreateBlockedOK ==
    ASSUME NEW m
    PROVE  /\ CreateBlocked(FromId(m)) \in Blocking
           /\ ~Bot /\ CreateBlocked(FromId(m)) = "Not" => Vouched(m)
BY DEF CreateBlocked, DefaultBlocked, Blocking, Vouched

(* A new 1:1 chat. *)
LEMMA SingleGrown ==
    ASSUME Tabled, OnlyWelcome, NEW m, NEW c \in Contact, NEW b \in Blocking,
           m.enc \/ c = Me \/ c \notin {Key(q) : q \in People},
           ~Bot /\ b = "Not" => Vouched(m)
    PROVE  Grown(m, Created("single", c, {c}, b, b))
<1>1. [typ |-> "single", of |-> c, members |-> {c}, blocked |-> b] \in Chat
  BY DEF Chat, Types
<1>2. Open(m, [typ |-> "single", of |-> c, members |-> {c}, blocked |-> b])
  BY DEF Open, IsEncrypted
<1> QED BY <1>1, <1>2, CreatedGrown

LEMMA ListedGrown ==
    ASSUME Tabled, OnlyWelcome, NEW m, MailOK(m), m.list # Nothing, NEW i \in ByGrpid(m.list)
    PROVE  Grown(m, Chosen(i))
<1>1. i \in Ids /\ chats[i] \in Chat
  BY LenProperties DEF Tabled, Ids, ByGrpid
<1>2. m.enc \/ chats[i].typ = "list"
  BY <1>1, NamesAssumption DEF Chat, ByGrpid, MailOK
<1>3. Open(m, chats[i])
  BY <1>2 DEF Open, IsEncrypted
<1> QED BY <1>1, <1>3, ChosenGrown

LEMMA InGroupGrown ==
    ASSUME Tabled, OnlyWelcome, NEW m, MailOK(m), m.grp # Nothing, m.enc,
           NEW allowed \in BOOLEAN, NEW b \in Blocking, ~Bot /\ b = "Not" => Vouched(m)
    PROVE  Grown(m, InGroup(m, allowed, b))
<1>1. ASSUME ByGrpid(m.grp) # {}
      PROVE  Grown(m, Chosen(CHOOSE i \in ByGrpid(m.grp) : TRUE))
  BY <1>1, ChosenGrown DEF ByGrpid, Open
<1> DEFINE mem == {Me, FromId(m)} \cup {ContactOf(p, TRUE) : p \in m.to}
<1>2. mem \in SUBSET Contact
  <2>1. \A p \in m.to : ContactOf(p, TRUE) \in Contact
    BY Kinds DEF MailOK
  <2> QED BY <2>1, FromIsContact DEF Contact
<1> HIDE DEF mem
<1>3. [typ |-> "group", of |-> m.grp, members |-> mem, blocked |-> b] \in Chat
  BY <1>2 DEF Chat, Types, MailOK
<1>4. Grown(m, Created("group", m.grp, mem, b, b))
  BY <1>3, CreatedGrown DEF Open
<1> QED BY <1>1, <1>4, NoneGrown DEF InGroup, mem

LEMMA InAdHocGrown ==
    ASSUME Tabled, OnlyWelcome, NEW m, MailOK(m),
           NEW allowed \in BOOLEAN, NEW b \in Blocking, ~Bot /\ b = "Not" => Vouched(m),
           NEW r \in InAdHoc(m, allowed, b)
    PROVE  Grown(m, r)
<1>1. ASSUME NEW i \in AdHocMatches(m)
      PROVE  Grown(m, Chosen(i))
  BY <1>1, ChosenGrown DEF AdHocMatches, Open, IsEncrypted
<1>2. AdHocMembers(m) \in SUBSET Contact
  <2>1. \A p \in m.to \cup {m.from} : ContactOf(p, FALSE) \in Contact
    BY Kinds DEF MailOK
  <2> QED BY <2>1 DEF AdHocMembers, AdHocContacts, Contact
<1>3. [typ |-> "adhoc", of |-> Nothing, members |-> AdHocMembers(m), blocked |-> b] \in Chat
  BY <1>2 DEF Chat, Types
<1>4. Open(m, [typ |-> "adhoc", of |-> Nothing, members |-> AdHocMembers(m), blocked |-> b])
  BY DEF Open, IsEncrypted
<1>5. Grown(m, Created("adhoc", Nothing, AdHocMembers(m), b, b))
  BY <1>3, <1>4, CreatedGrown
<1> QED BY <1>1, <1>5, NoneGrown DEF InAdHoc

LEMMA InListGrown ==
    ASSUME Tabled, OnlyWelcome, NEW m, MailOK(m), m.list # Nothing,
           NEW b \in Blocking, ~Bot /\ b = "Not" => Vouched(m)
    PROVE  Grown(m, InList(m, b))
<1>1. ByGrpid(m.list) # {} => Grown(m, Chosen(CHOOSE i \in ByGrpid(m.list) : TRUE))
  BY ListedGrown
<1>2. ASSUME m.enc
      PROVE  Grown(m, Created("in", m.list, {FromId(m)}, "Not", b))
  <2>1. [typ |-> "in", of |-> m.list, members |-> {FromId(m)}, blocked |-> "Not"] \in Chat
    BY <1>2, FromIsContact DEF Chat, Types, Blocking, MailOK
  <2> QED BY <1>2, <2>1, CreatedGrown DEF Open
<1>3. ASSUME ~m.enc
      PROVE  Grown(m, Created("list", m.list, {}, b, b))
  <2>1. [typ |-> "list", of |-> m.list, members |-> {}, blocked |-> b] \in Chat
    BY <1>3 DEF Chat, Types, MailOK
  <2>2. Open(m, [typ |-> "list", of |-> m.list, members |-> {}, blocked |-> b])
    BY DEF Open, IsEncrypted
  <2> QED BY <2>1, <2>2, CreatedGrown
<1> QED BY <1>1, <1>2, <1>3, NoneGrown DEF InList

LEMMA InOwnChannelGrown ==
    ASSUME Tabled, OnlyWelcome, NEW m, MailOK(m), m.list # Nothing, ~Incoming(m)
    PROVE  Grown(m, InOwnChannel(m))
<1>1. ByGrpid(m.list) # {}
      => Grown(m, [Chosen(CHOOSE i \in ByGrpid(m.list) : TRUE) EXCEPT !.blocked = "Not"])
  BY ListedGrown, CarriedGrown DEF Blocking
<1>2. ASSUME m.secret
      PROVE  Grown(m, Created("out", m.list, {}, "Not", "Not"))
  <2>1. [typ |-> "out", of |-> m.list, members |-> {}, blocked |-> "Not"] \in Chat
    BY <1>2 DEF Chat, Types, Blocking, MailOK
  <2>2. Vouched(m)
    BY DEF Vouched
  <2>3. m.enc
    BY <1>2 DEF MailOK
  <2> QED BY <2>1, <2>2, <2>3, CreatedGrown DEF Open, Blocking
<1> QED BY <1>1, <1>2, NoneGrown DEF InOwnChannel

LEMMA MatchGrown ==
    ASSUME Tabled, Filed, OnlyWelcome, NEW m, MailOK(m), NEW parent \in 0..Len(msgs),
           NEW allowed \in BOOLEAN, NEW b \in Blocking, ~Bot /\ b = "Not" => Vouched(m),
           NEW r \in Match(m, parent, Decided(m, parent), allowed, b)
    PROVE  Grown(m, r)
<1> DEFINE d == Decided(m, parent)
<1>1. /\ d = "group" => m.grp # Nothing /\ m.enc
      /\ d = "list" => m.list # Nothing
      /\ d = "existing" => RepliesTo(m, parent)
      /\ d \in {"trash", "list", "group", "existing", "adhoc", "single"}
  BY DEF Decided
<1> HIDE DEF d
<1>2. CASE d = "existing"
  <2>1. parent \in 1..Len(msgs) /\ msgs[parent].chat # Trash
    BY <1>1, <1>2 DEF RepliesTo
  <2>2. msgs[parent].chat \in Ids
    BY <2>1, LenProperties DEF Filed, Tabled, Ids, Trash
  <2>3. Open(m, chats[msgs[parent].chat])
    BY <1>1, <1>2 DEF RepliesTo, Open
  <2>4. r = Chosen(msgs[parent].chat)
    BY <1>2 DEF Match, d
  <2> QED BY <2>2, <2>3, <2>4, ChosenGrown
<1>3. CASE d = "group"
  <2>1. r = InGroup(m, allowed, b)
    BY <1>3 DEF Match, d
  <2> QED BY <1>1, <1>3, <2>1, InGroupGrown
<1>4. CASE d = "list"
  <2>1. r = IF Incoming(m) THEN InList(m, b) ELSE InOwnChannel(m)
    BY <1>4 DEF Match, d
  <2> QED BY <1>1, <1>4, <2>1, InListGrown, InOwnChannelGrown
<1>5. CASE d = "adhoc"
  <2>1. r \in InAdHoc(m, allowed, b)
    BY <1>5 DEF Match, d
  <2> QED BY <2>1, InAdHocGrown
<1>6. CASE d \in {"trash", "single"}
  BY <1>6, NoneGrown DEF Match, d
<1> QED BY <1>1, <1>2, <1>3, <1>4, <1>5, <1>6

(* The whole of do_chat_assignment. *)
LEMMA IncomingGrown ==
    ASSUME Tabled, Filed, OnlyWelcome, NEW m, MailOK(m), Incoming(m), NEW parent \in 0..Len(msgs),
           NEW r \in AssignIncoming(m, parent)
    PROVE  Grown(m, r)
<1> DEFINE allowed == AllowCreation(m) \/ OfContact(FromId(m)) # {}
           b == CreateBlocked(FromId(m))
           d == Decided(m, parent)
           from == FromId(m)
           wanted == IF from \in banned THEN "Yes" ELSE DefaultBlocked
<1>1. PICK x \in Match(m, parent, d, allowed, b) : r = InDirect(m, Reopened(d, x, b))
  BY DEF AssignIncoming
<1>2. b \in Blocking /\ (~Bot /\ b = "Not" => Vouched(m))
  BY CreateBlockedOK
<1>3. allowed \in BOOLEAN
  OBVIOUS
<1> HIDE DEF allowed, b, wanted
<1>4. Grown(m, x)
  BY <1>2, <1>3, MatchGrown
<1>5. Grown(m, Reopened(d, x, b))
  BY <1>2, <1>4, BlockedGrown DEF Reopened
<1>6. wanted \in Blocking /\ (~Bot /\ wanted = "Not" => Vouched(m))
  BY DEF wanted, DefaultBlocked, Blocking
<1>7. from \in Contact /\ (m.enc \/ from \notin {Key(q) : q \in People})
  BY FromIsContact DEF MailOK
<1> DEFINE own == IF OfContact(from) # {} THEN Chosen(CHOOSE i \in OfContact(from) : TRUE)
                  ELSE IF AllowCreation(m) THEN Created("single", from, {from}, wanted, wanted)
                  ELSE Undecided
<1>8. Grown(m, own)
  <2>1. OfContact(from) # {} => Grown(m, Chosen(CHOOSE i \in OfContact(from) : TRUE))
    BY <1>7, OwnChatFits, ChosenGrown
  <2>2. Grown(m, Created("single", from, {from}, wanted, wanted))
    BY <1>6, <1>7, SingleGrown
  <2> QED BY <2>1, <2>2, NoneGrown
<1>9. r \in {Reopened(d, x, b), WithBlocked(own, wanted), own}
  BY <1>1 DEF InDirect, wanted
<1> HIDE DEF own
<1>10. Grown(m, WithBlocked(own, wanted))
  BY <1>6, <1>8, BlockedGrown
<1> QED BY <1>5, <1>8, <1>9, <1>10

LEMMA OutgoingGrown ==
    ASSUME Tabled, Filed, OnlyWelcome, NEW m, MailOK(m), ~Incoming(m), NEW parent \in 0..Len(msgs),
           NEW r \in AssignOutgoing(m, parent)
    PROVE  Grown(m, r)
<1> DEFINE to == ToId(m)
           d == Decided(m, parent)
<1>1. Vouched(m) /\ "Not" \in Blocking /\ AllowCreation(m) \in BOOLEAN
  BY DEF Vouched, Blocking, AllowCreation
<1>2. PICK y \in {InRecipients(m, z) : z \in Match(m, parent, d, AllowCreation(m), "Not")} :
         r = IF y.blocked # "Not" /\ y.id # {} THEN [WithBlocked(y, "Not") EXCEPT !.blocked = "Not"]
             ELSE y
  BY DEF AssignOutgoing
<1>3. PICK x \in Match(m, parent, d, AllowCreation(m), "Not") : y = InRecipients(m, x)
  BY <1>2
<1>4. Grown(m, x)
  BY <1>1, MatchGrown
<1>5. to \in Contact /\ (m.enc \/ to = Me \/ to \notin {Key(q) : q \in People})
  BY ToIsContact
<1> DEFINE own == IF OfContact(to) # {} THEN Chosen(CHOOSE i \in OfContact(to) : TRUE)
                  ELSE Created("single", to, {to}, "Not", "Not")
<1>6. Grown(m, own)
  <2>1. OfContact(to) # {} => Grown(m, Chosen(CHOOSE i \in OfContact(to) : TRUE))
    BY <1>5, OwnChatFits, ChosenGrown
  <2>2. Grown(m, Created("single", to, {to}, "Not", "Not"))
    BY <1>1, <1>5, SingleGrown
  <2> QED BY <2>1, <2>2
<1>7. y \in {x, own}
  BY <1>3 DEF InRecipients
<1> HIDE DEF own
<1>8. Grown(m, y)
  BY <1>4, <1>6, <1>7
<1> QED BY <1>1, <1>2, <1>8, BlockedGrown

(* add_parts finds a chat for every mail and leaves an opened channel alone.  *)
LEMMA PlacedGrown ==
    ASSUME Tabled, OnlyWelcome, NEW m, MailOK(m), NEW r, Grown(m, r)
    PROVE  Grown(m, Placed(m, r)) /\ Placed(m, r).id # {}
<1> DEFINE own == OfContact(FromId(m))
           i == CHOOSE x \in own : TRUE
           n == Len(r.chats)
           c == [typ |-> "single", of |-> FromId(m), members |-> {FromId(m)}, blocked |-> "Request"]
<1>1. r.id = {} => Placed(m, r) = Trashed /\ Trashed.id # {}
  BY DEF Placed, Trashed
<1>2. r \in Result /\ r.chats \in Seq(Chat) /\ n \in Nat /\ \A j \in 1..n : r.chats[j] \in Chat
  BY LenProperties DEF Grown, Result
<1>3. Len(chats) \in Nat /\ Ids = 1..Len(chats) /\ Len(chats) <= n
  BY LenProperties DEF Tabled, Ids, Grown, Extended
<1>4. ASSUME WrongSender(m, r)
      PROVE  \A j \in r.id : j \in 1..n => r.chats[j].typ = "in"
  <2>1. PICK k \in r.id \ {Trash} : r.chats[k].typ = "in"
    BY <1>4 DEF WrongSender
  <2>2. r.id = {k}
    BY <2>1 DEF Grown, Found
  <2> QED BY <2>1, <2>2
<1>5. ASSUME WrongSender(m, r)
      PROVE  ~Bot => \A j \in 1..n : r.chats[j].blocked = "Not" /\ r.chats[j].typ # "in"
                                     => j \in welcomed
  BY <1>4, <1>5 DEF Grown, Welcome
<1>6. FromId(m) \in Contact /\ (m.enc \/ FromId(m) \notin {Key(q) : q \in People})
  BY FromIsContact DEF MailOK
<1>7. ASSUME WrongSender(m, r), own # {}
      PROVE  Grown(m, [chats |-> r.chats, id |-> {i}, blocked |-> r.chats[i].blocked])
  <2> DEFINE x == [chats |-> r.chats, id |-> {i}, blocked |-> r.chats[i].blocked]
  <2>1. i \in own /\ i \in Ids /\ Open(m, chats[i])
    BY <1>6, <1>7, OwnChatFits
  <2>2. i \in 1..n /\ r.chats[i].blocked \in Blocking
    BY <1>2, <1>3, <2>1 DEF Chat
  <2>3. r.chats[i].typ = chats[i].typ /\ r.chats[i].of = chats[i].of
    BY <2>1 DEF Grown, Extended
  <2>4. Open(m, r.chats[i])
    BY <2>1, <2>3 DEF Open, IsEncrypted
  <2> HIDE DEF i, own
  <2>5. x \in Result /\ x.chats = r.chats /\ x.id = {i}
    BY <1>2, <2>2 DEF Result
  <2> HIDE DEF x
  <2>6. Extended(x) /\ Found(x) /\ Fits(m, x)
    BY <2>2, <2>4, <2>5 DEF Grown, Extended, Found, Fits
  <2>7. Welcome(m, x)
    BY <1>5, <1>7, <2>5 DEF Welcome
  <2> QED BY <2>5, <2>6, <2>7 DEF Grown, x
<1>8. ASSUME WrongSender(m, r)
      PROVE  Grown(m, [chats |-> Append(r.chats, c), id |-> {n + 1}, blocked |-> "Request"])
  <2> DEFINE new == Append(r.chats, c)
             x == [chats |-> new, id |-> {n + 1}, blocked |-> "Request"]
  <2>1. c \in Chat /\ c.blocked = "Request" /\ Open(m, c)
    BY <1>6 DEF Chat, Types, Blocking, Open, IsEncrypted
  <2> HIDE DEF c
  <2>2. /\ new \in Seq(Chat) /\ Len(new) = n + 1 /\ new[n + 1] = c
        /\ \A j \in 1..n : new[j] = r.chats[j]
    BY <1>2, <2>1, AppendProperties
  <2> HIDE DEF new
  <2>3. x \in Result /\ x.chats = new /\ x.id = {n + 1}
    BY <1>2, <2>2 DEF Result, Blocking
  <2> HIDE DEF x
  <2>4. Extended(x)
    <3>1. Len(chats) <= Len(x.chats) BY <1>2, <1>3, <2>2, <2>3 DEF Grown, Extended
    <3>2. \A j \in Ids : x.chats[j] = r.chats[j] BY <1>2, <1>3, <2>2, <2>3
    <3>3. \A j \in Ids : r.chats[j].typ = chats[j].typ /\ r.chats[j].of = chats[j].of BY DEF Grown, Extended
    <3> QED BY <3>1, <3>2, <3>3 DEF Extended
  <2>5. Found(x) /\ Fits(m, x)
    BY <1>2, <2>1, <2>2, <2>3 DEF Found, Fits
  <2>6. \A j \in 1..Len(new) : j \in 1..n \/ j = n + 1
    BY <1>2, <2>2
  <2>7. Welcome(m, x)
    BY <1>5, <1>8, <2>1, <2>2, <2>3, <2>6 DEF Welcome
  <2> QED BY <2>3, <2>4, <2>5, <2>7 DEF Grown, x, new
<1>9. Placed(m, r) = IF r.id = {} THEN Trashed
                     ELSE IF ~WrongSender(m, r) THEN r
                     ELSE IF own # {}
                       THEN [chats |-> r.chats, id |-> {i}, blocked |-> r.chats[i].blocked]
                     ELSE [chats |-> Append(r.chats, c), id |-> {n + 1}, blocked |-> "Request"]
  BY DEF Placed
<1> HIDE DEF own, i, n, c
<1>10. CASE r.id = {}
  BY <1>1, <1>10, NoneGrown
<1>11. CASE r.id # {} /\ ~WrongSender(m, r)
  <2>1. Placed(m, r) = r
    BY <1>9, <1>11
  <2> QED BY <1>11, <2>1
<1>12. CASE r.id # {} /\ WrongSender(m, r) /\ own # {}
  <2>1. Placed(m, r) = [chats |-> r.chats, id |-> {i}, blocked |-> r.chats[i].blocked]
    BY <1>9, <1>12
  <2> QED BY <1>7, <1>12, <2>1
<1>13. CASE r.id # {} /\ WrongSender(m, r) /\ own = {}
  <2>1. Placed(m, r) = [chats |-> Append(r.chats, c), id |-> {n + 1}, blocked |-> "Request"]
    BY <1>9, <1>13
  <2> QED BY <1>8, <1>13, <2>1
<1> QED BY <1>10, <1>11, <1>12, <1>13

-----------------------------------------------------------------------------
(* The steps.  As long as chats keep what they are, so do the messages filed  *)
(* in them.                                                                   *)
Keeps == /\ Tabled' /\ Len(chats) <= Len(chats')
         /\ \A i \in Ids : chats'[i].typ = chats[i].typ /\ chats'[i].of = chats[i].of

LEMMA SameMessages ==
    ASSUME AssignInv, Keeps, UNCHANGED msgs
    PROVE  Filed' /\ NoPlainInEncrypted'
<1>1. Len(chats) \in Nat /\ Ids = 1..Len(chats) /\ Len(chats') \in Nat
  BY LenProperties DEF AssignInv, Tabled, Keeps, Ids
<1>2. \A i \in Ids : /\ IsEncrypted(chats'[i]) = IsEncrypted(chats[i])
                      /\ (chats'[i].typ = "single" /\ chats'[i].of = Me) = Saved(i)
  BY DEF Keeps, IsEncrypted, Saved
<1>3. \A i \in DOMAIN msgs : msgs[i].chat # Trash => msgs[i].chat \in Ids
  BY <1>1 DEF AssignInv, Filed, Trash
<1>4. Filed'
  BY <1>1 DEF AssignInv, Filed, Keeps
<1>5. NoPlainInEncrypted'
  BY <1>2, <1>3 DEF AssignInv, NoPlainInEncrypted, Saved
<1> QED BY <1>4, <1>5

LEMMA OneMessage ==
    ASSUME AssignInv, Keeps, NEW x \in Msg, x.chat \in 0..Len(chats'), msgs' = Append(msgs, x),
           x.chat # Trash => Open(x, chats'[x.chat])
    PROVE  Filed' /\ NoPlainInEncrypted'
<1> DEFINE n == Len(msgs)
<1>1. Len(chats) \in Nat /\ Ids = 1..Len(chats) /\ Len(chats') \in Nat
  BY LenProperties DEF AssignInv, Tabled, Keeps, Ids
<1>2. \A i \in Ids : /\ IsEncrypted(chats'[i]) = IsEncrypted(chats[i])
                      /\ (chats'[i].typ = "single" /\ chats'[i].of = Me) = Saved(i)
  BY DEF Keeps, IsEncrypted, Saved
<1>3. /\ msgs \in Seq(Msg) /\ n \in Nat /\ DOMAIN msgs = 1..n
      /\ \A i \in 1..n : msgs[i].chat \in 0..Len(chats)
  BY LenProperties DEF AssignInv, Filed
<1>4. /\ msgs' \in Seq(Msg) /\ DOMAIN msgs' = 1..(n + 1) /\ msgs'[n + 1] = x
      /\ \A i \in 1..n : msgs'[i] = msgs[i]
  BY <1>3, AppendProperties, LenProperties
<1>5. \A i \in 1..(n + 1) : i \in 1..n \/ i = n + 1
  BY <1>3
<1>6. Filed'
  <2>1. \A i \in 1..(n + 1) : msgs'[i].chat \in 0..Len(chats')
    BY <1>1, <1>3, <1>4, <1>5 DEF Keeps
  <2> QED BY <1>4, <2>1 DEF Filed
<1>7. ASSUME NEW i \in 1..n, msgs'[i].chat # Trash,
             ~(chats'[msgs'[i].chat].typ = "single" /\ chats'[msgs'[i].chat].of = Me),
             IsEncrypted(chats'[msgs'[i].chat])
      PROVE  msgs'[i].enc
  <2>1. msgs[i].chat \in Ids
    BY <1>1, <1>3, <1>4, <1>7 DEF Trash
  <2> QED BY <1>2, <1>3, <1>4, <1>7, <2>1 DEF AssignInv, NoPlainInEncrypted
<1>8. x.chat # Trash /\ ~(chats'[x.chat].typ = "single" /\ chats'[x.chat].of = Me)
      /\ IsEncrypted(chats'[x.chat]) => x.enc
  BY DEF Open
<1>9. NoPlainInEncrypted'
  BY <1>4, <1>5, <1>7, <1>8 DEF NoPlainInEncrypted, Saved
<1> QED BY <1>6, <1>9

LEMMA ReceiveStep ==
    ASSUME AssignInv, NEW m \in Mails, NEW parent \in 0..Len(msgs), NEW noticed \in BOOLEAN,
           receive_imf(m, parent, noticed)
    PROVE  AssignInv'
<1> USE DEF AssignInv
<1>1. MailOK(m)
  BY MailsOK
<1>2. PICK x \in IF Incoming(m) THEN AssignIncoming(m, parent) ELSE AssignOutgoing(m, parent) :
         LET r == Placed(m, x)
             id == CHOOSE i \in r.id : TRUE
         IN  /\ Len(r.chats) <= MaxChats
             /\ chats' = r.chats
             /\ msgs' = Append(msgs, [chat |-> id, enc |-> m.enc, out |-> ~Incoming(m),
                                      shown |-> ~noticed /\ r.blocked # "Yes", read |-> noticed,
                                      received |-> TRUE])
             /\ welcomed' = IF Vouched(m) THEN welcomed \cup ({id} \ {Trash}) ELSE welcomed
  BY Zenon DEF receive_imf, Vouched
<1> DEFINE r == Placed(m, x)
           id == CHOOSE i \in r.id : TRUE
           y == [chat |-> id, enc |-> m.enc, out |-> ~Incoming(m),
                 shown |-> ~noticed /\ r.blocked # "Yes", read |-> noticed, received |-> TRUE]
<1>3. Grown(m, x)
  BY <1>1, IncomingGrown, OutgoingGrown
<1>4. Grown(m, r) /\ r.id # {}
  BY <1>1, <1>3, PlacedGrown
<1>5. /\ Len(r.chats) <= MaxChats /\ chats' = r.chats /\ msgs' = Append(msgs, y)
      /\ welcomed' = IF Vouched(m) THEN welcomed \cup ({id} \ {Trash}) ELSE welcomed
  BY <1>2
<1> HIDE DEF r
<1>6. r.id = {id} /\ id \in 0..Len(r.chats)
  BY <1>4 DEF Grown, Found
<1> HIDE DEF id
<1>7. Keeps
  BY <1>4, <1>5 DEF Grown, Result, Extended, Keeps, Tabled
<1>8. Len(chats) \in Nat /\ Ids = 1..Len(chats) /\ Len(chats') \in Nat /\ Ids' = 1..Len(chats')
  BY <1>7, LenProperties DEF Tabled, Keeps, Ids
<1>9. y \in Msg /\ y.chat = id /\ y.enc = m.enc
  BY <1>1, <1>5, <1>6, <1>8 DEF Msg, MailOK
<1>10. id # Trash => Open(y, chats'[id])
  BY <1>4, <1>5, <1>6, <1>9 DEF Grown, Fits, Open
<1> HIDE DEF y
<1>11. Filed' /\ NoPlainInEncrypted'
  BY <1>5, <1>6, <1>7, <1>9, <1>10, OneMessage
<1>12. Sets'
  BY <1>5, <1>6, <1>7, <1>8 DEF Sets, Keeps, Trash, receive_imf
<1>13. OnlyWelcome'
  <2>1. ~Bot => \A i \in 1..Len(r.chats) : r.chats[i].blocked = "Not" /\ r.chats[i].typ # "in"
                                            => i \in welcomed \/ (Vouched(m) /\ i \in r.id)
    BY <1>4 DEF Grown, Welcome
  <2> QED BY <2>1, <1>5, <1>6, <1>8 DEF OnlyWelcome, Trash
<1> QED BY <1>5, <1>7, <1>11, <1>12, <1>13 DEF Keeps

(* The user's operations set the blocking of chats, add one or delete one.    *)
LEMMA SetBlockedKeeps ==
    ASSUME AssignInv, NEW ids, NEW b \in Blocking, chats' = SetBlocked(ids, b)
    PROVE  /\ Keeps /\ Len(chats') = Len(chats) /\ Ids' = Ids
           /\ \A i \in Ids : chats'[i].blocked = IF i \in ids THEN b ELSE chats[i].blocked
<1> DEFINE n == Len(chats)
<1>1. n \in Nat /\ Ids = 1..n /\ DOMAIN chats = 1..n /\ \A i \in 1..n : chats[i] \in Chat
  BY LenProperties DEF AssignInv, Tabled, Ids
<1>2. \A c \in Chat : /\ [c EXCEPT !.blocked = b] \in Chat
                       /\ [c EXCEPT !.blocked = b].typ = c.typ
                       /\ [c EXCEPT !.blocked = b].of = c.of
                       /\ [c EXCEPT !.blocked = b].blocked = b
  BY DEF Chat
<1>3. chats' \in [1..n -> Chat]
  BY <1>1, <1>2 DEF SetBlocked
<1>4. chats' \in Seq(Chat) /\ Len(chats') = n
  BY <1>1, <1>3, FunctionIsSeq
<1>5. \A i \in Ids : /\ chats'[i].typ = chats[i].typ /\ chats'[i].of = chats[i].of
                      /\ chats'[i].blocked = IF i \in ids THEN b ELSE chats[i].blocked
  BY <1>1, <1>2 DEF SetBlocked
<1> QED BY <1>1, <1>3, <1>4, <1>5 DEF Keeps, Tabled, Ids

LEMMA BlockingStep ==
    ASSUME AssignInv, NEW ids, NEW b \in Blocking, chats' = SetBlocked(ids, b), UNCHANGED msgs,
           banned' \subseteq Contacts, welcomed \subseteq welcomed', welcomed' \subseteq Ids,
           b = "Not" => ids \cap Ids \subseteq welcomed'
    PROVE  AssignInv'
<1>1. /\ Keeps /\ Len(chats') = Len(chats) /\ Ids' = Ids
      /\ \A i \in Ids : chats'[i].blocked = IF i \in ids THEN b ELSE chats[i].blocked
  BY SetBlockedKeeps
<1>2. Filed' /\ NoPlainInEncrypted'
  BY <1>1, SameMessages
<1>3. OnlyWelcome'
  <2> SUFFICES ASSUME ~Bot, NEW i \in Ids, chats'[i].blocked = "Not", chats'[i].typ # "in"
               PROVE  i \in welcomed'
    BY <1>1 DEF OnlyWelcome
  <2>1. chats[i].typ # "in"
    BY <1>1 DEF Keeps
  <2>2. CASE i \in ids
    BY <1>1, <2>2
  <2>3. CASE i \notin ids
    BY <1>1, <2>1, <2>3 DEF AssignInv, OnlyWelcome
  <2> QED BY <2>2, <2>3
<1> QED BY <1>1, <1>2, <1>3 DEF AssignInv, Keeps, Sets

LEMMA AddedStep ==
    ASSUME AssignInv, NEW c \in Chat, chats' = Append(chats, c), Len(chats) < MaxChats,
           UNCHANGED msgs, banned' \subseteq Contacts, welcomed \subseteq welcomed',
           welcomed' \subseteq welcomed \cup {Len(chats) + 1},
           c.blocked = "Not" => Len(chats) + 1 \in welcomed'
    PROVE  AssignInv'
<1> DEFINE n == Len(chats)
<1>1. n \in Nat /\ Ids = 1..n
  BY LenProperties DEF AssignInv, Tabled, Ids
<1>2. /\ chats' \in Seq(Chat) /\ Len(chats') = n + 1 /\ Ids' = 1..(n + 1) /\ chats'[n + 1] = c
      /\ \A i \in 1..n : chats'[i] = chats[i]
  BY AppendProperties, LenProperties DEF AssignInv, Tabled, Ids
<1>3. Keeps
  BY <1>1, <1>2 DEF Keeps, Tabled
<1>4. Filed' /\ NoPlainInEncrypted'
  BY <1>3, SameMessages
<1>5. \A i \in 1..(n + 1) : i \in 1..n \/ i = n + 1
  BY <1>1
<1>6. OnlyWelcome'
  BY <1>1, <1>2, <1>5 DEF AssignInv, OnlyWelcome
<1>7. Len(chats') <= MaxChats
  BY <1>1, <1>2, NamesAssumption
<1>8. Sets'
  <2>1. welcomed \subseteq 1..n
    BY <1>1 DEF AssignInv, Sets
  <2>2. welcomed' \subseteq 1..(n + 1)
    BY <1>1, <2>1
  <2> QED BY <1>2, <2>2 DEF Sets
<1> QED BY <1>3, <1>4, <1>6, <1>7, <1>8 DEF AssignInv, Keeps

LEMMA DeleteStep ==
    ASSUME AssignInv, NEW id \in Ids, chats' = Deleted(id), msgs' = MovedToTrash(id),
           welcomed' = welcomed \ {id}, UNCHANGED banned
    PROVE  AssignInv'
<1> DEFINE c == [typ |-> "deleted", of |-> Nothing, members |-> {}, blocked |-> "Yes"]
           n == Len(msgs)
<1>1. Len(chats) \in Nat /\ Ids = 1..Len(chats)
  BY LenProperties DEF AssignInv, Tabled, Ids
<1>2. c \in Chat
  BY DEF Chat, Types, Blocking
<1>3. /\ chats' \in Seq(Chat) /\ Len(chats') = Len(chats) /\ Ids' = Ids
      /\ \A i \in Ids : chats'[i] = IF i = id THEN c ELSE chats[i]
  BY <1>1, <1>2, ExceptSeq, LenProperties DEF AssignInv, Tabled, Deleted, Ids
<1>4. /\ n \in Nat /\ DOMAIN msgs = 1..n
      /\ \A i \in 1..n : msgs[i] \in Msg /\ msgs[i].chat \in 0..Len(chats)
  BY LenProperties DEF AssignInv, Filed
<1>5. \A x \in Msg : /\ [x EXCEPT !.chat = Trash] \in Msg
                      /\ [x EXCEPT !.chat = Trash].chat = Trash
  BY DEF Msg, Trash
<1>6. msgs' \in [1..n -> Msg]
  BY <1>4, <1>5 DEF MovedToTrash
<1>7. msgs' \in Seq(Msg) /\ DOMAIN msgs' = 1..n
  BY <1>4, <1>6, FunctionIsSeq
<1>8. \A i \in 1..n : IF msgs[i].chat = id THEN msgs'[i].chat = Trash ELSE msgs'[i] = msgs[i]
  BY <1>4, <1>5 DEF MovedToTrash
<1>9. Filed'
  <2>1. \A i \in 1..n : msgs'[i].chat \in 0..Len(chats)
    BY <1>1, <1>4, <1>8 DEF Trash
  <2> QED BY <1>3, <1>7, <2>1 DEF Filed
<1>10. NoPlainInEncrypted'
  <2> SUFFICES ASSUME NEW i \in 1..n, msgs'[i].chat # Trash,
                      ~(chats'[msgs'[i].chat].typ = "single" /\ chats'[msgs'[i].chat].of = Me),
                      IsEncrypted(chats'[msgs'[i].chat])
               PROVE  msgs'[i].enc
    BY <1>7 DEF NoPlainInEncrypted, Saved
  <2>1. msgs'[i] = msgs[i] /\ msgs[i].chat \in Ids /\ msgs[i].chat # id
    BY <1>1, <1>4, <1>8 DEF Trash
  <2>2. chats'[msgs[i].chat] = chats[msgs[i].chat]
    BY <1>3, <2>1
  <2> QED BY <1>4, <2>1, <2>2 DEF AssignInv, NoPlainInEncrypted, Saved
<1>11. OnlyWelcome'
  BY <1>3 DEF AssignInv, OnlyWelcome
<1> QED BY <1>3, <1>9, <1>10, <1>11 DEF AssignInv, Tabled, Sets

LEMMA BlockContactStep ==
    ASSUME AssignInv, NEW c \in Contacts, BlockContact(c)
    PROVE  AssignInv'
BY BlockingStep DEF BlockContact, Blocking, AssignInv, Sets

LEMMA AssignStep ==
    ASSUME AssignInv, [Next]_vars
    PROVE  AssignInv'
<1>1. ASSUME NEW m \in Mails, NEW parent \in 0..Len(msgs), NEW noticed \in BOOLEAN,
             receive_imf(m, parent, noticed)
      PROVE  AssignInv'
  BY <1>1, ReceiveStep
<1>2. ASSUME NEW id \in Ids, send_msg(id)
      PROVE  AssignInv'
  <2> DEFINE x == [chat |-> id, enc |-> IsEncrypted(chats[id]), out |-> TRUE,
                   shown |-> FALSE, read |-> TRUE, received |-> FALSE]
  <2>1. Len(chats) \in Nat /\ Ids = 1..Len(chats)
    BY LenProperties DEF AssignInv, Tabled, Ids
  <2>2. IsEncrypted(chats[id]) \in BOOLEAN
    BY DEF IsEncrypted
  <2>3. x \in Msg /\ x.chat = id /\ Open(x, chats[id])
    BY <2>1, <2>2 DEF Msg, Open
  <2>4. Keeps /\ UNCHANGED <<chats, banned, welcomed>> /\ msgs' = Append(msgs, x)
    BY <1>2, <2>1 DEF send_msg, Keeps, AssignInv, Tabled
  <2> HIDE DEF x
  <2>5. Filed' /\ NoPlainInEncrypted'
    BY <2>1, <2>3, <2>4, OneMessage
  <2> QED BY <2>4, <2>5 DEF AssignInv, Keeps, Sets, OnlyWelcome, Ids
<1>3. ASSUME NEW id \in Ids, accept(id)
      PROVE  AssignInv'
  BY <1>3, BlockingStep DEF accept, Blocking, AssignInv, Sets
<1>4. ASSUME NEW id \in Ids, delete(id)
      PROVE  AssignInv'
  BY <1>4, DeleteStep DEF delete
<1>5. ASSUME NEW id \in Ids, block(id)
      PROVE  AssignInv'
  <2>1. CASE chats[id].typ = "single" /\ chats[id].of # Me /\ BlockContact(chats[id].of)
    <3>1. chats[id] \in Chat
      BY LenProperties DEF AssignInv, Tabled, Ids
    <3>2. chats[id].of \in Contacts
      BY <2>1, <3>1 DEF Chat, Contact
    <3> QED BY <2>1, <3>2, BlockContactStep
  <2>2. CASE chats' = SetBlocked({id}, "Yes") /\ UNCHANGED <<banned, msgs, welcomed>>
    BY <2>2, BlockingStep DEF Blocking, AssignInv, Sets
  <2>3. CASE chats' = Deleted(id) /\ msgs' = MovedToTrash(id) /\ welcomed' = welcomed \ {id}
             /\ UNCHANGED banned
    BY <2>3, DeleteStep
  <2> QED BY <1>5, <2>1, <2>2, <2>3 DEF block
<1>6. ASSUME NEW c \in Contacts, block_contact(c)
      PROVE  AssignInv'
  BY <1>6, BlockContactStep DEF block_contact
<1>7. ASSUME NEW c \in Contacts, unblock_contact(c)
      PROVE  AssignInv'
  <2>1. OfContact(c) \subseteq Ids
    BY DEF OfContact
  <2> QED BY <1>7, <2>1, BlockingStep DEF unblock_contact, Blocking, AssignInv, Sets
<1>8. ASSUME NEW c \in Contacts, NEW b \in {"Not", "Yes"}, create_for_contact(c, b)
      PROVE  AssignInv'
  <2>1. OfContact(c) \subseteq Ids /\ b \in Blocking
    BY DEF OfContact, Blocking
  <2>2. CASE OfContact(c) # {} /\ b = "Not"
    BY <1>8, <2>1, <2>2, BlockingStep DEF create_for_contact, AssignInv, Sets
  <2>3. CASE OfContact(c) # {} /\ b # "Not"
    <3>1. UNCHANGED <<chats, banned, msgs, welcomed>>
      BY <1>8, <2>3 DEF create_for_contact
    <3> QED BY <3>1 DEF AssignInv, Tabled, Filed, Sets, NoPlainInEncrypted, OnlyWelcome, Ids, Saved
  <2>4. CASE OfContact(c) = {}
    <3>1. [typ |-> "single", of |-> c, members |-> {c}, blocked |-> b] \in Chat
      BY <2>1 DEF Chat, Types, Contact
    <3> QED BY <1>8, <2>4, <3>1, AddedStep DEF create_for_contact, AssignInv, Sets
  <2> QED BY <2>2, <2>3, <2>4
<1>9. ASSUME NEW typ \in {"group", "out"}, NEW g, typ = "group" => g \in Groups,
             typ = "out" => g \in Channels, create_multiuser(typ, g)
      PROVE  AssignInv'
  <2>1. [typ |-> typ, of |-> g, members |-> {Me}, blocked |-> "Not"] \in Chat
    BY <1>9 DEF Chat, Types, Contact, Blocking
  <2> QED BY <1>9, <2>1, AddedStep DEF create_multiuser, AssignInv, Sets
<1>10. CASE UNCHANGED vars
  BY <1>10 DEF vars, AssignInv, Tabled, Filed, Sets, NoPlainInEncrypted, OnlyWelcome, Ids, Saved
<1>11. \A p \in People : Key(p) \in Contacts
  BY DEF Contacts
<1> QED BY <1>1, <1>2, <1>3, <1>4, <1>5, <1>6, <1>7, <1>8, <1>9, <1>10, <1>11 DEF Next

LEMMA AssignInit == ASSUME Init PROVE AssignInv
<1>1. chats = <<>> /\ msgs = <<>> /\ banned = {} /\ welcomed = {} /\ Len(chats) = 0
      /\ chats \in Seq(Chat) /\ msgs \in Seq(Msg) /\ DOMAIN chats = {} /\ DOMAIN msgs = {}
  BY EmptySeq DEF Init
<1> QED BY <1>1, NamesAssumption
        DEF AssignInv, Tabled, Filed, Sets, NoPlainInEncrypted, OnlyWelcome, Ids

LEMMA AssignInvariant == Spec => []AssignInv
<1>1. Init => AssignInv
  BY AssignInit
<1>2. AssignInv /\ [Next]_vars => AssignInv'
  BY AssignStep
<1> QED BY <1>1, <1>2, PTL DEF Spec

(* The rows of chats and msgs keep their types, messages are filed in chats   *)
(* that exist or in the trash, whatever mails arrive and whatever the user    *)
(* does with his chats in between.                                            *)
THEOREM AssignmentTypes == Spec => []TypeOK
<1>1. AssignInv => TypeOK
  <2> SUFFICES ASSUME AssignInv PROVE TypeOK
    OBVIOUS
  <2>1. Len(chats) \in Nat /\ Ids = 1..Len(chats) /\ \A i \in Ids : chats[i] \in Chat
    BY LenProperties DEF AssignInv, Tabled, Ids
  <2>2. \A i \in Ids : chats[i].typ \in Types /\ chats[i].blocked \in Blocking
    BY <2>1 DEF Chat
  <2>3. \A i \in DOMAIN msgs : msgs[i].chat \in Ids \cup {Trash}
    BY <2>1 DEF AssignInv, Filed, Trash
  <2> QED BY <2>2, <2>3 DEF AssignInv, Sets, TypeOK
<1> QED BY <1>1, AssignInvariant, PTL

(* A mail that was not encrypted shows up in no encrypted chat (but Saved     *)
(* Messages), for any number of people, groups, lists and channels, any       *)
(* sequence of mails, answers to whatever message and operations of the user. *)
THEOREM PlainStaysOutside == Spec => []NoPlainInEncrypted
<1>1. AssignInv => NoPlainInEncrypted
  BY DEF AssignInv
<1> QED BY <1>1, AssignInvariant, PTL

(* Only the user opens the door, himself or by accepting the chat of who      *)
(* writes: for the same sequences of mails and operations.                    *)
THEOREM OnlyWelcomeEnters == Spec => []OnlyWelcome
<1>1. AssignInv => OnlyWelcome
  BY DEF AssignInv
<1> QED BY <1>1, AssignInvariant, PTL

-----------------------------------------------------------------------------
(* A message that comes in parts. *)

Whole == <<"whole", 0>>
Pre == <<"pre", 0>>
Post == <<"post", 0>>
MsgRows == [id : Nat \ {0}, shown : BOOLEAN, text : Nat, file : BOOLEAN, pre : BOOLEAN, ts : Nat]
BubbleTypes ==
    /\ rows \subseteq MsgRows /\ \E n \in Nat : \A r \in rows : r.id <= n
    /\ today \in Nat /\ Updates!Start <= today /\ request \in Nat
    /\ split \in BOOLEAN /\ deleted \in BOOLEAN /\ posted \in BOOLEAN
    /\ copies \in [Updates!Mails -> Nat]

(* It arrives in one part or in two. *)
OneOrTwo == IF split THEN copies[Whole] = 0 ELSE copies[Pre] = 0 /\ copies[Post] = 0

(* The row in the chat is older than all others with the Message-ID, and      *)
(* lacks its attachment only if it comes from a pre-message.                  *)
ShownFirst ==
    /\ \A r \in rows : r.shown => r.ts = Updates!Start /\ (r.file \/ (r.pre /\ split))
    /\ \A r, s \in rows : r.shown /\ s # r => r.id < s.id

(* Until it is deleted the message is in the chat, as whole as it has arrived. *)
NotLost ==
    ~deleted /\ request = 0 =>
           /\ posted \/ rows # {} => \E r \in rows : r.shown
           /\ posted => \A r \in rows : r.shown => r.file

(* What was deleted leaves a row that is as old as the message. *)
Remembered ==
    deleted /\ today < Updates!Start + Keep =>
           (\A r \in rows : ~r.shown) /\ \E r \in rows : r.ts = Updates!Start

BubbleInv == BubbleTypes /\ OneOrTwo /\ ShownFirst /\ NotLost /\ Remembered

(* A set of numbers has a least one. *)
LEMMA Least == ASSUME NEW S \in SUBSET Nat, S # {} PROVE \E n \in S : \A k \in S : n <= k
<1> DEFINE R == OpToRel(<, Nat)
<1>1. IsWellFoundedOn(R, Nat) BY NatLessThanWellFounded
<1>2. \A a, b \in Nat : <<a, b>> \in R <=> a < b BY DEF OpToRel
<1> HIDE DEF R
<1>3. PICK n \in S : \A k \in S : ~ (<<k, n>> \in R) BY <1>1, WFMin
<1>4. ASSUME NEW k \in S PROVE n <= k
  <2>1. n \in Nat /\ k \in Nat OBVIOUS
  <2>2. ~ (k < n) BY <1>2, <1>3, <2>1
  <2> QED BY <2>1, <2>2
<1> QED BY <1>4

LEMMA MailNames ==
    /\ Whole \in Updates!Mails /\ Pre \in Updates!Mails /\ Post \in Updates!Mails
    /\ Whole # Pre /\ Whole # Post /\ Pre # Post
BY DEF Whole, Pre, Post, Updates!Mails, Updates!Parts

LEMMA BubbleInit == ASSUME Arrival PROVE Updates!Init => BubbleInv
<1> SUFFICES ASSUME Updates!Init PROVE BubbleInv OBVIOUS
<1> USE DEF Arrival, Updates!Init
<1>1. copies \in [Updates!Mails -> Nat] OBVIOUS
<1>2. OneOrTwo BY MailNames DEF OneOrTwo, Whole, Pre, Post, Updates!Parts
<1>3. BubbleTypes
  <2>1. split \in BOOLEAN OBVIOUS
  <2>2. rows = {} /\ deleted = FALSE /\ posted = FALSE /\ request = 0 /\ today = Updates!Start OBVIOUS
  <2>3. today \in Nat /\ Updates!Start <= today BY DEF Updates!Start
  <2>4. 0 \in Nat /\ \A r \in rows : r.id <= 0 BY <2>2
  <2> HIDE DEF Arrival, Updates!Init
  <2> QED BY <1>1, <2>1, <2>2, <2>3, <2>4 DEF BubbleTypes
<1>4. ShownFirst /\ NotLost /\ Remembered BY DEF ShownFirst, NotLost, Remembered
<1> QED BY <1>2, <1>3, <1>4 DEF BubbleInv

LEMMA OldestRow ==
    ASSUME BubbleTypes, rows # {}
    PROVE  Updates!Oldest \in rows /\ \A s \in rows : Updates!Oldest.id <= s.id
<1>1. PICK S : S = {r.id : r \in rows} OBVIOUS
<1>2. S \in SUBSET Nat /\ S # {} BY <1>1 DEF BubbleTypes, MsgRows
<1>3. PICK n \in S : \A k \in S : n <= k BY <1>2, Least
<1>4. PICK r \in rows : r.id = n BY <1>1
<1>5. \A s \in rows : r.id <= s.id BY <1>1, <1>3, <1>4
<1> QED BY <1>5 DEF Updates!Oldest

(* A new row is younger than those that are there. *)
LEMMA NewRow ==
    ASSUME BubbleTypes
    PROVE  Updates!NewId \in Nat \ {0} /\ \A r \in rows : r.id < Updates!NewId
<1>1. CASE rows = {} BY <1>1 DEF Updates!NewId
<1>2. CASE rows # {}
  <2>1. PICK B : B = {b \in Nat : \A r \in rows : r.id <= b} OBVIOUS
  <2>2. B \in SUBSET Nat /\ B # {} BY <2>1 DEF BubbleTypes
  <2>3. PICK b \in B : \A k \in B : b <= k BY <2>2, Least
  <2>4. b \in Nat /\ \A r \in rows : r.id <= b BY <2>1, <2>3
  <2>5. \A r \in rows : r.id \in Nat \ {0} BY DEF BubbleTypes, MsgRows
  <2>6. \E r \in rows : r.id = b
    <3> SUFFICES ASSUME \A r \in rows : r.id # b PROVE FALSE OBVIOUS
    <3>1. \A r \in rows : r.id <= b - 1 BY <2>4, <2>5
    <3>2. b # 0 BY <1>2, <2>4, <2>5
    <3>3. b - 1 \in B BY <2>1, <2>4, <3>1, <3>2
    <3> QED BY <2>3, <2>4, <3>3
  <2>7. PICK S : S = {r.id : r \in rows} OBVIOUS
  <2>8. PICK c : c = CHOOSE n \in S : \A r \in rows : r.id <= n OBVIOUS
  <2>9. c \in S /\ \A r \in rows : r.id <= c BY <2>4, <2>6, <2>7, <2>8
  <2>10. Updates!NewId = 1 + c BY <1>2, <2>7, <2>8 DEF Updates!NewId
  <2> QED BY <2>5, <2>7, <2>9, <2>10
<1> QED BY <1>1, <1>2

(* The row of the message is updated, and rows that are hidden are added. *)
LEMMA UpdateOK ==
    ASSUME BubbleInv, OneOrTwo', NEW o \in rows, NEW p \in MsgRows, NEW H \in SUBSET MsgRows,
           \A r \in rows : o.id <= r.id,
           p.id = o.id, p.ts = o.ts, p.shown = o.shown, o.file => p.file, o.pre => p.pre,
           \A h \in H : ~h.shown /\ \A r \in rows : r.id < h.id,
           \A h, k \in H : h = k,
           rows' = (rows \ {o}) \cup {p} \cup H,
           UNCHANGED <<today, split, request, deleted>>, copies' \in [Updates!Mails -> Nat],
           posted' = posted \/ (posted' = TRUE /\ (o.shown => p.file))
    PROVE  BubbleInv'
<1>0. rows \subseteq MsgRows BY DEF BubbleInv, BubbleTypes
<1>1. BubbleTypes'
  <2>1. \E n \in Nat : \A r \in rows' : r.id <= n
    <3>1. PICK n \in Nat : \A r \in rows : r.id <= n BY DEF BubbleInv, BubbleTypes
    <3>2. CASE H = {} BY <3>1, <3>2
    <3>3. ASSUME NEW h \in H PROVE \E m \in Nat : \A r \in rows' : r.id <= m
      <4>1. h.id \in Nat /\ \A r \in rows' : r.id <= h.id BY <1>0, <3>3 DEF MsgRows
      <4> QED BY <4>1
    <3> QED BY <3>2, <3>3
  <2> QED BY <1>0, <2>1 DEF BubbleInv, BubbleTypes, Updates!Start
<1>2. ShownFirst'
  <2>1. ASSUME NEW r \in rows', r.shown PROVE r.ts = Updates!Start /\ (r.file \/ (r.pre /\ split))
    BY <1>0, <2>1 DEF BubbleInv, ShownFirst, MsgRows
  <2>2. ASSUME NEW r \in rows', NEW s \in rows', r.shown, s # r PROVE r.id < s.id
    BY <1>0, <2>2 DEF BubbleInv, ShownFirst, MsgRows
  <2> QED BY <2>1, <2>2 DEF ShownFirst, Updates!Start
<1>3. \A r \in rows : r.shown => r = o BY <1>0 DEF BubbleInv, ShownFirst, MsgRows
<1>4. NotLost'
  <2> SUFFICES ASSUME ~deleted, request = 0
               PROVE  /\ posted' \/ rows' # {} => \E r \in rows' : r.shown
                      /\ posted' => \A r \in rows' : r.shown => r.file
    BY DEF NotLost
  <2>1. o.shown BY <1>3 DEF BubbleInv, NotLost
  <2>2. p \in rows' /\ p.shown BY <2>1
  <2>3. \A r \in rows' : r.shown => r = p BY <1>3
  <2>4. posted' => p.file BY <2>1 DEF BubbleInv, NotLost
  <2> QED BY <2>2, <2>3, <2>4
<1>5. Remembered'
  <2> SUFFICES ASSUME deleted, today < Updates!Start + Keep
               PROVE  (\A r \in rows' : ~r.shown) /\ \E r \in rows' : r.ts = Updates!Start
    BY DEF Remembered, Updates!Start
  <2>1. \A r \in rows : ~r.shown BY DEF BubbleInv, Remembered
  <2>2. PICK r \in rows : r.ts = Updates!Start BY DEF BubbleInv, Remembered
  <2>3. r = o \/ r \in rows' OBVIOUS
  <2> QED BY <2>1, <2>2, <2>3
<1> QED BY <1>1, <1>2, <1>4, <1>5 DEF BubbleInv

(* The first row of the message. *)
LEMMA FirstRowOK ==
    ASSUME BubbleInv, OneOrTwo', rows = {}, NEW q \in MsgRows,
           q.shown, q.ts = Updates!Start, q.file \/ (q.pre /\ split),
           rows' = {q}, UNCHANGED <<today, split, request, deleted>>,
           copies' \in [Updates!Mails -> Nat],
           posted' = posted \/ (posted' = TRUE /\ q.file)
    PROVE  BubbleInv'
<1>1. BubbleTypes'
  <2>1. q.id \in Nat /\ \A r \in rows' : r.id <= q.id BY DEF MsgRows
  <2> QED BY <2>1 DEF BubbleInv, BubbleTypes, Updates!Start
<1>2. ShownFirst' BY DEF ShownFirst, Updates!Start
<1>3. NotLost' BY DEF BubbleInv, NotLost
<1>4. ~(deleted /\ today < Updates!Start + Keep) BY DEF BubbleInv, Remembered
<1>5. Remembered' BY <1>4 DEF Remembered, Updates!Start
<1> QED BY <1>1, <1>2, <1>3, <1>5 DEF BubbleInv

LEMMA ArrivesOK ==
    ASSUME BubbleInv, NEW m \in Updates!Mails, Updates!Arrives(m), split' = split
    PROVE  OneOrTwo' /\ copies' \in [Updates!Mails -> Nat] /\ copies[m] # 0
<1>1. copies \in [Updates!Mails -> Nat] BY DEF BubbleInv, BubbleTypes
<1>2. copies[m] \in Nat \ {0} /\ copies' = [copies EXCEPT ![m] = @ - 1] BY <1>1 DEF Updates!Arrives
<1>3. copies' \in [Updates!Mails -> Nat] BY <1>1, <1>2
<1>4. \A k \in Updates!Mails : copies[k] = 0 => copies'[k] = 0 BY <1>1, <1>2
<1> QED BY <1>2, <1>3, <1>4, MailNames DEF OneOrTwo, BubbleInv
LEMMA ReceiveWholeOK == ASSUME Arrival, BubbleInv, Updates!ReceiveWhole PROVE BubbleInv'
<1> USE DEF Updates!ReceiveWhole
<1>1. OneOrTwo' /\ copies' \in [Updates!Mails -> Nat] /\ copies[Whole] # 0
  BY ArrivesOK, MailNames DEF Whole
<1>2. ~split BY <1>1 DEF BubbleInv, OneOrTwo
<1>3. UNCHANGED <<today, split, request, deleted>> /\ posted' = TRUE OBVIOUS
<1>4. CASE rows # {}
  <2>1. PICK o : o = Updates!Oldest OBVIOUS
  <2>2. o \in rows /\ \A r \in rows : o.id <= r.id BY <1>4, <2>1, OldestRow DEF BubbleInv
  <2>3. o \in MsgRows /\ (o.shown => o.file) BY <1>2, <2>2 DEF BubbleInv, BubbleTypes, ShownFirst
  <2>4. PICK H : H = {} OBVIOUS
  <2>5. rows' = (rows \ {o}) \cup {o} \cup H BY <1>4, <2>2, <2>4
  <2> QED BY <1>1, <1>3, <2>2, <2>3, <2>4, <2>5, UpdateOK
<1>5. CASE rows = {}
  <2>1. PICK q : q = Updates!Row(Updates!NewId, TRUE, 0, TRUE, FALSE, Updates!Start) OBVIOUS
  <2>2. q \in MsgRows /\ q.shown /\ q.file /\ q.ts = Updates!Start
    BY <2>1, NewRow DEF Updates!Row, MsgRows, BubbleInv, Arrival, Updates!Start
  <2>3. rows' = {q} BY <1>5, <2>1
  <2> QED BY <1>1, <1>3, <1>5, <2>2, <2>3, FirstRowOK
<1> QED BY <1>4, <1>5

LEMMA ReceivePostOK == ASSUME Arrival, BubbleInv, Updates!ReceivePost PROVE BubbleInv'
<1> USE DEF Updates!ReceivePost
<1>1. OneOrTwo' /\ copies' \in [Updates!Mails -> Nat] BY ArrivesOK, MailNames DEF Post
<1>3. UNCHANGED <<today, split, request, deleted>> /\ posted' = TRUE OBVIOUS
<1>4. CASE rows # {}
  <2>1. PICK o : o = Updates!Oldest OBVIOUS
  <2>2. o \in rows /\ \A r \in rows : o.id <= r.id BY <1>4, <2>1, OldestRow DEF BubbleInv
  <2>3. o \in MsgRows BY <2>2 DEF BubbleInv, BubbleTypes
  <2>4. PICK h : h = Updates!Row(Updates!NewId, FALSE, 0, FALSE, FALSE, Updates!Start) OBVIOUS
  <2>5. h \in MsgRows /\ ~h.shown /\ \A r \in rows : r.id < h.id
    BY <2>4, NewRow DEF Updates!Row, MsgRows, BubbleInv, Arrival, Updates!Start
  <2>6. PICK p : p = IF o.shown THEN [o EXCEPT !.file = TRUE] ELSE o OBVIOUS
  <2>7. /\ p \in MsgRows /\ p.id = o.id /\ p.ts = o.ts /\ p.shown = o.shown
        /\ (o.file => p.file) /\ (o.pre => p.pre) /\ (o.shown => p.file)
    BY <2>3, <2>6 DEF MsgRows
  <2>8. rows' = (rows \ {o}) \cup {p} \cup {h}
    <3>1. rows' = (IF o.shown THEN (rows \ {o}) \cup {[o EXCEPT !.file = TRUE]} ELSE rows) \cup {h}
      BY <1>4, <2>1, <2>4 DEF Updates!Completed
    <3> QED BY <2>2, <2>6, <3>1
  <2>9. PICK H : H = {h} OBVIOUS
  <2>10. /\ H \in SUBSET MsgRows /\ \A k \in H : ~k.shown /\ \A r \in rows : r.id < k.id
         /\ \A k, l \in H : k = l
    BY <2>5, <2>9
  <2>11. rows' = (rows \ {o}) \cup {p} \cup H BY <2>8, <2>9
  <2> HIDE DEF Updates!ReceivePost
  <2> QED BY <1>1, <1>3, <2>2, <2>7, <2>10, <2>11, UpdateOK
<1>5. CASE rows = {}
  <2>1. PICK q : q = Updates!Row(Updates!NewId, TRUE, 0, TRUE, FALSE, Updates!Start) OBVIOUS
  <2>2. q \in MsgRows /\ q.shown /\ q.file /\ q.ts = Updates!Start
    BY <2>1, NewRow DEF Updates!Row, MsgRows, BubbleInv, Arrival, Updates!Start
  <2>3. rows' = {q} BY <1>5, <2>1
  <2> QED BY <1>1, <1>3, <1>5, <2>2, <2>3, FirstRowOK
<1> QED BY <1>4, <1>5

(* A pre-message that comes late, or again, is not shown. *)
LEMMA ReceivePreOK == ASSUME Arrival, BubbleInv, Updates!ReceivePre PROVE BubbleInv'
<1> USE DEF Updates!ReceivePre
<1>1. OneOrTwo' /\ copies' \in [Updates!Mails -> Nat] /\ copies[Pre] # 0
  BY ArrivesOK, MailNames DEF Pre
<1>2. split BY <1>1 DEF BubbleInv, OneOrTwo
<1>3. UNCHANGED <<today, split, request, deleted, posted>> OBVIOUS
<1>4. CASE rows # {}
  <2>1. PICK o : o = Updates!Oldest OBVIOUS
  <2>2. o \in rows /\ \A r \in rows : o.id <= r.id BY <1>4, <2>1, OldestRow DEF BubbleInv
  <2>3. o \in MsgRows BY <2>2 DEF BubbleInv, BubbleTypes
  <2>4. CASE \E r \in rows : r.pre
    <3>1. PICK H : H = {} OBVIOUS
    <3>2. rows' = (rows \ {o}) \cup {o} \cup H BY <2>2, <2>4, <3>1
    <3> HIDE DEF Updates!ReceivePre
    <3> QED BY <1>1, <1>3, <2>2, <2>3, <3>1, <3>2, UpdateOK
  <2>5. CASE ~ \E r \in rows : r.pre
    <3>1. Updates!PostMsgExists BY <1>4, <2>5 DEF Updates!PostMsgExists, BubbleInv, ShownFirst
    <3>2. PICK h : h = Updates!Row(Updates!NewId, FALSE, 0, FALSE, TRUE, Updates!Start) OBVIOUS
    <3>3. h \in MsgRows /\ ~h.shown /\ \A r \in rows : r.id < h.id
      BY <3>2, NewRow DEF Updates!Row, MsgRows, BubbleInv, Arrival, Updates!Start
    <3>4. PICK p : p = [o EXCEPT !.pre = TRUE] OBVIOUS
    <3>5. /\ p \in MsgRows /\ p.id = o.id /\ p.ts = o.ts /\ p.shown = o.shown
          /\ (o.file => p.file) /\ (o.pre => p.pre)
      BY <2>3, <3>4 DEF MsgRows
    <3>6. rows' = (rows \ {o}) \cup {p} \cup {h}
      <4>1. (~Updates!PostMsgExists) = FALSE BY <3>1
      <4> QED BY <1>4, <2>1, <2>5, <3>2, <3>4, <4>1
    <3>7. PICK H : H = {h} OBVIOUS
    <3>8. /\ H \in SUBSET MsgRows /\ \A k \in H : ~k.shown /\ \A r \in rows : r.id < k.id
          /\ \A k, l \in H : k = l
      BY <3>3, <3>7
    <3>9. rows' = (rows \ {o}) \cup {p} \cup H BY <3>6, <3>7
    <3> HIDE DEF Updates!ReceivePre
    <3> QED BY <1>1, <1>3, <2>2, <3>5, <3>8, <3>9, UpdateOK
  <2> QED BY <2>4, <2>5
<1>5. CASE rows = {}
  <2>1. PICK q : q = Updates!Row(Updates!NewId, TRUE, 0, FALSE, TRUE, Updates!Start) OBVIOUS
  <2>2. q \in MsgRows /\ q.shown /\ q.pre /\ q.ts = Updates!Start
    BY <2>1, NewRow DEF Updates!Row, MsgRows, BubbleInv, Arrival, Updates!Start
  <2>3. (~Updates!PostMsgExists) = TRUE BY <1>5 DEF Updates!PostMsgExists
  <2>4. rows' = {q} BY <1>5, <2>1, <2>3
  <2> QED BY <1>1, <1>2, <1>3, <1>5, <2>2, <2>4, FirstRowOK
<1> QED BY <1>4, <1>5

LEMMA ReceiveEditOK ==
    ASSUME Arrival, BubbleInv, NEW m \in Updates!EditMails, Updates!ReceiveEdit(m)
    PROVE  BubbleInv'
<1> USE DEF Updates!ReceiveEdit
<1>0. m \in Updates!Mails /\ m[2] \in Nat BY DEF Arrival, Updates!EditMails, Updates!Mails
<1>1. OneOrTwo' /\ copies' \in [Updates!Mails -> Nat] BY <1>0, ArrivesOK
<1>2. UNCHANGED <<today, split, request, deleted, posted>> OBVIOUS
<1>3. CASE rows = {}
  <2>1. rows' = rows BY <1>3
  <2> QED BY <1>1, <1>2, <2>1
        DEF BubbleInv, BubbleTypes, ShownFirst, NotLost, Remembered, Updates!Start
<1>4. CASE rows # {}
  <2>1. PICK o : o = Updates!Oldest OBVIOUS
  <2>2. o \in rows /\ \A r \in rows : o.id <= r.id BY <1>4, <2>1, OldestRow DEF BubbleInv
  <2>3. o \in MsgRows BY <2>2 DEF BubbleInv, BubbleTypes
  <2>4. PICK H : H = {} OBVIOUS
  <2>5. PICK p : p = [o EXCEPT !.text = m[2]] OBVIOUS
  <2>6. /\ p \in MsgRows /\ p.id = o.id /\ p.ts = o.ts /\ p.shown = o.shown
        /\ (o.file => p.file) /\ (o.pre => p.pre)
    BY <1>0, <2>3, <2>5 DEF MsgRows
  <2>7. rows' = (rows \ {o}) \cup {o} \cup H \/ rows' = (rows \ {o}) \cup {p} \cup H
    BY <2>1, <2>2, <2>4, <2>5
  <2> HIDE DEF Updates!ReceiveEdit
  <2>8. CASE rows' = (rows \ {o}) \cup {o} \cup H
    BY <1>1, <1>2, <2>2, <2>3, <2>4, <2>8, UpdateOK
  <2>9. CASE rows' = (rows \ {o}) \cup {p} \cup H
    BY <1>1, <1>2, <2>2, <2>4, <2>6, <2>9, UpdateOK
  <2> QED BY <2>7, <2>8, <2>9
<1> QED BY <1>3, <1>4

(* The message is trashed. *)
LEMMA TrashOK ==
    ASSUME Arrival, BubbleInv, OneOrTwo', NEW o \in rows, o.shown,
           rows' = (rows \ {o}) \cup {Updates!Trashed(o)},
           UNCHANGED <<today, split, posted>>, copies' \in [Updates!Mails -> Nat],
           request' \in Nat, deleted' = TRUE
    PROVE  BubbleInv'
<1>1. PICK p : p = Updates!Trashed(o) OBVIOUS
<1>2. rows \subseteq MsgRows /\ o \in MsgRows BY DEF BubbleInv, BubbleTypes
<1>3. p \in MsgRows /\ ~p.shown /\ p.id = o.id /\ p.ts = o.ts
  BY <1>1, <1>2 DEF Updates!Trashed, Updates!Row, MsgRows
<1>4. rows' = (rows \ {o}) \cup {p} BY <1>1
<1>5. \A r \in rows' : ~r.shown
  <2>1. \A r \in rows : r.shown => r = o BY <1>2 DEF BubbleInv, ShownFirst, MsgRows
  <2> QED BY <1>3, <1>4, <2>1
<1>6. BubbleTypes' BY <1>2, <1>3, <1>4 DEF BubbleInv, BubbleTypes, Updates!Start
<1>7. ShownFirst' BY <1>5 DEF ShownFirst
<1>8. NotLost' BY DEF NotLost
<1>9. p.ts = Updates!Start BY <1>3 DEF BubbleInv, ShownFirst
<1>10. Remembered' BY <1>4, <1>5, <1>9 DEF Remembered, Updates!Start
<1> QED BY <1>6, <1>7, <1>8, <1>10 DEF BubbleInv

LEMMA ReceiveDeleteOK == ASSUME Arrival, BubbleInv, Updates!ReceiveDelete PROVE BubbleInv'
<1> USE DEF Updates!ReceiveDelete
<1>0. Updates!Delete \in Updates!Mails BY DEF Updates!Mails
<1>1. OneOrTwo' /\ copies' \in [Updates!Mails -> Nat] BY <1>0, ArrivesOK
<1>2. UNCHANGED <<today, split, posted>> OBVIOUS
<1>3. request' \in Nat /\ request' # 0 BY DEF BubbleInv, BubbleTypes, Updates!Start, Arrival
<1>4. deleted' = (deleted \/ (Updates!Shown # {} /\ Updates!Shown' = {})) OBVIOUS
<1>5. CASE rows' = rows
  <2>1. deleted' = deleted
    <3>1. Updates!Shown' = Updates!Shown BY <1>5 DEF Updates!Shown
    <3>2. deleted \in BOOLEAN BY DEF BubbleInv, BubbleTypes
    <3> QED BY <1>4, <3>1, <3>2
  <2> HIDE DEF Updates!ReceiveDelete
  <2> QED BY <1>1, <1>2, <1>3, <1>5, <2>1
        DEF BubbleInv, BubbleTypes, ShownFirst, NotLost, Remembered, Updates!Start
<1>6. CASE rows = {} /\ rows' = {Updates!Tombstone}
  <2>1. PICK q : q = Updates!Tombstone OBVIOUS
  <2>2. q \in MsgRows /\ ~q.shown
    BY <2>1, NewRow DEF Updates!Tombstone, Updates!Row, MsgRows, BubbleInv
  <2>3. rows' = {q} BY <1>6, <2>1
  <2>4. deleted' = deleted
    <3>1. Updates!Shown = {} BY <1>6 DEF Updates!Shown
    <3>2. deleted \in BOOLEAN BY DEF BubbleInv, BubbleTypes
    <3> QED BY <1>4, <3>1, <3>2
  <2> HIDE DEF Updates!ReceiveDelete
  <2>5. BubbleTypes'
    <3>1. q.id \in Nat /\ \A r \in rows' : r.id <= q.id BY <2>2, <2>3 DEF MsgRows
    <3> QED BY <1>1, <1>2, <1>3, <2>2, <2>3, <2>4, <3>1 DEF BubbleInv, BubbleTypes, Updates!Start
  <2>6. ShownFirst' /\ NotLost' BY <1>3, <2>2, <2>3 DEF ShownFirst, NotLost
  <2>7. ~(deleted /\ today < Updates!Start + Keep) BY <1>6 DEF BubbleInv, Remembered
  <2>8. Remembered' BY <1>2, <2>4, <2>7 DEF Remembered, Updates!Start
  <2> QED BY <1>1, <2>5, <2>6, <2>8 DEF BubbleInv
<1>7. CASE /\ rows # {} /\ Updates!Oldest.shown
           /\ rows' = (rows \ {Updates!Oldest}) \cup {Updates!Trashed(Updates!Oldest)}
  <2>1. PICK o : o = Updates!Oldest OBVIOUS
  <2>2. o \in rows /\ o.shown BY <1>7, <2>1, OldestRow DEF BubbleInv
  <2>3. rows' = (rows \ {o}) \cup {Updates!Trashed(o)} BY <1>7, <2>1
  <2>4. rows \subseteq MsgRows BY DEF BubbleInv, BubbleTypes
  <2>5. \A r \in rows : r.shown => r = o BY <2>2, <2>4 DEF BubbleInv, ShownFirst, MsgRows
  <2>6. ~Updates!Trashed(o).shown BY DEF Updates!Trashed, Updates!Row
  <2>7. Updates!Shown # {} BY <2>2 DEF Updates!Shown
  <2>8. Updates!Shown' = {} BY <2>3, <2>5, <2>6 DEF Updates!Shown
  <2>9. deleted' = TRUE BY <1>4, <2>7, <2>8
  <2> HIDE DEF Updates!ReceiveDelete
  <2> QED BY <1>1, <1>2, <1>3, <2>2, <2>3, <2>9, TrashOK
<1>8. \/ rows' = rows
      \/ rows = {} /\ rows' = {Updates!Tombstone}
      \/ /\ rows # {} /\ Updates!Oldest.shown
         /\ rows' = (rows \ {Updates!Oldest}) \cup {Updates!Trashed(Updates!Oldest)}
  OBVIOUS
<1> QED BY <1>5, <1>6, <1>7, <1>8

LEMMA delete_msgsOK == ASSUME Arrival, BubbleInv, Updates!delete_msgs PROVE BubbleInv'
<1>1. PICK r \in rows : r.shown /\ rows' = (rows \ {r}) \cup {Updates!Trashed(r)}
  BY DEF Updates!delete_msgs, Updates!Shown
<1>2. UNCHANGED <<today, split, posted, copies, request>> /\ deleted' = TRUE BY DEF Updates!delete_msgs
<1>3. OneOrTwo' BY <1>2 DEF BubbleInv, OneOrTwo
<1>4. copies' \in [Updates!Mails -> Nat] /\ request' \in Nat BY <1>2 DEF BubbleInv, BubbleTypes
<1> QED BY <1>1, <1>2, <1>3, <1>4, TrashOK

(* Pruning leaves the message, and what is as old as the message as long as   *)
(* it counts.                                                                 *)
LEMMA housekeepingOK == ASSUME Arrival, BubbleInv, Updates!housekeeping PROVE BubbleInv'
<1>1. /\ rows' = rows \ Updates!Pruned
      /\ UNCHANGED <<today, split, posted, copies, request, deleted>>
  BY DEF Updates!housekeeping
<1>2. \A r \in rows : r.shown => r \in rows' BY <1>1 DEF Updates!Pruned
<1>3. rows' \subseteq rows BY <1>1
<1>4. BubbleTypes'
  <2>1. PICK n \in Nat : \A r \in rows : r.id <= n BY DEF BubbleInv, BubbleTypes
  <2>2. \A r \in rows' : r.id <= n BY <1>3, <2>1
  <2> QED BY <1>1, <1>3, <2>2 DEF BubbleInv, BubbleTypes, Updates!Start
<1>5. OneOrTwo' BY <1>1 DEF BubbleInv, OneOrTwo
<1>6. ShownFirst' BY <1>1, <1>3 DEF BubbleInv, ShownFirst, Updates!Start
<1>7. NotLost'
  <2> SUFFICES ASSUME ~deleted, request = 0
               PROVE  /\ posted \/ rows' # {} => \E r \in rows' : r.shown
                      /\ posted => \A r \in rows' : r.shown => r.file
    BY <1>1 DEF NotLost
  <2> QED BY <1>2, <1>3 DEF BubbleInv, NotLost
<1>8. Remembered'
  <2> SUFFICES ASSUME deleted, today < Updates!Start + Keep
               PROVE  (\A r \in rows' : ~r.shown) /\ \E r \in rows' : r.ts = Updates!Start
    BY <1>1 DEF Remembered, Updates!Start
  <2>1. PICK r \in rows : r.ts = Updates!Start BY DEF BubbleInv, Remembered
  <2>2. ~(r.ts <= today - Keep)
    BY <2>1 DEF BubbleInv, BubbleTypes, Updates!Start, Arrival
  <2>3. r \in rows' BY <1>1, <2>2 DEF Updates!Pruned
  <2> QED BY <1>3, <2>1, <2>3 DEF BubbleInv, Remembered
<1> QED BY <1>4, <1>5, <1>6, <1>7, <1>8 DEF BubbleInv

LEMMA BubbleSteps ==
    ASSUME Arrival PROVE BubbleInv /\ [Updates!Next]_(Updates!vars) => BubbleInv'
<1> SUFFICES ASSUME BubbleInv, [Updates!Next]_(Updates!vars) PROVE BubbleInv' OBVIOUS
<1>1. ASSUME UNCHANGED <<split, rows, copies, posted, request, deleted>>, today' = today \/ today' = today + 1
      PROVE  BubbleInv'
  <2> USE <1>1 DEF BubbleInv
  <2>1. BubbleTypes' BY DEF BubbleTypes, Updates!Start, Arrival
  <2>2. OneOrTwo' /\ ShownFirst' /\ NotLost' BY DEF OneOrTwo, ShownFirst, NotLost, Updates!Start
  <2>3. today' < Updates!Start + Keep => today < Updates!Start + Keep
    BY DEF BubbleTypes, Updates!Start, Arrival
  <2>4. Remembered' BY <2>3 DEF Remembered, Updates!Start
  <2> QED BY <2>1, <2>2, <2>4
<1>2. CASE Updates!Prefetch \/ Updates!Expunge \/ Updates!Tick \/ UNCHANGED Updates!vars
  BY <1>1, <1>2 DEF Updates!Prefetch, Updates!Expunge, Updates!Tick, Updates!vars
<1>3. ASSUME NEW m \in Updates!EditMails, Updates!ReceiveEdit(m) PROVE BubbleInv' BY <1>3, ReceiveEditOK
<1> QED BY <1>2, <1>3, ReceiveWholeOK, ReceivePreOK, ReceivePostOK, ReceiveDeleteOK, delete_msgsOK,
           housekeepingOK DEF Updates!Next

LEMMA BubbleShown == ASSUME BubbleInv PROVE Updates!ShownAsSent
<1>0. rows \subseteq MsgRows BY DEF BubbleInv, BubbleTypes
<1>1. \A r, s \in Updates!Shown : r = s BY <1>0 DEF BubbleInv, ShownFirst, MsgRows, Updates!Shown
<1>3. posted /\ ~deleted /\ request = 0 => \A r \in Updates!Shown : r.file
  BY DEF BubbleInv, NotLost, Updates!Shown
<1>4. deleted /\ today < Updates!Start + Keep => Updates!Shown = {}
  BY DEF BubbleInv, Remembered, Updates!Shown
<1> QED BY <1>1, <1>3, <1>4 DEF Updates!ShownAsSent, Updates!OneWholeBubble, Updates!DeletedStaysDeleted

(* A message that comes as pre-message and post-message, or whole, over       *)
(* several relays and in any order, is in the chat once; it has its           *)
(* attachment once that was received; and it does not come back after it was  *)
(* deleted, for as long as tombstones are kept.                               *)
THEOREM BubblesStayWhole ==
    ASSUME Arrival PROVE Updates!Spec => []Updates!ShownAsSent
<1>1. Updates!Init => BubbleInv BY BubbleInit
<1>2. BubbleInv /\ [Updates!Next]_(Updates!vars) => BubbleInv' BY BubbleSteps
<1>3. BubbleInv => Updates!ShownAsSent BY BubbleShown
<1> QED BY <1>1, <1>2, <1>3, PTL DEF Updates!Spec

-----------------------------------------------------------------------------
(* The timer of a chat. *)

Has(p) == Len(sent) \in seen[p]
Newest == sent[Len(sent)]

SettingTypes ==
    /\ \E T : sent \in Seq(T)
    /\ seen \in [Participants -> SUBSET (DOMAIN sent)] /\ timer = [p \in Participants |-> timer[p]]
    /\ DOMAIN timer = Participants /\ stamp \in [Participants -> Nat] /\ \A p \in Participants : stamp[p] <= Len(sent)

(* Only the newest message is under way; whoever has it has its timer, the    *)
(* others have the one before, which is the same if the message changes none. *)
SettingInv ==
    /\ SettingTypes
    /\ \A p \in Participants : \A i \in DOMAIN sent : i # Len(sent) => i \in seen[p]
    /\ Len(sent) = 0 => \A p \in Participants : timer[p] = 0
    /\ Len(sent) # 0 =>
         /\ \A p \in Participants : Has(p) => timer[p] = Newest.timer
         /\ \A p, q \in Participants : ~Has(p) /\ ~Has(q) => timer[p] = timer[q]
         /\ \A p \in Participants : ~Has(p) /\ ~Newest.change => timer[p] = Newest.timer

LEMMA SettingAgrees == SettingInv => Timer!TimersAgree
<1> SUFFICES ASSUME SettingInv, ~Timer!Underway, NEW p \in Participants, NEW q \in Participants
             PROVE  timer[p] = timer[q]
  BY DEF Timer!TimersAgree
<1>1. seen[p] = DOMAIN sent /\ seen[q] = DOMAIN sent BY DEF Timer!Underway
<1>2. Len(sent) \in Nat /\ DOMAIN sent = 1 .. Len(sent)
  BY LenProperties DEF SettingInv, SettingTypes
<1>3. CASE Len(sent) = 0 BY <1>3 DEF SettingInv
<1>4. CASE Len(sent) # 0
  <2>1. Has(p) /\ Has(q) BY <1>1, <1>2, <1>4 DEF Has
  <2> QED BY <1>4, <2>1 DEF SettingInv
<1> QED BY <1>3, <1>4

LEMMA SettingInit == Timer!Init => SettingInv
<1> SUFFICES ASSUME Timer!Init PROVE SettingInv OBVIOUS
<1>1. sent = << >> /\ sent \in Seq({}) /\ Len(sent) = 0 /\ DOMAIN sent = {}
  BY EmptySeq DEF Timer!Init
<1>2. SettingTypes BY <1>1 DEF Timer!Init, SettingTypes
<1> QED BY <1>1, <1>2 DEF Timer!Init, SettingInv

(* Writing, with or without changing the timer. *)
LEMMA WriteOK ==
    ASSUME InTurn, SettingInv, NEW p \in Participants, NEW t, NEW change \in BOOLEAN,
           Timer!Write(p, t, change), timer' = [timer EXCEPT ![p] = t], stamp' = stamp,
           ~change => t = timer[p]
    PROVE  SettingInv'
<1>1. PICK n : n = Len(sent) OBVIOUS
<1>2. n \in Nat /\ DOMAIN sent = 1 .. n
  BY <1>1, LenProperties DEF SettingInv, SettingTypes
<1>3. PICK m : m = [by |-> p, timer |-> t, change |-> change, prev |-> last[p]] OBVIOUS
<1>4. PICK T : sent \in Seq(T) BY DEF SettingInv, SettingTypes
<1>5. /\ sent' = Append(sent, m) /\ sent' \in Seq(T \cup {m}) /\ Len(sent') = n + 1 /\ sent'[n + 1] = m
      /\ DOMAIN sent' = 1 .. n + 1
  <2>1. sent' = Append(sent, m) BY <1>3 DEF Timer!Write
  <2>2. sent \in Seq(T \cup {m}) /\ m \in T \cup {m} BY <1>4, SeqDef
  <2>3. sent' \in Seq(T \cup {m}) /\ Len(sent') = n + 1 /\ sent'[n + 1] = m
    BY <1>1, <2>1, <2>2, AppendProperties
  <2> QED BY <2>1, <2>3, LenProperties
<1>6. seen' = [seen EXCEPT ![p] = @ \cup {n + 1}] BY <1>1 DEF Timer!Write
<1>7. \A q \in Participants : seen[q] = 1 .. n
  <2>1. ~Timer!Underway BY DEF InTurn, Timer!Write
  <2> QED BY <1>2, <2>1 DEF Timer!Underway
<1>8. \A q, r \in Participants : timer[q] = timer[r]
  BY SettingAgrees, <1>2, <1>7 DEF Timer!TimersAgree, Timer!Underway
<1>9. seen \in [Participants -> SUBSET (1 .. n)] BY <1>2 DEF SettingInv, SettingTypes
<1>10. /\ seen'[p] = 1 .. n + 1 /\ \A q \in Participants \ {p} : seen'[q] = 1 .. n
       /\ seen' \in [Participants -> SUBSET (1 .. n + 1)]
  BY <1>2, <1>6, <1>7, <1>9
<1>11. /\ timer'[p] = t /\ \A q \in Participants \ {p} : timer'[q] = timer[q]
       /\ timer' = [q \in Participants |-> timer'[q]] /\ DOMAIN timer' = Participants
  BY DEF SettingInv, SettingTypes
<1>12. SettingTypes'
  <2>1. \A q \in Participants : stamp'[q] <= n + 1
    BY <1>1, <1>2 DEF SettingInv, SettingTypes
  <2> QED BY <1>5, <1>10, <1>11, <2>1 DEF SettingInv, SettingTypes
<1>13. \A q \in Participants : \A i \in DOMAIN sent' : i # n + 1 => i \in seen'[q]
  BY <1>2, <1>5, <1>10
<1>14. \A q \in Participants : (n + 1 \in seen'[q]) <=> q = p BY <1>2, <1>10
<1>15. m.timer = t /\ m.change = change BY <1>3
<1>16. /\ \A q \in Participants : n + 1 \in seen'[q] => timer'[q] = m.timer
       /\ \A q, r \in Participants : n + 1 \notin seen'[q] /\ n + 1 \notin seen'[r] => timer'[q] = timer'[r]
       /\ \A q \in Participants : n + 1 \notin seen'[q] /\ ~m.change => timer'[q] = m.timer
  BY <1>8, <1>11, <1>14, <1>15
<1>17. n + 1 # 0 BY <1>2
<1> QED BY <1>5, <1>12, <1>13, <1>16, <1>17 DEF SettingInv, Has, Newest

LEMMA ReadOneOK ==
    ASSUME InTurn, SettingInv, NEW p \in Participants, NEW i \in DOMAIN sent, Timer!Receive(p, i)
    PROVE  SettingInv'
<1>1. PICK n : n = Len(sent) OBVIOUS
<1>2. n \in Nat /\ DOMAIN sent = 1 .. n
  BY <1>1, LenProperties DEF SettingInv, SettingTypes
<1>3. i = n /\ n # 0 /\ ~Has(p)
  BY <1>1, <1>2 DEF SettingInv, Timer!Receive, Has
<1>4. sent' = sent /\ seen' = [seen EXCEPT ![p] = @ \cup {n}] BY <1>3 DEF Timer!Receive
<1>5. /\ seen' \in [Participants -> SUBSET (DOMAIN sent)] /\ n \in seen'[p]
      /\ \A q \in Participants \ {p} : seen'[q] = seen[q]
      /\ seen[p] \subseteq seen'[p]
  BY <1>2, <1>3, <1>4 DEF SettingInv, SettingTypes
<1>6. timer'[p] = Newest.timer /\ \A q \in Participants \ {p} : timer'[q] = timer[q]
  <2>1. CASE Timer!Applies(p, i)
    BY <1>1, <1>3, <2>1 DEF Timer!Receive, SettingInv, SettingTypes, Newest
  <2>2. CASE ~Timer!Applies(p, i)
    <3>1. timer' = timer BY <2>2 DEF Timer!Receive
    <3>2. timer[p] = Newest.timer \/ ~Newest.change
      <4>1. stamp[p] <= i BY <1>1, <1>3 DEF SettingInv, SettingTypes
      <4>2. i \in Nat /\ stamp[p] \in Nat BY <1>2, <1>3 DEF SettingInv, SettingTypes
      <4>3. i >= stamp[p] BY <4>1, <4>2
      <4> QED BY <1>1, <1>3, <2>2, <4>3 DEF Timer!Applies, Timer!Unaware, Newest
    <3>3. timer[p] = Newest.timer BY <1>1, <1>3, <3>2 DEF SettingInv
    <3> QED BY <3>1, <3>3
  <2> QED BY <2>1, <2>2
<1>7. SettingTypes'
  <2>1. timer' = [q \in Participants |-> timer'[q]] /\ DOMAIN timer' = Participants
    BY DEF Timer!Receive, SettingInv, SettingTypes
  <2>2. stamp' \in [Participants -> Nat] /\ \A q \in Participants : stamp'[q] <= n
    BY <1>1, <1>2, <1>3 DEF Timer!Receive, SettingInv, SettingTypes
  <2> QED BY <1>1, <1>4, <1>5, <2>1, <2>2 DEF SettingInv, SettingTypes
<1>8. \A q \in Participants : \A j \in DOMAIN sent : j # n => j \in seen'[q]
  BY <1>1, <1>5 DEF SettingInv
<1>9. \A q \in Participants : n \in seen'[q] <=> q = p \/ Has(q) BY <1>1, <1>5 DEF Has
<1>10. /\ \A q \in Participants : n \in seen'[q] => timer'[q] = Newest.timer
       /\ \A q, r \in Participants : n \notin seen'[q] /\ n \notin seen'[r] => timer'[q] = timer'[r]
       /\ \A q \in Participants : n \notin seen'[q] /\ ~Newest.change => timer'[q] = Newest.timer
  BY <1>1, <1>3, <1>6, <1>9 DEF SettingInv
<1> QED BY <1>1, <1>3, <1>4, <1>7, <1>8, <1>10 DEF SettingInv, Has, Newest

(* ephemeral.rs: "the setting is eventually synchronized among all            *)
(* participants": when every message has reached every member, all have the   *)
(* same timer, for any number of members and messages written in turn.        *)
THEOREM TimersComeTogether == ASSUME InTurn PROVE Timer!Spec => []Timer!TimersAgree
<1>1. SettingInv /\ [Timer!Next]_(Timer!vars) => SettingInv'
  <2> SUFFICES ASSUME SettingInv, [Timer!Next]_(Timer!vars) PROVE SettingInv' OBVIOUS
  <2>1. CASE UNCHANGED Timer!vars
    BY <2>1 DEF Timer!vars, SettingInv, SettingTypes, Has, Newest
  <2>2. CASE \E p \in Participants : \E t \in Timers : Timer!SetTimer(p, t)
    BY <2>2, WriteOK DEF Timer!SetTimer
  <2>3. CASE \E p \in Participants : Timer!Send(p)
    <3>1. PICK p \in Participants : Timer!Send(p) BY <2>3
    <3>2. timer' = [timer EXCEPT ![p] = timer[p]] /\ stamp' = stamp
      BY <3>1 DEF Timer!Send, SettingInv, SettingTypes
    <3>3. PICK t : t = timer[p] OBVIOUS
    <3>4. Timer!Write(p, t, FALSE) BY <3>1, <3>3 DEF Timer!Send
    <3> QED BY <3>2, <3>3, <3>4, WriteOK
  <2>4. CASE \E p \in Participants : \E i \in DOMAIN sent : Timer!Receive(p, i)
    BY <2>4, ReadOneOK
  <2> QED BY <2>1, <2>2, <2>3, <2>4 DEF Timer!Next
<1> QED BY <1>1, SettingInit, SettingAgrees, PTL DEF Timer!Spec

-----------------------------------------------------------------------------
(* Joining by QR code. *)

(* The handshake; what is proved of it holds without the fairness of its     *)
(* specification.                                                             *)
Handshaking == Join!Init /\ [][Join!Next]_(Join!vars)

Printed == {q \in Qrs : code[q] # None}

-----------------------------------------------------------------------------
(* Ids of rows: the next one is greater than all there are. *)
Bounded(tab) == \E n \in Nat : \A r \in tab : r.id <= n

LEMMA NextIdIsNew ==
  ASSUME NEW tab \in SUBSET Join!Row, Bounded(tab)
  PROVE  Join!NextId(tab) \in Nat /\ \A r \in tab : r.id < Join!NextId(tab)
<1> DEFINE ids == {0} \union {r.id : r \in tab}
           Above == {k \in Nat : \A i \in ids : i <= k}
           R == OpToRel(<, Nat)
<1>1. ids \subseteq Nat /\ 0 \in ids
  BY DEF Join!Row
<1>2. PICK n \in Nat : \A r \in tab : r.id <= n
  BY DEF Bounded
<1>3. n \in Above
  BY <1>1, <1>2
<1>4. IsWellFoundedOn(R, Nat)
  BY NatLessThanWellFounded
<1>5. \A x, y \in Nat : <<x, y>> \in R <=> x < y
  BY DEF OpToRel
<1>6. Above \subseteq Nat
  OBVIOUS
<1> HIDE DEF R, ids
<1>7. PICK k \in Above : \A y \in Above : ~ (<<y, k>> \in R)
  <2> HIDE DEF Above
  <2> QED BY <1>3, <1>4, <1>6, WFMin
<1>8. k \in ids
  <2> SUFFICES ASSUME k \notin ids PROVE FALSE
    OBVIOUS
  <2>1. k \in Nat /\ \A i \in ids : i <= k
    BY <1>7
  <2>2. k # 0
    BY <1>1
  <2>3. k - 1 \in Nat /\ k - 1 < k
    BY <2>1, <2>2
  <2>4. \A i \in ids : i <= k - 1
    BY <1>1, <2>1
  <2>5. k - 1 \in Above
    BY <2>3, <2>4
  <2> QED BY <1>5, <1>7, <2>1, <2>3, <2>5
<1>9. \A i \in ids : k >= i
  BY <1>1, <1>7
<1>10. Join!Max(ids) \in ids /\ \A i \in ids : Join!Max(ids) >= i
  BY <1>8, <1>9 DEF Join!Max
<1>11. Join!NextId(tab) = 1 + Join!Max(ids)
  BY DEF Join!NextId, ids
<1>12. \A r \in tab : r.id \in ids
  BY DEF ids
<1> DEFINE top == Join!Max(ids)
<1>13. top \in Nat /\ Join!NextId(tab) = 1 + top /\ \A i \in ids : i \in Nat /\ top >= i
  BY <1>1, <1>10, <1>11
<1> HIDE DEF top
<1> QED BY <1>12, <1>13

(* token::save *)
LEMMA SaveRow ==
  ASSUME NEW tab \in SUBSET Join!Row, Bounded(tab), NEW ns \in {"inv", "auth"}, NEW q \in Qrs,
         NEW ts \in 0..JoinUntil
  PROVE  LET new == Join!Save(tab, ns, q, ts)
         IN  /\ new \in SUBSET Join!Row /\ Bounded(new) /\ tab \subseteq new
             /\ \E r \in new : r.ns = ns /\ r.of = q
             /\ \A r \in new \ tab : r.ns = ns /\ r.of = q /\ r.ts = ts
             /\ \A r \in new \ tab : \A h \in tab : h.id < r.id
             /\ \A r, h \in new \ tab : r = h
<1> DEFINE row == [id |-> Join!NextId(tab), ns |-> ns, of |-> q, ts |-> ts]
<1>1. CASE \E r \in tab : r.ns = ns /\ r.of = q
  BY <1>1 DEF Join!Save
<1>2. CASE ~ \E r \in tab : r.ns = ns /\ r.of = q
  <2>1. Join!NextId(tab) \in Nat /\ \A r \in tab : r.id < Join!NextId(tab)
    BY NextIdIsNew
  <2>2. row \in Join!Row /\ row.id = Join!NextId(tab) /\ row.ns = ns /\ row.of = q /\ row.ts = ts
    BY <2>1 DEF Join!Row
  <2>3. Join!Save(tab, ns, q, ts) = tab \union {row}
    BY <1>2 DEF Join!Save
  <2> HIDE DEF row
  <2>4. Bounded(tab \union {row})
    <3>1. \A r \in tab \union {row} : r.id <= Join!NextId(tab)
      BY <2>1, <2>2 DEF Join!Row
    <3> QED BY <2>1, <3>1 DEF Bounded
  <2> QED BY <2>1, <2>2, <2>3, <2>4
<1> QED BY <1>1, <1>2

(* token::lookup *)
LEMMA LookupRow ==
  ASSUME NEW tab \in SUBSET Join!Row, NEW ns, NEW q \in Qrs, Join!Lookup(tab, ns, q) # None
  PROVE  \E r \in tab : r.ns = ns /\ Join!Lookup(tab, ns, q) = r.of
BY DEF Join!Lookup

LEMMA LookupNewest ==
  ASSUME None \notin Qrs, NEW tab \in SUBSET Join!Row, NEW ns, NEW q \in Qrs,
         NEW x \in tab, x.ns = ns, x.of = q, \A h \in tab \ {x} : h.id < x.id
  PROVE  Join!Lookup(tab, ns, q) = q
<1> DEFINE hits == {r \in tab : r.ns = ns /\ Join!SameFk(r.of, q)}
           newest == {r \in hits : \A h \in hits : h.id <= r.id}
<1>1. \A r \in tab : r.id \in Nat
  BY DEF Join!Row
<1>2. x \in hits
  BY DEF Join!SameFk
<1>3. x \in newest
  BY <1>1, <1>2
<1>4. \A r \in newest : r = x
  BY <1>1, <1>2
<1>5. newest = {x}
  BY <1>3, <1>4
<1> QED BY <1>5 DEF Join!Lookup

-----------------------------------------------------------------------------
(* The tokens of a device and the sync items it has yet to execute.           *)
IsAdd(it, q) == it.op = "add" /\ it.auth = q
IsDel(it, q) == it.op = "del" /\ it.auth = q
IsAuth(r, q) == r.ns = "auth" /\ r.of = q

(* Auth tokens belong to printed codes, and nothing is from the future.       *)
Sound(tab, its) ==
  /\ \A r \in tab : r.ts <= now /\ (r.ns = "auth" => code[r.of] # None)
  /\ \A i \in 1..Len(its) : its[i].ts <= now /\ (its[i].op = "add" => code[its[i].auth] # None)

(* A code that was never revived was added once.                              *)
OneAdd(tab, its) ==
  \A q \in Qrs \ revived :
    /\ \A i, j \in 1..Len(its) : IsAdd(its[i], q) /\ IsAdd(its[j], q) => i = j
    /\ (\E r \in tab : IsAuth(r, q)) => \A i \in 1..Len(its) : ~IsAdd(its[i], q)

(* For a withdrawn code the deletion is on its way, behind its addition.      *)
DelFollows(tab, its) ==
  \A q \in gone \ revived :
    /\ \A r \in tab : IsAuth(r, q) =>
         \E j \in 1..Len(its) : IsDel(its[j], q) /\ r.ts <= its[j].ts
    /\ \A i \in 1..Len(its) : IsAdd(its[i], q) =>
         \E j \in 1..Len(its) : i < j /\ IsDel(its[j], q) /\ its[i].ts <= its[j].ts

DeviceOK(tab, its) == Bounded(tab) /\ Sound(tab, its) /\ OneAdd(tab, its) /\ DelFollows(tab, its)

TokTypes == /\ now \in 0..JoinUntil
            /\ tokens \in [Devices -> SUBSET Join!Row] /\ sync \in [Devices -> Seq(Join!Item)]
            /\ code \in [Qrs -> Qrs \union {None}]
            /\ gone \subseteq Printed
TokInv == TokTypes /\ \A d \in Devices : DeviceOK(tokens[d], sync[d])

LEMMA InitTok ==
  ASSUME Handshakes, Join!Init
  PROVE  TokInv
<1>1. tokens = [d \in Devices |-> {}] /\ sync = [d \in Devices |-> <<>>] /\ gone = {} /\ now = 0
      /\ code = [q \in Qrs |-> None]
  BY DEF Join!Init
<1>2. <<>> \in Seq(Join!Item) /\ Len(<<>>) = 0
  BY EmptySeq
<1>3. TokTypes
  BY <1>1, <1>2 DEF TokTypes, Handshakes
<1>4. ASSUME NEW d \in Devices PROVE DeviceOK(tokens[d], sync[d])
  BY <1>1, <1>2 DEF DeviceOK, Bounded, Sound, OneAdd, DelFollows
<1> QED BY <1>3, <1>4 DEF TokInv

(* What NewQr and Revive put into the table and into the sync item.           *)
LEMMA NewTokens ==
  ASSUME Handshakes, TokInv, NEW d \in Devices, NEW q \in Qrs, NEW inv \in Qrs,
         ~Join!Exists(d, "auth", q), NEW tab,
         tab = Join!Save(Join!Save(tokens[d], "inv", inv, now), "auth", q, now)
  PROVE  /\ tab \in SUBSET Join!Row /\ Bounded(tab) /\ tokens[d] \subseteq tab
         /\ \A r \in tab \ tokens[d] : r.ts = now /\ (r.ns = "auth" => r.of = q)
         /\ Join!Lookup(tab, "auth", q) = q
         /\ Join!Lookup(tab, "inv", q) \in Qrs \union {None}
<1> DEFINE old == tokens[d]
           mid == Join!Save(tokens[d], "inv", inv, now)
<1>1. old \in SUBSET Join!Row /\ Bounded(old) /\ now \in 0..JoinUntil
  BY DEF TokInv, TokTypes, DeviceOK
<1>2. /\ mid \in SUBSET Join!Row /\ Bounded(mid) /\ old \subseteq mid
      /\ \A r \in mid \ old : r.ns = "inv" /\ r.ts = now
  BY <1>1, SaveRow
<1> HIDE DEF mid
<1>3. /\ tab \in SUBSET Join!Row /\ Bounded(tab) /\ mid \subseteq tab
      /\ \E r \in tab : r.ns = "auth" /\ r.of = q
      /\ \A r \in tab \ mid : r.ns = "auth" /\ r.of = q /\ r.ts = now
      /\ \A r \in tab \ mid : \A h \in mid : h.id < r.id
      /\ \A r, h \in tab \ mid : r = h
  BY <1>1, <1>2, SaveRow DEF mid
<1>4. PICK x \in tab : x.ns = "auth" /\ x.of = q
  BY <1>3
<1>5. x \notin mid
  BY <1>2, <1>4 DEF Join!Exists
<1>6. \A h \in tab \ {x} : h.id < x.id
  BY <1>3, <1>4, <1>5
<1>7. Join!Lookup(tab, "auth", q) = q
  BY <1>3, <1>4, <1>6, LookupNewest DEF Handshakes
<1>8. Join!Lookup(tab, "inv", q) \in Qrs \union {None}
  BY <1>3, LookupRow DEF Join!Row
<1>9. \A r \in tab \ old : r.ts = now /\ (r.ns = "auth" => r.of = q)
  BY <1>2, <1>3
<1> QED BY <1>2, <1>3, <1>7, <1>8, <1>9

(* The item of sync_qr_code_tokens is about the code itself.                  *)
LEMMA NewItem ==
  ASSUME Handshakes, TokInv, NEW d \in Devices, NEW q \in Qrs, NEW tab,
         Join!Lookup(tab, "auth", q) = q, Join!Lookup(tab, "inv", q) \in Qrs \union {None},
         Join!SyncTokens(d, tab, q)
  PROVE  \/ UNCHANGED sync
         \/ \E it \in Join!Item : IsAdd(it, q) /\ it.ts = now /\ Join!SyncToOthers(d, it)
<1>1. now \in 0..JoinUntil
  BY DEF TokInv, TokTypes
<1> DEFINE inv == Join!Lookup(tab, "inv", q)
           it == [op |-> "add", inv |-> inv, auth |-> q, ts |-> now]
<1>2. UNCHANGED sync \/ (inv # None /\ Join!SyncToOthers(d, it))
  BY DEF Join!SyncTokens
<1>3. inv # None => it \in Join!Item /\ IsAdd(it, q) /\ it.ts = now
  BY <1>1 DEF Join!Item, IsAdd
<1> QED BY <1>2, <1>3

(* Appending an item. *)
LEMMA Appended ==
  ASSUME NEW its \in Seq(Join!Item), NEW it \in Join!Item
  PROVE  /\ Append(its, it) \in Seq(Join!Item) /\ Len(its) \in Nat
         /\ Len(Append(its, it)) = Len(its) + 1
         /\ \A i \in 1..Len(its) : Append(its, it)[i] = its[i]
         /\ Append(its, it)[Len(its) + 1] = it
         /\ \A i \in 1..(Len(its) + 1) : i \in 1..Len(its) \/ i = Len(its) + 1
         /\ \A i \in 1..Len(its) : i \in 1..(Len(its) + 1) /\ i < Len(its) + 1
         /\ Len(its) + 1 \in 1..(Len(its) + 1)
<1>1. Len(its) \in Nat
  BY LenProperties
<1> QED BY <1>1, AppendProperties

(* A code is printed, or revived: its tokens are saved here and sent there.   *)
LEMMA CodeStep ==
  ASSUME TokInv, NEW d \in Devices, NEW q \in Qrs, NEW tab \in SUBSET Join!Row,
         Bounded(tab), tokens[d] \subseteq tab,
         \A r \in tab \ tokens[d] : r.ts = now /\ (r.ns = "auth" => r.of = q),
         tokens' = [tokens EXCEPT ![d] = tab],
         \/ UNCHANGED sync
         \/ \E it \in Join!Item : IsAdd(it, q) /\ it.ts = now /\ Join!SyncToOthers(d, it),
         code' \in [Qrs -> Qrs \union {None}], code'[q] # None,
         \A x \in Qrs : code[x] # None => code'[x] # None,
         UNCHANGED <<now, gone>>, revived \subseteq revived',
         q \in revived' \/ code[q] = None
  PROVE  TokInv'
<1>1. now \in 0..JoinUntil /\ tokens \in [Devices -> SUBSET Join!Row] /\ sync \in [Devices -> Seq(Join!Item)]
      /\ gone \subseteq Qrs /\ \A x \in gone : code[x] # None
  BY DEF TokInv, TokTypes, Printed
<1>2. sync' \in [Devices -> Seq(Join!Item)]
  <2>1. ASSUME NEW it \in Join!Item, Join!SyncToOthers(d, it)
        PROVE  sync' \in [Devices -> Seq(Join!Item)]
    <3>1. \A e \in Devices : Append(sync[e], it) \in Seq(Join!Item)
      BY <1>1, Appended
    <3> QED BY <1>1, <2>1, <3>1 DEF Join!SyncToOthers
  <2> QED BY <1>1, <2>1
<1>3. TokTypes'
  BY <1>1, <1>2 DEF TokTypes, Printed
<1>4. \A x \in gone \ revived' : x # q
  BY <1>1
<1>5. ASSUME NEW e \in Devices
      PROVE  DeviceOK(tokens[e], sync[e])' 
  <2> DEFINE its == sync[e]
  <2>1. /\ Bounded(tokens[e]) /\ Sound(tokens[e], its) /\ OneAdd(tokens[e], its)
        /\ DelFollows(tokens[e], its) /\ its \in Seq(Join!Item) /\ tokens[e] \in SUBSET Join!Row
    BY <1>1 DEF TokInv, DeviceOK
  <2>2. code[q] = None => /\ \A r \in tokens[e] : ~IsAuth(r, q)
                          /\ \A i \in 1..Len(its) : ~IsAdd(its[i], q)
    BY <2>1 DEF Sound, IsAuth, IsAdd
  <2>3. \A r \in tokens[e] : r.of \in Qrs
    BY <2>1 DEF Join!Row
  <2>4. \A i \in 1..Len(its) : its[i].auth \in Qrs
    <3>1. \A i \in 1..Len(its) : its[i] \in Join!Item
      BY <2>1, ElementOfSeq
    <3> QED BY <3>1 DEF Join!Item
  <2>5. CASE e = d
    <3>1. tokens'[e] = tab /\ sync'[e] = its
      BY <1>1, <2>5 DEF Join!SyncToOthers
    <3>2. \A r \in tab : r \in tokens[e] \/ (r.ts = now /\ (r.ns = "auth" => r.of = q))
      BY <2>5
    <3>3. Sound(tab, its)'
      <4>1. now' = now /\ now <= now
        BY <1>1
      <4>2. ASSUME NEW r \in tab
            PROVE  r.ts <= now /\ (r.ns = "auth" => code'[r.of] # None)
        BY <2>1, <2>3, <3>2, <4>1 DEF Sound
      <4>3. ASSUME NEW i \in 1..Len(its)
            PROVE  its[i].ts <= now /\ (its[i].op = "add" => code'[its[i].auth] # None)
        BY <2>1, <2>4 DEF Sound
      <4> QED BY <3>1, <4>1, <4>2, <4>3 DEF Sound
    <3>4. OneAdd(tab, its)'
      BY <2>1, <2>2, <2>5, <3>1, <3>2 DEF OneAdd, IsAuth
    <3>5. DelFollows(tab, its)'
      BY <1>4, <2>1, <2>5, <3>1, <3>2 DEF DelFollows, IsAuth
    <3> QED BY <3>1, <3>3, <3>4, <3>5 DEF DeviceOK, Bounded, Sound, OneAdd, DelFollows
  <2>6. CASE e # d /\ UNCHANGED sync
    <3>1. tokens'[e] = tokens[e] /\ sync'[e] = its
      BY <1>1, <2>6
    <3>2. Sound(tokens[e], its)'
      BY <2>1, <2>3, <2>4, <3>1 DEF Sound
    <3>3. OneAdd(tokens[e], its)'
      BY <2>1, <3>1 DEF OneAdd
    <3>4. DelFollows(tokens[e], its)'
      BY <2>1, <3>1 DEF DelFollows
    <3> QED BY <2>1, <3>1, <3>2, <3>3, <3>4 DEF DeviceOK, Bounded
  <2>7. ASSUME e # d, NEW it \in Join!Item, IsAdd(it, q), it.ts = now, Join!SyncToOthers(d, it)
        PROVE  DeviceOK(tokens[e], sync[e])'
    <3> DEFINE n == Len(its)
               more == Append(its, it)
    <3>1. tokens'[e] = tokens[e] /\ sync'[e] = more
      BY <1>1, <2>7 DEF Join!SyncToOthers
    <3>2. /\ more \in Seq(Join!Item) /\ n \in Nat /\ Len(more) = n + 1 /\ more[n + 1] = it
          /\ \A i \in 1..n : more[i] = its[i]
          /\ \A i \in 1..(n + 1) : i \in 1..n \/ i = n + 1
          /\ \A i \in 1..n : i \in 1..(n + 1)
      BY <2>1, Appended
    <3> HIDE DEF more
    <3>3. Sound(tokens[e], sync[e])'
      <4>1. now' = now /\ now <= now
        BY <1>1
      <4>2. ASSUME NEW r \in tokens[e]
            PROVE  r.ts <= now /\ (r.ns = "auth" => code'[r.of] # None)
        BY <2>1, <2>3 DEF Sound
      <4>3. ASSUME NEW i \in 1..n
            PROVE  its[i].ts <= now /\ (its[i].op = "add" => code'[its[i].auth] # None)
        BY <2>1, <2>4 DEF Sound
      <4>4. it.ts <= now /\ code'[it.auth] # None
        BY <2>7, <4>1 DEF IsAdd
      <4> HIDE DEF its
      <4> QED BY <3>1, <3>2, <4>1, <4>2, <4>3, <4>4 DEF Sound
    <3>4. OneAdd(tokens[e], sync[e])'
      <4> SUFFICES ASSUME NEW x \in Qrs \ revived'
                   PROVE  /\ \A i, j \in 1..(n + 1) : IsAdd(more[i], x) /\ IsAdd(more[j], x) => i = j
                          /\ (\E r \in tokens[e] : IsAuth(r, x)) =>
                               \A i \in 1..(n + 1) : ~IsAdd(more[i], x)
        BY <3>1, <3>2 DEF OneAdd
      <4>1. CASE x = q
        BY <2>2, <3>2, <4>1
      <4>2. CASE x # q
        <5>1. ~IsAdd(it, x)
          BY <2>7, <4>2 DEF IsAdd
        <5> QED BY <2>1, <3>2, <5>1 DEF OneAdd
      <4> QED BY <4>1, <4>2
    <3>5. DelFollows(tokens[e], sync[e])'
      <4> SUFFICES ASSUME NEW x \in gone \ revived'
                   PROVE  /\ \A r \in tokens[e] : IsAuth(r, x) =>
                               \E j \in 1..(n + 1) : IsDel(more[j], x) /\ r.ts <= more[j].ts
                          /\ \A i \in 1..(n + 1) : IsAdd(more[i], x) =>
                               \E j \in 1..(n + 1) : i < j /\ IsDel(more[j], x) /\ more[i].ts <= more[j].ts
        BY <3>1, <3>2 DEF DelFollows
      <4>1. ~IsAdd(it, x)
        BY <1>4, <2>7 DEF IsAdd
      <4>2. x \in gone \ revived
        OBVIOUS
      <4>3. /\ \A r \in tokens[e] : IsAuth(r, x) =>
                 \E j \in 1..n : IsDel(its[j], x) /\ r.ts <= its[j].ts
            /\ \A i \in 1..n : IsAdd(its[i], x) =>
                 \E j \in 1..n : i < j /\ IsDel(its[j], x) /\ its[i].ts <= its[j].ts
        BY <2>1, <4>2 DEF DelFollows
      <4> HIDE DEF its
      <4> QED BY <3>2, <4>1, <4>3
    <3> QED BY <2>1, <3>1, <3>3, <3>4, <3>5 DEF DeviceOK, Bounded
  <2> QED BY <2>5, <2>6, <2>7
<1> QED BY <1>3, <1>5 DEF TokInv

LEMMA WithdrawTok ==
  ASSUME Handshakes, TokInv, NEW d \in Devices, NEW q \in Qrs, Join!Withdraw(d, q)
  PROVE  TokInv'
<1> DEFINE it == [op |-> "del", inv |-> code[q], auth |-> q, ts |-> now]
<1>1. now \in 0..JoinUntil /\ tokens \in [Devices -> SUBSET Join!Row] /\ sync \in [Devices -> Seq(Join!Item)]
      /\ code \in [Qrs -> Qrs \union {None}] /\ gone \subseteq Printed
  BY DEF TokInv, TokTypes
<1>2. /\ code[q] # None /\ Join!Exists(d, "auth", q) /\ gone' = gone \union {q}
      /\ tokens' = [tokens EXCEPT ![d] = Join!DeleteFk(tokens[d], q)]
      /\ Join!SyncToOthers(d, it) /\ UNCHANGED <<now, code, revived>>
  BY <1>1 DEF Join!Withdraw
<1>3. it \in Join!Item /\ IsDel(it, q) /\ it.ts = now /\ it.op = "del"
  BY <1>1, <1>2 DEF Join!Item, IsDel
<1> HIDE DEF it
<1>4. sync' \in [Devices -> Seq(Join!Item)]
  <2>1. \A e \in Devices : Append(sync[e], it) \in Seq(Join!Item)
    BY <1>1, <1>3, Appended
  <2> QED BY <1>1, <1>2, <2>1 DEF Join!SyncToOthers
<1>5. TokTypes'
  BY <1>1, <1>2, <1>4 DEF TokTypes, Printed, Join!DeleteFk
<1>6. ASSUME NEW e \in Devices
      PROVE  DeviceOK(tokens[e], sync[e])'
  <2> DEFINE its == sync[e]
  <2>1. /\ Bounded(tokens[e]) /\ Sound(tokens[e], its) /\ OneAdd(tokens[e], its)
        /\ DelFollows(tokens[e], its) /\ its \in Seq(Join!Item) /\ tokens[e] \in SUBSET Join!Row
    BY <1>1 DEF TokInv, DeviceOK
  <2>2. CASE e = d
    <3>1. tokens'[e] \subseteq tokens[e] /\ sync'[e] = its /\ \A r \in tokens'[e] : r.of # q
      BY <1>1, <1>2, <2>2 DEF Join!SyncToOthers, Join!DeleteFk, Join!SameFk
    <3>2. q \notin revived => \A i \in 1..Len(its) : ~IsAdd(its[i], q)
      BY <1>2, <2>1, <2>2 DEF OneAdd, Join!Exists, IsAuth
    <3>3. Sound(tokens[e], sync[e])'
      BY <1>2, <2>1, <3>1 DEF Sound
    <3>4. OneAdd(tokens[e], sync[e])'
      BY <1>2, <2>1, <3>1 DEF OneAdd
    <3>5. DelFollows(tokens[e], sync[e])'
      BY <1>2, <2>1, <3>1, <3>2 DEF DelFollows, IsAuth
    <3>6. Bounded(tokens[e])'
      BY <2>1, <3>1 DEF Bounded
    <3> QED BY <3>3, <3>4, <3>5, <3>6 DEF DeviceOK
  <2>3. CASE e # d
    <3> DEFINE n == Len(its)
               more == Append(its, it)
    <3>1. tokens'[e] = tokens[e] /\ sync'[e] = more
      BY <1>1, <1>2, <2>3 DEF Join!SyncToOthers
    <3>2. /\ more \in Seq(Join!Item) /\ n \in Nat /\ Len(more) = n + 1 /\ more[n + 1] = it
          /\ \A i \in 1..n : more[i] = its[i] /\ i < n + 1
          /\ \A i \in 1..(n + 1) : i \in 1..n \/ i = n + 1
          /\ \A i \in 1..n : i \in 1..(n + 1)
          /\ n + 1 \in 1..(n + 1)
      BY <1>3, <2>1, Appended
    <3> HIDE DEF more
    <3>3. /\ \A r \in tokens[e] : r.ts <= now
          /\ \A i \in 1..n : its[i].ts <= now
          /\ now <= now
      BY <1>1, <2>1 DEF Sound
    <3>4. Sound(tokens[e], sync[e])'
      BY <1>2, <1>3, <2>1, <3>1, <3>2, <3>3 DEF Sound
    <3>5. \A x : ~IsAdd(it, x)
      BY <1>3 DEF IsAdd
    <3>6. OneAdd(tokens[e], sync[e])'
      BY <1>2, <2>1, <3>1, <3>2, <3>5 DEF OneAdd
    <3>7. DelFollows(tokens[e], sync[e])'
      <4> SUFFICES ASSUME NEW x \in (gone \union {q}) \ revived
                   PROVE  /\ \A r \in tokens[e] : IsAuth(r, x) =>
                               \E j \in 1..(n + 1) : IsDel(more[j], x) /\ r.ts <= more[j].ts
                          /\ \A i \in 1..(n + 1) : IsAdd(more[i], x) =>
                               \E j \in 1..(n + 1) : i < j /\ IsDel(more[j], x) /\ more[i].ts <= more[j].ts
        BY <1>2, <3>1, <3>2 DEF DelFollows
      <4>1. CASE x = q
        BY <1>3, <3>2, <3>3, <3>5, <4>1
      <4>2. CASE x \in gone \ revived
        <5>1. /\ \A r \in tokens[e] : IsAuth(r, x) =>
                   \E j \in 1..n : IsDel(its[j], x) /\ r.ts <= its[j].ts
              /\ \A i \in 1..n : IsAdd(its[i], x) =>
                   \E j \in 1..n : i < j /\ IsDel(its[j], x) /\ its[i].ts <= its[j].ts
          BY <2>1, <4>2 DEF DelFollows
        <5> HIDE DEF its
        <5> QED BY <3>2, <3>5, <5>1
      <4> QED BY <4>1, <4>2
    <3> QED BY <2>1, <3>1, <3>4, <3>6, <3>7 DEF DeviceOK, Bounded
  <2> QED BY <2>2, <2>3
<1> QED BY <1>5, <1>6 DEF TokInv

LEMMA ExecuteSyncTok ==
  ASSUME Handshakes, TokInv, NEW d \in Devices, Join!ExecuteSync(d)
  PROVE  TokInv'
<1>0. PICK its, it, rest, tab, n :
         /\ its = sync[d] /\ it = Head(its) /\ rest = Tail(its) /\ n = Len(rest)
         /\ tab = IF it.op = "add" THEN Join!AddQrToken(tokens[d], it) ELSE Join!DeleteQrToken(tokens[d], it)
  OBVIOUS
<1>1. now \in 0..JoinUntil /\ tokens \in [Devices -> SUBSET Join!Row] /\ sync \in [Devices -> Seq(Join!Item)]
      /\ code \in [Qrs -> Qrs \union {None}] /\ gone \subseteq Printed
  BY DEF TokInv, TokTypes
<1>2. /\ its # <<>> /\ tokens' = [tokens EXCEPT ![d] = tab] /\ sync' = [sync EXCEPT ![d] = rest]
      /\ UNCHANGED <<now, code, gone, revived>>
  BY <1>0, <1>1 DEF Join!ExecuteSync
<1>3. /\ Bounded(tokens[d]) /\ Sound(tokens[d], its) /\ OneAdd(tokens[d], its)
      /\ DelFollows(tokens[d], its) /\ its \in Seq(Join!Item) /\ tokens[d] \in SUBSET Join!Row
  BY <1>0, <1>1 DEF TokInv, DeviceOK
<1>4. /\ it \in Join!Item /\ rest \in Seq(Join!Item) /\ n \in Nat /\ Len(its) = n + 1 /\ it = its[1]
      /\ \A i \in 1..n : rest[i] = its[i + 1]
  <2>1. /\ Head(its) \in Join!Item /\ Tail(its) \in Seq(Join!Item) /\ Len(Tail(its)) = Len(its) - 1
        /\ \A i \in 1..Len(Tail(its)) : Tail(its)[i] = its[i + 1]
    BY <1>2, <1>3, HeadTailProperties
  <2>2. Len(its) \in Nat /\ Len(rest) \in Nat
    BY <1>0, <1>3, <2>1, LenProperties
  <2>3. Head(its) = its[1]
    BY <1>3
  <2> QED BY <1>0, <2>1, <2>2, <2>3
<1>5. /\ \A i \in 1..n : i + 1 \in 1..(n + 1)
      /\ 1 \in 1..(n + 1)
      /\ \A j \in 1..(n + 1) : j = 1 \/ (j - 1 \in 1..n /\ j = (j - 1) + 1)
      /\ \A i, j \in 1..n : (i = j <=> i + 1 = j + 1) /\ (i + 1 < j + 1 => i < j) /\ i + 1 # 1
      /\ \A j \in 1..(n + 1) : 1 < j => j # 1
  BY <1>4
<1>6. ASSUME NEW x \in gone \ revived
      PROVE  /\ \A r \in tokens[d] : IsAuth(r, x) =>
                  \/ \E j \in 1..n : IsDel(rest[j], x) /\ r.ts <= rest[j].ts
                  \/ IsDel(it, x) /\ r.ts <= it.ts
             /\ IsAdd(it, x) => \E j \in 1..n : IsDel(rest[j], x) /\ it.ts <= rest[j].ts
             /\ \A i \in 1..n : IsAdd(rest[i], x) =>
                  \E j \in 1..n : i < j /\ IsDel(rest[j], x) /\ rest[i].ts <= rest[j].ts
  <2>1. /\ \A r \in tokens[d] : IsAuth(r, x) =>
             \E j \in 1..(n + 1) : IsDel(its[j], x) /\ r.ts <= its[j].ts
        /\ \A i \in 1..(n + 1) : IsAdd(its[i], x) =>
             \E j \in 1..(n + 1) : i < j /\ IsDel(its[j], x) /\ its[i].ts <= its[j].ts
    BY <1>3, <1>4 DEF DelFollows
  <2>2. ASSUME NEW j \in 1..(n + 1), j # 1
        PROVE  j - 1 \in 1..n /\ rest[j - 1] = its[j]
    BY <1>4, <1>5, <2>2
  <2>3. \A r \in tokens[d] : IsAuth(r, x) =>
           \/ \E j \in 1..n : IsDel(rest[j], x) /\ r.ts <= rest[j].ts
           \/ IsDel(it, x) /\ r.ts <= it.ts
    BY <1>4, <2>1, <2>2
  <2>4. IsAdd(it, x) => \E j \in 1..n : IsDel(rest[j], x) /\ it.ts <= rest[j].ts
    BY <1>4, <1>5, <2>1, <2>2
  <2>5. ASSUME NEW i \in 1..n, IsAdd(rest[i], x)
        PROVE  \E j \in 1..n : i < j /\ IsDel(rest[j], x) /\ rest[i].ts <= rest[j].ts
    <3>1. PICK j \in 1..(n + 1) : i + 1 < j /\ IsDel(its[j], x) /\ its[i + 1].ts <= its[j].ts
      BY <1>4, <1>5, <2>1, <2>5
    <3>2. j # 1 /\ i < j - 1
      BY <1>4, <3>1
    <3> QED BY <1>4, <2>2, <3>1, <3>2
  <2> QED BY <2>3, <2>4, <2>5
<1>7. ASSUME NEW x \in Qrs \ revived
      PROVE  /\ \A i, j \in 1..n : IsAdd(rest[i], x) /\ IsAdd(rest[j], x) => i = j
             /\ (\E r \in tokens[d] : IsAuth(r, x)) => ~IsAdd(it, x) /\ \A i \in 1..n : ~IsAdd(rest[i], x)
             /\ IsAdd(it, x) => \A i \in 1..n : ~IsAdd(rest[i], x)
  <2>1. /\ \A i, j \in 1..(n + 1) : IsAdd(its[i], x) /\ IsAdd(its[j], x) => i = j
        /\ (\E r \in tokens[d] : IsAuth(r, x)) => \A i \in 1..(n + 1) : ~IsAdd(its[i], x)
    BY <1>3, <1>4 DEF OneAdd
  <2> QED BY <1>4, <1>5, <2>1
<1>8. /\ tab \in SUBSET Join!Row
      /\ Bounded(tab)
      /\ \A r \in tab : \/ r \in tokens[d]
                        \/ it.op = "add" /\ r.ts = it.ts /\ (r.ns = "auth" => r.of = it.auth)
      /\ \A x \in Qrs : IsDel(it, x) => \A r \in tab : r \in tokens[d] /\ ~(IsAuth(r, x) /\ r.ts <= it.ts)
  <2>1. CASE it.op = "add"
    <3> DEFINE mid == Join!Save(tokens[d], "inv", it.inv, it.ts)
    <3>1. it.inv \in Qrs /\ it.auth \in Qrs /\ it.ts \in 0..JoinUntil
      BY <1>4 DEF Join!Item
    <3>2. /\ mid \in SUBSET Join!Row /\ Bounded(mid) /\ tokens[d] \subseteq mid
          /\ \A r \in mid \ tokens[d] : r.ns = "inv" /\ r.ts = it.ts
      BY <1>3, <3>1, SaveRow
    <3>3. tab = Join!Save(mid, "auth", it.auth, it.ts)
      BY <1>0, <2>1 DEF Join!AddQrToken
    <3> HIDE DEF mid
    <3>4. /\ tab \in SUBSET Join!Row /\ Bounded(tab)
          /\ \A r \in tab \ mid : r.ns = "auth" /\ r.of = it.auth /\ r.ts = it.ts
      BY <3>1, <3>2, <3>3, SaveRow
    <3>5. \A r \in tab : r \in tokens[d] \/ (r.ts = it.ts /\ (r.ns = "auth" => r.of = it.auth))
      BY <3>2, <3>4
    <3>6. \A x \in Qrs : ~IsDel(it, x)
      BY <2>1 DEF IsDel
    <3>7. \A r \in tab : \/ r \in tokens[d]
                         \/ it.op = "add" /\ r.ts = it.ts /\ (r.ns = "auth" => r.of = it.auth)
      BY <2>1, <3>5
    <3>8. \A x \in Qrs : IsDel(it, x) =>
             \A r \in tab : r \in tokens[d] /\ ~(IsAuth(r, x) /\ r.ts <= it.ts)
      BY <3>6
    <3> QED BY <3>4, <3>7, <3>8
  <2>2. CASE it.op # "add"
    <3>1. tab = {r \in tokens[d] : \A x \in Join!Touched(tokens[d], it) : ~Join!SameFk(x, r.of)}
      BY <1>0, <2>2 DEF Join!DeleteQrToken
    <3>2. ASSUME NEW x \in Qrs, IsDel(it, x), NEW r \in tab, IsAuth(r, x), r.ts <= it.ts
          PROVE  FALSE
      <4>1. r \in tokens[d] /\ r.ns = "auth" /\ r.of = it.auth
        BY <3>1, <3>2 DEF IsAuth, IsDel
      <4>2. r.of \in Join!Touched(tokens[d], it)
        BY <3>2, <4>1 DEF Join!Touched
      <4> QED BY <3>1, <3>2, <4>2 DEF Join!SameFk
    <3>3. tab \in SUBSET Join!Row /\ Bounded(tab) /\ tab \subseteq tokens[d]
      BY <1>3, <3>1 DEF Bounded
    <3>4. \A r \in tab : \/ r \in tokens[d]
                         \/ it.op = "add" /\ r.ts = it.ts /\ (r.ns = "auth" => r.of = it.auth)
      BY <3>3
    <3>5. \A x \in Qrs : IsDel(it, x) =>
             \A r \in tab : r \in tokens[d] /\ ~(IsAuth(r, x) /\ r.ts <= it.ts)
      BY <3>2, <3>3
    <3> QED BY <3>3, <3>4, <3>5
  <2> QED BY <2>1, <2>2
<1>9. ASSUME it.op = "add"
      PROVE  it.auth \in Qrs /\ IsAdd(it, it.auth) /\ code[it.auth] # None
  BY <1>3, <1>4, <1>5, <1>9 DEF Join!Item, Sound, IsAdd
<1>10. it.ts <= now
  BY <1>3, <1>4, <1>5 DEF Sound
<1>11. Sound(tab, rest)'
  <2>1. \A i \in 1..n : rest[i].ts <= now /\ (rest[i].op = "add" => code[rest[i].auth] # None)
    BY <1>3, <1>4, <1>5 DEF Sound
  <2>2. \A r \in tab : r.ts <= now /\ (r.ns = "auth" => code[r.of] # None)
    <3> QED BY <1>3, <1>8, <1>9, <1>10 DEF Sound
  <2> QED BY <1>0, <1>2, <2>1, <2>2 DEF Sound
<1>12. OneAdd(tab, rest)'
  <2>1. ASSUME NEW x \in Qrs \ revived, NEW r \in tab, IsAuth(r, x)
        PROVE  \A i \in 1..n : ~IsAdd(rest[i], x)
    <3>1. CASE r \in tokens[d]
      BY <1>7, <2>1, <3>1
    <3>2. CASE it.op = "add" /\ r.of = it.auth
      <4>1. IsAdd(it, x)
        BY <2>1, <3>2 DEF IsAuth, IsAdd
      <4> QED BY <1>7, <4>1
    <3> QED BY <1>8, <2>1, <3>1, <3>2 DEF IsAuth
  <2> QED BY <1>0, <1>2, <1>7, <2>1 DEF OneAdd
<1>13. DelFollows(tab, rest)'
  <2>1. ASSUME NEW x \in gone \ revived, NEW r \in tab, IsAuth(r, x)
        PROVE  \E j \in 1..n : IsDel(rest[j], x) /\ r.ts <= rest[j].ts
    <3>1. CASE r \in tokens[d]
      <4>1. x \in Qrs
        BY <1>1 DEF Printed
      <4> QED BY <1>6, <1>8, <2>1, <3>1, <4>1
    <3>2. CASE it.op = "add" /\ r.of = it.auth /\ r.ts = it.ts
      <4>1. IsAdd(it, x)
        BY <2>1, <3>2 DEF IsAuth, IsAdd
      <4> QED BY <1>6, <3>2, <4>1
    <3> QED BY <1>8, <2>1, <3>1, <3>2 DEF IsAuth
  <2>2. ASSUME NEW x \in gone \ revived, NEW i \in 1..n, IsAdd(rest[i], x)
        PROVE  \E j \in 1..n : i < j /\ IsDel(rest[j], x) /\ rest[i].ts <= rest[j].ts
    BY <1>6, <2>2
  <2>3. gone' = gone /\ revived' = revived /\ n = Len(rest)
    BY <1>0, <1>2
  <2> QED BY <2>1, <2>2, <2>3 DEF DelFollows
<1>14. tokens'[d] = tab /\ sync'[d] = rest
  BY <1>1, <1>2
<1>15. TokTypes'
  BY <1>1, <1>2, <1>4, <1>8 DEF TokTypes, Printed
<1>16. ASSUME NEW e \in Devices
       PROVE  DeviceOK(tokens[e], sync[e])'
  <2>1. CASE e = d
    <3>1. Sound(tokens[e], sync[e])'
      BY <1>11, <1>14, <2>1 DEF Sound
    <3>2. OneAdd(tokens[e], sync[e])'
      BY <1>12, <1>14, <2>1 DEF OneAdd
    <3>3. DelFollows(tokens[e], sync[e])'
      BY <1>13, <1>14, <2>1 DEF DelFollows
    <3>4. Bounded(tokens[e])'
      BY <1>8, <1>14, <2>1 DEF Bounded
    <3> QED BY <3>1, <3>2, <3>3, <3>4 DEF DeviceOK
  <2>2. CASE e # d
    <3>1. tokens'[e] = tokens[e] /\ sync'[e] = sync[e]
      BY <1>1, <1>2, <2>2
    <3> QED BY <1>2, <3>1 DEF TokInv, DeviceOK, Bounded, Sound, OneAdd, DelFollows
  <2> QED BY <2>1, <2>2
<1> QED BY <1>15, <1>16 DEF TokInv

LEMMA TickTok ==
  ASSUME Handshakes, TokInv, Join!Tick
  PROVE  TokInv'
<1>1. now \in 0..JoinUntil /\ now < JoinUntil /\ now' = now + 1 /\ UNCHANGED Join!tokenVars
  BY DEF TokInv, TokTypes, Join!Tick
<1>2. tokens' = tokens /\ sync' = sync /\ code' = code /\ gone' = gone /\ revived' = revived
  BY <1>1 DEF Join!tokenVars
<1>3. now' \in 0..JoinUntil /\ now \in Nat
  BY <1>1 DEF Handshakes
<1>4. TokTypes'
  BY <1>2, <1>3 DEF TokInv, TokTypes, Printed
<1>5. ASSUME NEW d \in Devices
      PROVE  DeviceOK(tokens[d], sync[d])'
  <2>1. /\ Bounded(tokens[d]) /\ Sound(tokens[d], sync[d]) /\ OneAdd(tokens[d], sync[d])
        /\ DelFollows(tokens[d], sync[d]) /\ tokens[d] \in SUBSET Join!Row /\ sync[d] \in Seq(Join!Item)
    BY DEF TokInv, TokTypes, DeviceOK
  <2>2. \A r \in tokens[d] : r.ts \in Nat
    BY <2>1 DEF Join!Row
  <2>3. \A i \in 1..Len(sync[d]) : sync[d][i].ts \in Nat
    <3>1. \A i \in 1..Len(sync[d]) : sync[d][i] \in Join!Item
      BY <2>1, ElementOfSeq
    <3> QED BY <3>1 DEF Join!Item
  <2>4. Sound(tokens[d], sync[d])'
    <3>1. \A t \in Nat : t <= now => t <= now + 1
      BY <1>3
    <3> QED BY <1>1, <1>2, <2>1, <2>2, <2>3, <3>1 DEF Sound
  <2> QED BY <1>2, <2>1, <2>4 DEF DeviceOK, Bounded, OneAdd, DelFollows
<1> QED BY <1>4, <1>5 DEF TokInv

LEMMA SameTok ==
  ASSUME TokInv, UNCHANGED <<now, Join!tokenVars>>
  PROVE  TokInv'
<1>1. now' = now /\ tokens' = tokens /\ sync' = sync /\ code' = code /\ gone' = gone
      /\ revived' = revived
  BY DEF Join!tokenVars
<1>2. TokTypes'
  BY <1>1 DEF TokInv, TokTypes, Printed
<1>3. ASSUME NEW d \in Devices
      PROVE  DeviceOK(tokens[d], sync[d])'
  BY <1>1 DEF TokInv, DeviceOK, Bounded, Sound, OneAdd, DelFollows
<1> QED BY <1>2, <1>3 DEF TokInv

LEMMA NewQrTok ==
  ASSUME Handshakes, TokInv, NEW d \in Devices, NEW q \in Qrs, Join!NewQr(d, q)
  PROVE  /\ TokInv'
         /\ \A x \in Qrs : code'[x] # None <=> code[x] # None \/ x = q
         /\ \A x \in Qrs : (\E e \in Devices : Join!Exists(e, "auth", x)') <=>
                           (\E e \in Devices : Join!Exists(e, "auth", x)) \/ x = q
<1>1. PICK inv, tab :
         /\ inv = IF Join!Lookup(tokens[d], "inv", q) = None THEN q ELSE Join!Lookup(tokens[d], "inv", q)
         /\ tab = Join!Save(Join!Save(tokens[d], "inv", inv, now), "auth", q, now)
         /\ code' = [code EXCEPT ![q] = inv] /\ tokens' = [tokens EXCEPT ![d] = tab]
         /\ Join!SyncTokens(d, tab, q) /\ code[q] = None /\ UNCHANGED <<now, gone, revived>>
  BY DEF Join!NewQr
<1>2. tokens \in [Devices -> SUBSET Join!Row] /\ code \in [Qrs -> Qrs \union {None}] /\ now \in 0..JoinUntil
  BY DEF TokInv, TokTypes
<1>3. inv \in Qrs /\ inv # None
  <2>1. Join!Lookup(tokens[d], "inv", q) # None => Join!Lookup(tokens[d], "inv", q) \in Qrs
    BY <1>2, LookupRow DEF Join!Row
  <2> QED BY <1>1, <2>1 DEF Handshakes
<1>4. ~Join!Exists(d, "auth", q)
  BY <1>1 DEF TokInv, DeviceOK, Sound, Join!Exists
<1>5. /\ tab \in SUBSET Join!Row /\ Bounded(tab) /\ tokens[d] \subseteq tab
      /\ \A r \in tab \ tokens[d] : r.ts = now /\ (r.ns = "auth" => r.of = q)
      /\ Join!Lookup(tab, "auth", q) = q
      /\ Join!Lookup(tab, "inv", q) \in Qrs \union {None}
  BY <1>1, <1>3, <1>4, NewTokens
<1>6. \/ UNCHANGED sync
      \/ \E it \in Join!Item : IsAdd(it, q) /\ it.ts = now /\ Join!SyncToOthers(d, it)
  BY <1>1, <1>5, NewItem
<1>7. /\ code' \in [Qrs -> Qrs \union {None}] /\ code'[q] # None
      /\ \A x \in Qrs : code'[x] # None <=> code[x] # None \/ x = q
  BY <1>1, <1>2, <1>3
<1>8. TokInv'
  BY <1>1, <1>5, <1>6, <1>7, CodeStep
<1>9. \E r \in tab : r.ns = "auth" /\ r.of = q
  <2>1. Join!Lookup(tab, "auth", q) # None
    BY <1>5 DEF Handshakes
  <2> QED BY <1>5, <2>1, LookupRow
<1>10. ASSUME NEW x \in Qrs
       PROVE  (\E e \in Devices : Join!Exists(e, "auth", x)') <=>
              (\E e \in Devices : Join!Exists(e, "auth", x)) \/ x = q
  <2>1. \A e \in Devices : tokens'[e] = IF e = d THEN tab ELSE tokens[e]
    BY <1>1, <1>2
  <2>2. ASSUME NEW e \in Devices, Join!Exists(e, "auth", x)'
        PROVE  Join!Exists(e, "auth", x) \/ x = q
    BY <1>5, <2>1, <2>2 DEF Join!Exists
  <2>3. ASSUME NEW e \in Devices, Join!Exists(e, "auth", x)
        PROVE  Join!Exists(e, "auth", x)'
    BY <1>5, <2>1, <2>3 DEF Join!Exists
  <2>4. x = q => Join!Exists(d, "auth", x)'
    BY <1>9, <2>1 DEF Join!Exists
  <2> QED BY <2>2, <2>3, <2>4
<1> QED BY <1>7, <1>8, <1>10

LEMMA ReviveTok ==
  ASSUME Handshakes, TokInv, NEW d \in Devices, NEW q \in Qrs, Join!Revive(d, q)
  PROVE  TokInv'
<1>1. PICK tab :
         /\ tab = Join!Save(Join!Save(tokens[d], "inv", code[q], now), "auth", q, now)
         /\ tokens' = [tokens EXCEPT ![d] = tab] /\ Join!SyncTokens(d, tab, q)
         /\ code[q] # None /\ ~Join!Exists(d, "auth", q) /\ UNCHANGED <<now, code, gone>>
         /\ revived' = revived \union {q}
  BY DEF Join!Revive
<1>2. code \in [Qrs -> Qrs \union {None}]
  BY DEF TokInv, TokTypes
<1>3. /\ tab \in SUBSET Join!Row /\ Bounded(tab) /\ tokens[d] \subseteq tab
      /\ \A r \in tab \ tokens[d] : r.ts = now /\ (r.ns = "auth" => r.of = q)
      /\ Join!Lookup(tab, "auth", q) = q
      /\ Join!Lookup(tab, "inv", q) \in Qrs \union {None}
  <2>1. code[q] \in Qrs
    BY <1>1, <1>2
  <2> QED BY <1>1, <2>1, NewTokens
<1>4. \/ UNCHANGED sync
      \/ \E it \in Join!Item : IsAdd(it, q) /\ it.ts = now /\ Join!SyncToOthers(d, it)
  BY <1>1, <1>3, NewItem
<1>5. code' \in [Qrs -> Qrs \union {None}] /\ code'[q] # None
  BY <1>1, <1>2
<1> QED BY <1>1, <1>3, <1>4, <1>5, CodeStep

-----------------------------------------------------------------------------
(* The handshake: auth tokens are sent for scanned codes only, scanned codes  *)
(* are printed ones, and Bob is told to be in where Alice let him in.         *)
HandTypes ==
  /\ verified \in [Devices -> BOOLEAN] /\ blocked \in [Devices -> BOOLEAN]
  /\ member \in [Devices -> SUBSET Join!Keys]
  /\ mail \in [Join!ToAlice \X Qrs -> SUBSET Devices] /\ doomed \subseteq Join!ToAlice \X Qrs
  /\ selfSent \in [Devices -> SUBSET (Join!ToBob \X Qrs)] /\ inbox \subseteq Join!ToBob \X Qrs
  /\ bobstate \subseteq Qrs /\ asked \subseteq Qrs
  /\ joined \subseteq Join!Keys /\ admitted \subseteq Join!Keys

AuthIsAsked == \A q \in Qrs : mail[<<"request-with-auth", q>>] # {} => q \in asked
Confirmed == \A m \in inbox : m[1] \in {"contact-confirm", "member-added"} => Fk[m[2]] \in admitted
HandInv == HandTypes /\ AuthIsAsked /\ bobstate \subseteq asked /\ asked \subseteq Printed /\ Confirmed

JoinInv == TokInv /\ HandInv

LEMMA InitHand ==
  ASSUME Join!Init
  PROVE  HandInv
BY DEF Join!Init, HandInv, HandTypes, AuthIsAsked, Confirmed, Printed, Join!ToAlice

(* Steps on the tokens leave the handshake alone. *)
LEMMA SameHand ==
  ASSUME HandInv, UNCHANGED <<Join!aliceVars, Join!mailVars, Join!bobVars>>, Printed \subseteq Printed'
  PROVE  HandInv'
<1>1. /\ verified' = verified /\ blocked' = blocked /\ member' = member /\ mail' = mail
      /\ doomed' = doomed /\ selfSent' = selfSent /\ inbox' = inbox /\ bobstate' = bobstate
      /\ asked' = asked /\ joined' = joined /\ admitted' = admitted
  BY DEF Join!aliceVars, Join!mailVars, Join!bobVars
<1> QED BY <1>1 DEF HandInv, HandTypes, AuthIsAsked, Confirmed

(* How the steps look from outside. *)
Outside == <<tokens, code, asked, admitted, joined>>

LEMMA Quiet ==
  ASSUME UNCHANGED Outside
  PROVE  UNCHANGED Join!Inv!aVars
BY DEF Outside, Join!Inv!aVars, Join!Exists

LEMMA HonouredIsPrinted ==
  ASSUME TokInv, NEW q \in Qrs, NEW d \in Devices, Join!Exists(d, "auth", q)
  PROVE  code[q] # None
BY DEF TokInv, DeviceOK, Sound, Join!Exists

LEMMA Reconsidered ==
  ASSUME TokInv', UNCHANGED <<code, asked, admitted, joined>>
  PROVE  Join!Inv!Reconsider
<1>1. \A q \in Qrs, d \in Devices : Join!Exists(d, "auth", q)' => code'[q] # None
  BY DEF TokInv, DeviceOK, Sound, Join!Exists
<1> QED BY <1>1 DEF Join!Inv!Reconsider

(* Steps that touch neither the tokens nor what is seen from outside, but for *)
(* the mail.                                                                  *)
LEMMA ThroughMail ==
  ASSUME HandInv, NEW d \in Devices, NEW m \in Join!ToAlice \X Qrs, NEW done \in BOOLEAN,
         NEW again \in BOOLEAN, Join!Through(d, m, done, again)
  PROVE  /\ mail' \in [Join!ToAlice \X Qrs -> SUBSET Devices] /\ doomed' \subseteq Join!ToAlice \X Qrs
         /\ \A n \in Join!ToAlice \X Qrs : mail'[n] \subseteq mail[n]
BY DEF HandInv, HandTypes, Join!Through, Join!mailVars

LEMMA PostMail ==
  ASSUME HandInv, NEW step \in Join!ToAlice, NEW q \in Qrs, Join!Post(step, q)
  PROVE  /\ mail' \in [Join!ToAlice \X Qrs -> SUBSET Devices]
         /\ \A n \in Join!ToAlice \X Qrs : n # <<step, q>> => mail'[n] = mail[n]
BY DEF HandInv, HandTypes, Join!Post

(* The actions of the handshake. *)
LEMMA ScanStep ==
  ASSUME HandInv, NEW q \in Qrs, Join!Scan(q)
  PROVE  HandInv' /\ UNCHANGED <<now, Join!tokenVars>> /\ Join!Inv!Present(q)
<1>1. /\ code[q] # None /\ asked' = asked \union {q} /\ UNCHANGED <<now, Join!tokenVars, Join!aliceVars>>
      /\ UNCHANGED <<doomed, inbox, bobKey, joined>>
      /\ \/ UNCHANGED <<mail, bobstate>>
         \/ Join!Post("request-with-auth", q) /\ UNCHANGED bobstate
         \/ Join!Post(Join!FirstStep(q), q) /\ bobstate' = bobstate \union {q}
  BY DEF Join!Scan
<1>2. code' = code /\ tokens' = tokens /\ admitted' = admitted /\ joined' = joined
  BY <1>1 DEF Join!tokenVars, Join!aliceVars
<1>3. Join!FirstStep(q) \in Join!ToAlice /\ "request-with-auth" \in Join!ToAlice
      /\ Join!FirstStep(q) # "request-with-auth"
  BY DEF Join!FirstStep, Join!ToAlice
<1>4. /\ mail' \in [Join!ToAlice \X Qrs -> SUBSET Devices]
      /\ \A n \in Join!ToAlice \X Qrs : n[2] # q => mail'[n] = mail[n]
  BY <1>1, <1>3, PostMail DEF HandInv, HandTypes
<1>5. bobstate' \subseteq bobstate \union {q}
  BY <1>1
<1>6. AuthIsAsked'
  BY <1>1, <1>3, <1>4 DEF HandInv, AuthIsAsked
<1>7. HandTypes'
  BY <1>1, <1>4, <1>5 DEF HandInv, HandTypes, Join!aliceVars
<1>8. HandInv'
  BY <1>1, <1>2, <1>5, <1>6, <1>7 DEF HandInv, Confirmed, Printed
<1>9. Join!Inv!Present(q)
  BY <1>1, <1>2 DEF Join!Inv!Present, Join!Exists
<1> QED BY <1>1, <1>8, <1>9

LEMMA BobGetsKeyStep ==
  ASSUME HandInv, NEW m \in inbox, Join!BobGetsKey(m) \/ Join!BobGetsKeyInterrupted(m)
  PROVE  HandInv' /\ UNCHANGED <<now, Join!tokenVars>> /\ UNCHANGED Outside
<1>1. /\ UNCHANGED <<now, Join!tokenVars, Join!aliceVars, doomed, asked, joined>>
      /\ bobstate' \subseteq bobstate /\ inbox' \subseteq inbox
      /\ mail' = [n \in DOMAIN mail |-> IF n[1] = "request-with-auth" /\ n[2] \in bobstate
                                        THEN Devices ELSE mail[n]]
  BY DEF Join!BobGetsKey, Join!BobGetsKeyInterrupted
<1>2. code' = code /\ tokens' = tokens /\ admitted' = admitted /\ verified' = verified
      /\ blocked' = blocked /\ member' = member /\ selfSent' = selfSent
  BY <1>1 DEF Join!tokenVars, Join!aliceVars
<1>3. mail' \in [Join!ToAlice \X Qrs -> SUBSET Devices]
  BY <1>1 DEF HandInv, HandTypes
<1>4. AuthIsAsked'
  <2> SUFFICES ASSUME NEW q \in Qrs, mail'[<<"request-with-auth", q>>] # {}
               PROVE  q \in asked
    BY <1>1 DEF AuthIsAsked
  <2>1. <<"request-with-auth", q>> \in Join!ToAlice \X Qrs
    BY DEF Join!ToAlice
  <2>2. q \in bobstate \/ mail[<<"request-with-auth", q>>] # {}
    BY <1>1, <2>1 DEF HandInv, HandTypes
  <2> QED BY <2>2 DEF HandInv, AuthIsAsked
<1>5. HandTypes'
  BY <1>1, <1>2, <1>3 DEF HandInv, HandTypes
<1>6. HandInv'
  BY <1>1, <1>2, <1>4, <1>5 DEF HandInv, Confirmed, Printed
<1> QED BY <1>1, <1>2, <1>6 DEF Outside

LEMMA BobSucceedsStep ==
  ASSUME HandInv, NEW m \in inbox, Join!BobSucceeds(m)
  PROVE  HandInv' /\ UNCHANGED <<now, Join!tokenVars>> /\ \E p \in admitted : Join!Inv!Enter(p)
<1>1. /\ m[1] \in {"contact-confirm", "member-added"} /\ joined' = joined \union {Fk[m[2]]}
      /\ inbox' \subseteq inbox
      /\ UNCHANGED <<now, Join!tokenVars, Join!aliceVars, Join!mailVars, bobstate, bobKey, asked>>
  BY DEF Join!BobSucceeds
<1>2. /\ code' = code /\ tokens' = tokens /\ admitted' = admitted /\ verified' = verified
      /\ blocked' = blocked /\ member' = member /\ selfSent' = selfSent /\ mail' = mail
      /\ doomed' = doomed
  BY <1>1 DEF Join!tokenVars, Join!aliceVars, Join!mailVars
<1>3. Fk[m[2]] \in admitted
  BY <1>1 DEF HandInv, Confirmed
<1>4. HandTypes'
  BY <1>1, <1>2, <1>3 DEF HandInv, HandTypes
<1>5. HandInv'
  BY <1>1, <1>2, <1>4 DEF HandInv, Confirmed, Printed, AuthIsAsked
<1>6. Join!Inv!Enter(Fk[m[2]])
  BY <1>1, <1>2, <1>3 DEF Join!Inv!Enter, Join!Exists
<1> QED BY <1>1, <1>3, <1>5, <1>6

LEMMA RequestStep ==
  ASSUME HandInv, NEW d \in Devices, NEW q \in Qrs, NEW again \in BOOLEAN,
         Join!HandleRequest(d, q, again) \/ Join!HandleRequestPubkey(d, q, again)
  PROVE  HandInv' /\ UNCHANGED <<now, Join!tokenVars>> /\ UNCHANGED Outside
<1>1. PICK step \in {"request", "request-pubkey"}, answer \in {"auth-required", "pubkey"},
           ok \in BOOLEAN :
         /\ Join!Through(d, <<step, q>>, ok, again)
         /\ inbox' \subseteq inbox \union {<<answer, q>>}
         /\ UNCHANGED <<now, Join!tokenVars, Join!aliceVars, bobstate, bobKey, asked, joined>>
  <2>1. CASE Join!HandleRequest(d, q, again)
    <3>1. Join!Exists(d, "inv", code[q]) \in BOOLEAN
      BY DEF Join!Exists
    <3> QED BY <2>1, <3>1 DEF Join!HandleRequest, Join!Reply
  <2>2. CASE Join!HandleRequestPubkey(d, q, again)
    <3>1. (Join!Exists(d, "auth", q) /\ ~blocked[d]) \in BOOLEAN
      BY DEF Join!Exists
    <3> QED BY <2>2, <3>1 DEF Join!HandleRequestPubkey, Join!Reply
  <2> QED BY <2>1, <2>2
<1>2. /\ code' = code /\ tokens' = tokens /\ admitted' = admitted /\ verified' = verified
      /\ blocked' = blocked /\ member' = member /\ selfSent' = selfSent
  BY <1>1 DEF Join!tokenVars, Join!aliceVars
<1>3. /\ mail' \in [Join!ToAlice \X Qrs -> SUBSET Devices] /\ doomed' \subseteq Join!ToAlice \X Qrs
      /\ \A n \in Join!ToAlice \X Qrs : mail'[n] \subseteq mail[n]
  BY <1>1, ThroughMail DEF Join!ToAlice
<1>4. AuthIsAsked'
  BY <1>1, <1>3 DEF HandInv, AuthIsAsked, Join!ToAlice
<1>5. HandTypes'
  BY <1>1, <1>2, <1>3 DEF HandInv, HandTypes, Join!ToBob
<1>6. Confirmed'
  BY <1>1, <1>2 DEF HandInv, Confirmed
<1>7. HandInv'
  BY <1>1, <1>2, <1>4, <1>5, <1>6 DEF HandInv, Printed
<1> QED BY <1>1, <1>2, <1>7 DEF Outside

LEMMA RefuseStep ==
  ASSUME HandInv, NEW d \in Devices, NEW q \in Qrs, Join!RefuseAuth(d, q)
  PROVE  HandInv' /\ UNCHANGED <<now, Join!tokenVars>> /\ UNCHANGED Outside
<1>1. /\ Join!Through(d, <<"request-with-auth", q>>, FALSE, FALSE)
      /\ UNCHANGED <<now, Join!tokenVars, Join!aliceVars, Join!bobVars>>
  BY DEF Join!RefuseAuth
<1>2. /\ code' = code /\ tokens' = tokens /\ admitted' = admitted /\ verified' = verified
      /\ blocked' = blocked /\ member' = member /\ selfSent' = selfSent
      /\ inbox' = inbox /\ bobstate' = bobstate /\ asked' = asked /\ joined' = joined
  BY <1>1 DEF Join!tokenVars, Join!aliceVars, Join!bobVars
<1>3. /\ mail' \in [Join!ToAlice \X Qrs -> SUBSET Devices] /\ doomed' \subseteq Join!ToAlice \X Qrs
      /\ \A n \in Join!ToAlice \X Qrs : mail'[n] \subseteq mail[n]
  BY <1>1, ThroughMail DEF Join!ToAlice
<1>4. AuthIsAsked'
  BY <1>2, <1>3 DEF HandInv, AuthIsAsked, Join!ToAlice
<1>5. HandTypes'
  BY <1>2, <1>3 DEF HandInv, HandTypes
<1>6. HandInv'
  BY <1>2, <1>4, <1>5 DEF HandInv, Confirmed, Printed
<1> QED BY <1>1, <1>2, <1>6 DEF Outside

LEMMA AcceptStep ==
  ASSUME HandInv, NEW d \in Devices, NEW q \in Qrs, NEW again \in BOOLEAN, Join!AcceptAuth(d, q, again)
  PROVE  HandInv' /\ UNCHANGED <<now, Join!tokenVars>> /\ (Join!Inv!LetIn(q) \/ UNCHANGED Outside)
<1> DEFINE step == IF Fk[q] # "" THEN "member-added" ELSE "contact-confirm"
           m == <<"request-with-auth", q>>
<1>1. /\ d \in mail[m] /\ Join!AuthValid(d, q)
      /\ verified' = [verified EXCEPT ![d] = @ \/ Join!NotExpired(d, q)]
      /\ UNCHANGED <<now, Join!tokenVars, blocked, bobstate, bobKey, asked, joined>>
  BY DEF Join!AcceptAuth
<1>2. code' = code /\ tokens' = tokens /\ m \in Join!ToAlice \X Qrs /\ Fk[q] \in Join!Keys
      /\ step \in Join!ToBob /\ Join!NotExpired(d, q) \in BOOLEAN
  BY <1>1 DEF Join!tokenVars, Join!ToAlice, Join!ToBob, Join!Keys, Join!NotExpired
<1>3. verified' \in [Devices -> BOOLEAN]
  BY <1>1, <1>2 DEF HandInv, HandTypes
<1>4. q \in asked
  BY <1>1 DEF HandInv, AuthIsAsked
<1>5. CASE blocked[d]
  <2>1. Join!Through(d, m, FALSE, again) /\ UNCHANGED <<member, selfSent, admitted, inbox>>
    BY <1>5 DEF Join!AcceptAuth
  <2>2. /\ mail' \in [Join!ToAlice \X Qrs -> SUBSET Devices] /\ doomed' \subseteq Join!ToAlice \X Qrs
        /\ \A n \in Join!ToAlice \X Qrs : mail'[n] \subseteq mail[n]
    BY <1>2, <2>1, ThroughMail
  <2>3. AuthIsAsked'
    BY <1>1, <2>2 DEF HandInv, AuthIsAsked, Join!ToAlice
  <2>4. HandTypes'
    BY <1>1, <1>3, <2>1, <2>2 DEF HandInv, HandTypes
  <2>5. HandInv'
    BY <1>1, <1>2, <2>1, <2>3, <2>4 DEF HandInv, Confirmed, Printed
  <2> QED BY <1>1, <1>2, <2>1, <2>5 DEF Outside
<1>6. CASE ~blocked[d]
  <2>1. /\ member' = [member EXCEPT ![d] = IF Fk[q] # "" THEN @ \union {Fk[q]} ELSE @]
        /\ admitted' = admitted \union {Fk[q]}
        /\ inbox' = inbox \union {<<step, q>>}
        /\ selfSent' = [e \in Devices |-> IF e = d THEN selfSent[e] ELSE selfSent[e] \union {<<step, q>>}]
        /\ Join!Through(d, m, Fk[q] # "", again)
    BY <1>6 DEF Join!AcceptAuth, Join!Reply
  <2>2. /\ mail' \in [Join!ToAlice \X Qrs -> SUBSET Devices] /\ doomed' \subseteq Join!ToAlice \X Qrs
        /\ \A n \in Join!ToAlice \X Qrs : mail'[n] \subseteq mail[n]
    BY <1>2, <2>1, ThroughMail
  <2>3. AuthIsAsked'
    BY <1>1, <2>2 DEF HandInv, AuthIsAsked, Join!ToAlice
  <2> HIDE DEF step
  <2>4. member' \in [Devices -> SUBSET Join!Keys]
    BY <1>2, <2>1 DEF HandInv, HandTypes
  <2>5. selfSent' \in [Devices -> SUBSET (Join!ToBob \X Qrs)] /\ inbox' \subseteq Join!ToBob \X Qrs
    <3>1. PICK x \in Join!ToBob \X Qrs : x = <<step, q>>
      BY <1>2
    <3>2. \A e \in Devices : selfSent[e] \union {x} \in SUBSET (Join!ToBob \X Qrs)
      BY DEF HandInv, HandTypes
    <3>3. selfSent' = [e \in Devices |-> IF e = d THEN selfSent[e] ELSE selfSent[e] \union {x}]
          /\ inbox' = inbox \union {x}
      BY <2>1, <3>1
    <3> QED BY <3>2, <3>3 DEF HandInv, HandTypes
  <2>6. HandTypes'
    BY <1>1, <1>2, <1>3, <2>1, <2>2, <2>4, <2>5 DEF HandInv, HandTypes
  <2>7. Confirmed'
    <3>1. <<step, q>>[2] = q
      OBVIOUS
    <3>2. \A x \in inbox' : x \in inbox \/ x[2] = q
      BY <2>1, <3>1
    <3> QED BY <2>1, <3>2 DEF HandInv, Confirmed
  <2>8. HandInv'
    BY <1>1, <1>2, <2>3, <2>6, <2>7 DEF HandInv, Printed
  <2>9. Join!Inv!LetIn(q)
    BY <1>1, <1>2, <1>4, <2>1 DEF Join!Inv!LetIn, Join!Exists, Join!AuthValid
  <2> QED BY <1>1, <2>8, <2>9
<1> QED BY <1>5, <1>6

LEMMA AsideStep ==
  ASSUME HandInv,
         \/ \E d \in Devices : Join!Block(d) \/ \E m \in selfSent[d] : Join!Observe(d, m)
         \/ \E m \in inbox : Join!LoseToBob(m)
         \/ \E m \in Join!ToAlice \X Qrs : Join!Expunge(m) \/ Join!LoseToAlice(m)
  PROVE  HandInv' /\ UNCHANGED <<now, Join!tokenVars>> /\ UNCHANGED Outside
<1>1. UNCHANGED <<now, Join!tokenVars, admitted, bobstate, asked, joined>> /\ inbox' \subseteq inbox
  BY DEF Join!Block, Join!Observe, Join!LoseToBob, Join!Expunge, Join!LoseToAlice, Join!bobVars, Join!mailVars, Join!aliceVars
<1>2. /\ mail' \in [Join!ToAlice \X Qrs -> SUBSET Devices] /\ doomed' \subseteq Join!ToAlice \X Qrs
      /\ \A n \in Join!ToAlice \X Qrs : mail'[n] \subseteq mail[n]
  BY DEF HandInv, HandTypes, Join!Block, Join!Observe, Join!LoseToBob, Join!Expunge, Join!LoseToAlice, Join!mailVars
<1>3. /\ verified' \in [Devices -> BOOLEAN] /\ blocked' \in [Devices -> BOOLEAN]
      /\ member' \in [Devices -> SUBSET Join!Keys] /\ selfSent' \in [Devices -> SUBSET (Join!ToBob \X Qrs)]
  <2>1. CASE \E d \in Devices : Join!Block(d)
    BY <2>1 DEF HandInv, HandTypes, Join!Block
  <2>2. ASSUME NEW d \in Devices, NEW m \in selfSent[d], Join!Observe(d, m)
        PROVE  /\ verified' \in [Devices -> BOOLEAN] /\ blocked' \in [Devices -> BOOLEAN]
               /\ member' \in [Devices -> SUBSET Join!Keys]
               /\ selfSent' \in [Devices -> SUBSET (Join!ToBob \X Qrs)]
    <3>1. m \in Join!ToBob \X Qrs
      BY DEF HandInv, HandTypes
    <3>2. Fk[m[2]] \in Join!Keys
      BY <3>1 DEF Join!Keys
    <3> QED BY <2>2, <3>2 DEF HandInv, HandTypes, Join!Observe
  <2>3. CASE \E m \in inbox : Join!LoseToBob(m)
    BY <2>3 DEF HandInv, HandTypes, Join!LoseToBob, Join!aliceVars
  <2>4. CASE \E m \in Join!ToAlice \X Qrs : Join!Expunge(m) \/ Join!LoseToAlice(m)
    BY <2>4 DEF HandInv, HandTypes, Join!Expunge, Join!LoseToAlice, Join!aliceVars
  <2> QED BY <2>1, <2>2, <2>3, <2>4
<1>4. code' = code /\ tokens' = tokens
  BY <1>1 DEF Join!tokenVars
<1>5. AuthIsAsked'
  BY <1>1, <1>2 DEF HandInv, AuthIsAsked, Join!ToAlice
<1>6. HandTypes'
  BY <1>1, <1>2, <1>3 DEF HandInv, HandTypes
<1>7. HandInv'
  BY <1>1, <1>4, <1>5, <1>6 DEF HandInv, Confirmed, Printed
<1> QED BY <1>1, <1>4, <1>7 DEF Outside

LEMMA JoinStep ==
  ASSUME Handshakes, JoinInv, [Join!Next]_(Join!vars)
  PROVE  JoinInv' /\ [Join!Inv!ANext]_(Join!Inv!aVars)
<1> USE DEF JoinInv
<1>1. ASSUME NEW d \in Devices, NEW q \in Qrs, Join!NewQr(d, q)
      PROVE  JoinInv' /\ Join!Inv!ANext
  <2>1. /\ TokInv'
        /\ \A x \in Qrs : code'[x] # None <=> code[x] # None \/ x = q
        /\ \A x \in Qrs : (\E e \in Devices : Join!Exists(e, "auth", x)') <=>
                          (\E e \in Devices : Join!Exists(e, "auth", x)) \/ x = q
    BY <1>1, NewQrTok
  <2>2. UNCHANGED <<Join!aliceVars, Join!mailVars, Join!bobVars>> /\ code[q] = None
    BY <1>1 DEF Join!NewQr
  <2>3. UNCHANGED <<asked, admitted, joined>>
    BY <2>2 DEF Join!aliceVars, Join!bobVars
  <2>4. Printed \subseteq Printed'
    BY <2>1 DEF Printed
  <2>5. {x \in Qrs : code'[x] # None} = {x \in Qrs : code[x] # None} \union {q}
    BY <2>1
  <2>6. {x \in Qrs : \E e \in Devices : Join!Exists(e, "auth", x)'}
        = {x \in Qrs : \E e \in Devices : Join!Exists(e, "auth", x)} \union {q}
    BY <2>1
  <2>7. Join!Inv!Issue(q)
    BY <2>2, <2>3, <2>5, <2>6 DEF Join!Inv!Issue
  <2> QED BY <2>1, <2>2, <2>4, <2>7, SameHand DEF Join!Inv!ANext
<1>2. ASSUME NEW d \in Devices, NEW q \in Qrs, Join!Withdraw(d, q) \/ Join!Revive(d, q) \/ Join!ExecuteSync(d)
      PROVE  JoinInv' /\ Join!Inv!ANext
  <2>1. TokInv'
    BY <1>2, WithdrawTok, ReviveTok, ExecuteSyncTok
  <2>2. UNCHANGED <<Join!aliceVars, Join!mailVars, Join!bobVars>> /\ code' = code
    BY <1>2 DEF Join!Withdraw, Join!Revive, Join!ExecuteSync
  <2>3. UNCHANGED <<asked, admitted, joined>> /\ Printed \subseteq Printed'
    BY <2>2 DEF Join!aliceVars, Join!bobVars, Printed
  <2>4. Join!Inv!Reconsider
    BY <2>1, <2>2, <2>3, Reconsidered
  <2> QED BY <2>1, <2>2, <2>3, <2>4, SameHand DEF Join!Inv!ANext
<1>3. ASSUME NEW d \in Devices, Join!ExecuteSync(d)
      PROVE  JoinInv' /\ Join!Inv!ANext
  <2>1. TokInv'
    BY <1>3, ExecuteSyncTok
  <2>2. UNCHANGED <<Join!aliceVars, Join!mailVars, Join!bobVars>> /\ code' = code
    BY <1>3 DEF Join!ExecuteSync
  <2>3. UNCHANGED <<asked, admitted, joined>> /\ Printed \subseteq Printed'
    BY <2>2 DEF Join!aliceVars, Join!bobVars, Printed
  <2>4. Join!Inv!Reconsider
    BY <2>1, <2>2, <2>3, Reconsidered
  <2> QED BY <2>1, <2>2, <2>3, <2>4, SameHand DEF Join!Inv!ANext
<1>4. ASSUME Join!Tick
      PROVE  JoinInv' /\ UNCHANGED Join!Inv!aVars
  <2>1. UNCHANGED <<Join!tokenVars, Join!aliceVars, Join!mailVars, Join!bobVars>>
    BY <1>4 DEF Join!Tick
  <2>2. UNCHANGED Outside /\ Printed \subseteq Printed'
    BY <2>1 DEF Join!tokenVars, Join!aliceVars, Join!bobVars, Outside, Printed
  <2> QED BY <1>4, <2>1, <2>2, TickTok, SameHand, Quiet
<1>5. ASSUME NEW q \in Qrs, Join!Scan(q)
      PROVE  JoinInv' /\ Join!Inv!ANext
  BY <1>5, ScanStep, SameTok DEF Join!Inv!ANext
<1>6. ASSUME NEW m \in inbox, Join!BobGetsKey(m) \/ Join!BobGetsKeyInterrupted(m)
      PROVE  JoinInv' /\ UNCHANGED Join!Inv!aVars
  BY <1>6, BobGetsKeyStep, SameTok, Quiet
<1>7. ASSUME NEW m \in inbox, Join!BobSucceeds(m)
      PROVE  JoinInv' /\ Join!Inv!ANext
  BY <1>7, BobSucceedsStep, SameTok DEF Join!Inv!ANext
<1>8. ASSUME NEW d \in Devices, NEW q \in Qrs, NEW again \in BOOLEAN,
             Join!HandleRequest(d, q, again) \/ Join!HandleRequestPubkey(d, q, again)
      PROVE  JoinInv' /\ UNCHANGED Join!Inv!aVars
  BY <1>8, RequestStep, SameTok, Quiet
<1>9. ASSUME NEW d \in Devices, NEW q \in Qrs, Join!RefuseAuth(d, q)
      PROVE  JoinInv' /\ UNCHANGED Join!Inv!aVars
  BY <1>9, RefuseStep, SameTok, Quiet
<1>10. ASSUME NEW d \in Devices, NEW q \in Qrs, NEW again \in BOOLEAN, Join!AcceptAuth(d, q, again)
       PROVE  JoinInv' /\ [Join!Inv!ANext]_(Join!Inv!aVars)
  <2>1. HandInv' /\ UNCHANGED <<now, Join!tokenVars>> /\ (Join!Inv!LetIn(q) \/ UNCHANGED Outside)
    BY <1>10, AcceptStep
  <2> QED BY <2>1, SameTok, Quiet DEF Join!Inv!ANext
<1>11. ASSUME \/ \E d \in Devices : Join!Block(d) \/ \E m \in selfSent[d] : Join!Observe(d, m)
              \/ \E m \in inbox : Join!LoseToBob(m)
              \/ \E m \in Join!ToAlice \X Qrs : Join!Expunge(m) \/ Join!LoseToAlice(m)
       PROVE  JoinInv' /\ UNCHANGED Join!Inv!aVars
  BY <1>11, AsideStep, SameTok, Quiet
<1>12. CASE UNCHANGED Join!vars
  <2>1. UNCHANGED <<now, Join!tokenVars, Join!aliceVars, Join!mailVars, Join!bobVars>>
    BY <1>12 DEF Join!vars
  <2>2. UNCHANGED Outside /\ Printed \subseteq Printed'
    BY <2>1 DEF Join!tokenVars, Join!aliceVars, Join!bobVars, Outside, Printed
  <2> QED BY <2>1, <2>2, SameTok, SameHand, Quiet
<1>13. CASE Join!Next
  BY <1>1, <1>2, <1>3, <1>4, <1>5, <1>6, <1>7, <1>8, <1>9, <1>10, <1>11, <1>13 DEF Join!Next
<1> QED BY <1>12, <1>13

LEMMA JoinInvariant == ASSUME Handshakes PROVE Handshaking => []JoinInv
<1>1. Join!Init => JoinInv
  BY InitTok, InitHand DEF JoinInv
<1>2. JoinInv /\ [Join!Next]_(Join!vars) => JoinInv'
  BY JoinStep
<1> QED BY <1>1, <1>2, PTL DEF Handshaking

(* The tables, the mailboxes and the states of the handshake keep their       *)
(* types.                                                                     *)
THEOREM JoinTypes == ASSUME Handshakes PROVE Handshaking => []Join!TypeOK
<1>1. JoinInv => Join!TypeOK
  BY DEF JoinInv, TokInv, TokTypes, HandInv, HandTypes, Join!TypeOK
<1> QED BY <1>1, JoinInvariant, PTL

(* The handshake of securejoin.rs and bob.rs implements Invitation: whatever  *)
(* is lost, repeated or interrupted, and whatever codes Alice's devices make, *)
(* withdraw, revive and exchange meanwhile, Bob is let in only with a scanned *)
(* code whose auth token a device honours then, and believes to be in only    *)
(* where he was let in.                                                       *)
THEOREM InvitationIsKept == ASSUME Handshakes PROVE Handshaking => Join!ImplementsInvitation
<1>1. Join!Init => Join!Inv!AInit
  BY DEF Join!Init, Join!Inv!AInit, Join!Exists
<1>2. JoinInv /\ [Join!Next]_(Join!vars) => [Join!Inv!ANext]_(Join!Inv!aVars)
  BY JoinStep
<1> QED BY <1>1, <1>2, JoinInvariant, PTL DEF Handshaking, Join!ImplementsInvitation, Join!Inv!ASpec

(* A code that was withdrawn on one device and never revived is honoured by   *)
(* no device once the sync items are executed (sync_qr_code_token_deletion),  *)
(* in whatever order the devices execute theirs.                              *)
THEOREM WithdrawnIsGone == ASSUME Handshakes PROVE Handshaking => []Join!WithdrawnGone
<1>1. JoinInv => Join!WithdrawnGone
  <2> SUFFICES ASSUME JoinInv, \A d \in Devices : sync[d] = <<>>,
                      NEW d \in Devices, NEW q \in gone \ revived, Join!Exists(d, "auth", q)
               PROVE  FALSE
    BY DEF Join!WithdrawnGone
  <2>1. PICK r \in tokens[d] : IsAuth(r, q)
    BY DEF Join!Exists, IsAuth
  <2>2. \E j \in 1..Len(sync[d]) : IsDel(sync[d][j], q)
    BY <2>1 DEF JoinInv, TokInv, DeviceOK, DelFollows
  <2>3. Len(sync[d]) = 0
    BY EmptySeq
  <2> QED BY <2>2, <2>3
<1> QED BY <1>1, JoinInvariant, PTL

-----------------------------------------------------------------------------
(* The parts next to each other: whatever `part' is, each behaves as its own  *)
(* specification allows.                                                      *)

LEMMA IncomingParts == IncomingSpec => Updates!Spec /\ Timer!Spec /\ StaleGroup!Spec /\ Handshaking
<1>1. IncomingInit => Updates!Init /\ Timer!Init /\ StaleGroup!Init /\ Join!Init BY DEF IncomingInit
<1>2. [IncomingNext]_<<part, vars, joinVars, updatesVars, timerVars, groupVars>> =>
        /\ [Updates!Next]_(Updates!vars) /\ [Timer!Next]_(Timer!vars)
        /\ [StaleGroup!Next]_(StaleGroup!vars) /\ [Join!Next]_(Join!vars)
  <2>1. /\ UNCHANGED updatesVars => UNCHANGED Updates!vars
        /\ UNCHANGED timerVars => UNCHANGED Timer!vars
        /\ UNCHANGED groupVars => UNCHANGED StaleGroup!vars
    BY DEF updatesVars, Updates!vars, timerVars, Timer!vars, groupVars, StaleGroup!vars
  <2>2. UNCHANGED joinVars => UNCHANGED Join!vars
    BY DEF joinVars, Join!vars, Join!tokenVars, Join!aliceVars, Join!mailVars, Join!bobVars
  <2> QED BY <2>1, <2>2 DEF IncomingNext
<1> QED BY <1>1, <1>2, PTL
        DEF IncomingSpec, Updates!Spec, Timer!Spec, StaleGroup!Spec, Handshaking

(* A message is shown once and whole until it is deleted (MessageUpdates). *)
THEOREM MessagesAreShown == ASSUME Arrival PROVE IncomingSpec => []ShownAsSent
<1>1. Updates!ShownAsSent => ShownAsSent BY DEF ShownAsSent
<1> QED BY <1>1, IncomingParts, BubblesStayWhole, PTL

(* Members who have read everything have the same timer (EphemeralSetting). *)
THEOREM MembersAgree == ASSUME InTurn PROVE IncomingSpec => []TimersAgree
<1>1. Timer!TimersAgree => TimersAgree BY DEF TimersAgree
<1> QED BY <1>1, IncomingParts, TimersComeTogether, PTL

(* Nobody is let in but with a code that is honoured at that moment           *)
(* (Invitation).                                                              *)
THEOREM HandshakeInvites == ASSUME Handshakes PROVE IncomingSpec => ImplementsInvitation
BY IncomingParts, InvitationIsKept, PTL DEF ImplementsInvitation

(* Of a withdrawn code no token is left once the devices are in sync.         *)
THEOREM WithdrawnEverywhere == ASSUME Handshakes PROVE IncomingSpec => []WithdrawnGone
<1>1. Join!WithdrawnGone => WithdrawnGone BY DEF WithdrawnGone
<1> QED BY <1>1, IncomingParts, WithdrawnIsGone, PTL

(* The group is one of those that GroupMembershipProofs is about. *)
LEMMA GroupAllowed ==
    ASSUME Membership
    PROVE  /\ StaleGroup!IsFiniteSet(Users) /\ Creator \in Users /\ NoOne \notin Users
           /\ SameClocks \in [Users -> Nat]
           /\ 0 \in Nat /\ 1 \in Nat \ {0}
           /\ GroupUntil \in Nat \ {0} /\ MaxOps \in Nat /\ MaxInFlight \in Nat /\ MaxNet \in Nat
<1>1. StaleGroup!IsFiniteSet(Users) BY DEF Membership, IsFiniteSet, StaleGroup!IsFiniteSet
<1> QED BY <1>1 DEF Membership, SameClocks

(* What a member announces happens at whoever receives it, also if the        *)
(* receiver's list is stale (GroupMembership).                                *)
THEOREM AnnouncedToStaleLists == ASSUME Membership PROVE IncomingSpec => StaleChangeTakesEffect
<1>1. StaleGroup!Spec => StaleGroup!ChangeTakesEffect BY GroupAllowed, StaleGroup!AnnouncedHappens
<1> QED BY <1>1, IncomingParts, PTL DEF StaleChangeTakesEffect
=============================================================================

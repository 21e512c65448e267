------------------------ MODULE GroupMembershipProofs ------------------------
(***************************************************************************)
(* What the member lists of a group guarantee for any number of users, any *)
(* clocks and any order of delivery, as long as no list grows stale.       *)
(***************************************************************************)
EXTENDS GroupMembership, TLAPS

(* Within the time that is modelled no member list reaches the age at which *)
(* it is thrown away.                                                       *)
NeverStale == \A u \in Users : MaxTime + Skew[u] + Tolerance < StalePeriod

-----------------------------------------------------------------------------
(* The table. *)

(* The value of a row and of a timestamp stays one through every update. *)
LEMMA RowTypes ==
    ASSUME NEW row \in Row, NEW t \in Nat
    PROVE  /\ AddRow(row, t) \in Row /\ HeaderAdd(row, t) \in Row /\ HeaderRemove(row, t) \in Row
           /\ row # Absent => RemoveRow(row, t) \in Row
BY DEF AddRow, HeaderAdd, HeaderRemove, RemoveRow, Row, Absent, Larger

LEMMA RowInts == ASSUME NEW row \in Row PROVE row.add \in Int /\ row.rem \in Nat
BY DEF Row, Absent

(* A list from another device only ever moves a row forward. *)
LEMMA HeadersAdvance ==
    ASSUME NEW row \in Row, NEW t \in Nat
    PROVE  Advances(row, HeaderAdd(row, t)) /\ Advances(row, HeaderRemove(row, t))
BY DEF Advances, HeaderAdd, HeaderRemove, Row, Absent

(* Adding somebody who is no member moves the row forward and makes them one. *)
LEMMA AddAdvances ==
    ASSUME NEW row \in Row, NEW t \in Nat, ~IsMember(row)
    PROVE  Advances(row, AddRow(row, t)) /\ IsMember(AddRow(row, t))
BY DEF Advances, AddRow, IsMember, Row, Absent, Larger

(* Removing a member moves the row forward; whoever is removed is out. *)
LEMMA RemoveAdvances ==
    ASSUME NEW row \in Row, NEW t \in Nat, row # Absent
    PROVE  /\ ~IsMember(RemoveRow(row, t))
           /\ IsMember(row) => Advances(row, RemoveRow(row, t))
BY DEF Advances, RemoveRow, IsMember, Row, Absent, Larger

(* No update stamps an addition later than the timestamp it is given, or,     *)
(* for an addition by hand, than the removal it overtakes.                    *)
LEMMA HeaderAddBound ==
    ASSUME NEW row \in Row, NEW t \in Nat, NEW v \in Nat, row.add <= v
    PROVE  /\ t <= v => HeaderAdd(row, t).add <= v
           /\ HeaderRemove(row, t).add <= v
BY DEF HeaderAdd, HeaderRemove, Row, Absent

-----------------------------------------------------------------------------
(* The inductive invariant. *)

(* Nobody's list, and no list under way, dates a membership later than what   *)
(* is on record for it; every message carries timestamps and is for others.   *)
RowsInv == \A u, x \in Users : rows[u][x].add <= vouched[x]
NetInv ==
    \A p \in net :
       /\ p.msg.stamped = TRUE
       /\ p.to # p.msg.from
       /\ p.msg.sent <= vouched[p.msg.from]
       /\ \A x \in p.msg.to : p.msg.ts[x] <= vouched[x]
IInv == TypeOK /\ RowsInv /\ NetInv

(* What a fresh list and a message are made of. *)
LEMMA FreshInv ==
    ASSUME NeverStale, TypeOK, NEW u \in Users
    PROVE  /\ clock(u) \in Nat /\ clock(u) < StalePeriod
           /\ Stale(u) = FALSE
           /\ \A list \in Nat : StaleAt(clock(u), list) = FALSE
<1>1. clock(u) \in Nat /\ clock(u) + Tolerance < StalePeriod
  BY MembershipAssumption DEF NeverStale, TypeOK, clock
<1>2. \A list \in Nat : StaleAt(clock(u), list) = FALSE
  BY <1>1, MembershipAssumption DEF StaleAt
<1>3. MemberListTs(u) \in Nat BY DEF MemberListTs, TypeOK
<1> QED BY <1>1, <1>2, <1>3, MembershipAssumption DEF Stale

(* History: what is on record only grows. *)
LEMMA VouchGrows ==
    ASSUME TypeOK, NEW S \in SUBSET Users, NEW t \in Int
    PROVE  /\ Vouch(S, t) \in [Users -> Nat]
           /\ \A x \in Users : vouched[x] <= Vouch(S, t)[x]
           /\ \A x \in S : t <= Vouch(S, t)[x]
BY DEF TypeOK, Vouch, Larger

LEMMA RowsBelow ==
    ASSUME IInv, NEW v \in [Users -> Nat], \A x \in Users : vouched[x] <= v[x]
    PROVE  \A u, x \in Users : rows[u][x].add <= v[x]
<1> SUFFICES ASSUME NEW u \in Users, NEW x \in Users PROVE rows[u][x].add <= v[x] OBVIOUS
<1>1. rows[u][x] \in Row /\ vouched[x] \in Nat BY DEF IInv, TypeOK
<1>2. rows[u][x].add \in Int BY <1>1, RowInts
<1>3. rows[u][x].add <= vouched[x] BY DEF IInv, RowsInv
<1> QED BY <1>1, <1>2, <1>3

(* A message that a device renders is stamped, is of the right shape, and     *)
(* dates nobody later than the table it is rendered from.                     *)
Rendered(m, u, r) ==
    /\ m \in Message
    /\ m.from = u
    /\ m.sent = clock(u)
    /\ m.stamped = TRUE
    /\ \A x \in m.to : m.ts[x] = r[x].add

LEMMA RenderOK ==
    ASSUME NeverStale, TypeOK, NEW u \in Users, NEW r \in [Users -> Row],
           NEW added \in Users \cup {NoOne}, NEW removed \in Users \cup {NoOne},
           u \in MembersOf(r) \/ (r[u] # Absent /\ ~IsMember(r[u]))
    PROVE  Rendered(Render(u, r, added, removed), u, r)
<1> DEFINE m == Render(u, r, added, removed)
           past == PastMembers(r, clock(u))
           to == IF MembersOf(r) # {u} THEN MembersOf(r) \ {u} ELSE MembersOf(r)
           ts == [x \in Users |-> IF x \in to THEN r[x].add ELSE IF x \in past THEN r[x].rem ELSE 0]
<1>1. clock(u) \in Nat /\ clock(u) < StalePeriod /\ Stale(u) = FALSE BY FreshInv
<1>2. to \subseteq MembersOf(r) /\ MembersOf(r) \subseteq Users /\ past \subseteq Users
  BY DEF MembersOf, PastMembers
<1>3. \A x \in to : r[x].add \in Nat
  BY <1>2 DEF MembersOf, IsMember, Row, Absent
<1>4. \A x \in Users : r[x].rem \in Nat BY DEF Row, Absent
<1>5. ts \in [Users -> Nat] BY <1>2, <1>3, <1>4
<1>6. to \cup past # {}
  <2>1. CASE u \in MembersOf(r) BY <2>1
  <2>2. CASE r[u] # Absent /\ ~IsMember(r[u])
    <3>1. r[u].rem + StalePeriod > clock(u) BY <1>1, <1>4, MembershipAssumption
    <3>2. u \in past BY <2>2, <3>1 DEF PastMembers
    <3> QED BY <3>2
  <2> QED BY <2>1, <2>2
<1>7. m = [from |-> u, sent |-> clock(u), added |-> added, removed |-> removed,
           stamped |-> to \cup past # {} /\ ~Stale(u), to |-> to, past |-> past, ts |-> ts]
  BY DEF Render
<1>8. (to \cup past # {} /\ ~Stale(u)) = TRUE BY <1>1, <1>6
<1>9. m = [from |-> u, sent |-> clock(u), added |-> added, removed |-> removed,
           stamped |-> TRUE, to |-> to, past |-> past, ts |-> ts]
  BY <1>7, <1>8
<1> HIDE DEF m, past, to, ts
<1>10. m \in Message BY <1>1, <1>2, <1>5, <1>9 DEF Message
<1>11. \A x \in to : ts[x] = r[x].add BY <1>2 DEF ts
<1>12. Rendered(m, u, r) BY <1>9, <1>10, <1>11 DEF Rendered
<1> QED BY <1>12 DEF m

(* Posting a message keeps the network as the invariant has it. *)
LEMMA PostOK ==
    ASSUME NeverStale, IInv, NEW u \in Users, NEW r \in [Users -> Row],
           NEW added \in Users \cup {NoOne}, NEW removed \in Users \cup {NoOne},
           u \in MembersOf(r) \/ (r[u] # Absent /\ ~IsMember(r[u])),
           Post(u, r, added, removed),
           \A x \in Users : vouched[x] <= vouched'[x] /\ r[x].add <= vouched'[x],
           clock(u) <= vouched'[u], vouched' \in [Users -> Nat]
    PROVE  net' \subseteq [to : Users, msg : Message] /\ NetInv'
<1> DEFINE m == Render(u, r, added, removed)
<1>1. /\ m \in Message
      /\ m.from = u
      /\ m.sent = clock(u)
      /\ m.stamped = TRUE
      /\ \A x \in m.to : m.ts[x] = r[x].add
  <2>1. TypeOK BY DEF IInv
  <2>2. Rendered(m, u, r) BY <2>1, RenderOK, Zenon
  <2> QED BY ONLY <2>2 DEF Rendered
<1>2. Recipients(u, r, removed) \subseteq Users \ {u}
  BY DEF Recipients, MembersOf, PastMembers
<1>3. net' = net \cup {[to |-> x, msg |-> m] : x \in Recipients(u, r, removed)}
  BY DEF Post
<1> HIDE DEF m
<1>4. net' \subseteq [to : Users, msg : Message]
  BY <1>1, <1>2, <1>3 DEF IInv, TypeOK
<1>5. ASSUME NEW p \in net'
      PROVE  /\ p.msg.stamped = TRUE
             /\ p.to # p.msg.from
             /\ p.msg.sent <= vouched'[p.msg.from]
             /\ \A x \in p.msg.to : p.msg.ts[x] <= vouched'[x]
  <2>1. CASE p \in net
    <3>1. /\ p.msg.from \in Users /\ p.msg.to \subseteq Users
          /\ p.msg.sent \in Nat /\ p.msg.ts \in [Users -> Nat]
      BY <2>1 DEF IInv, TypeOK, Message
    <3>2. vouched \in [Users -> Nat] BY DEF IInv, TypeOK
    <3> QED BY <2>1, <3>1, <3>2 DEF IInv, NetInv
  <2>2. CASE p \notin net
    <3>1. PICK x \in Users \ {u} : p = [to |-> x, msg |-> m] BY <1>2, <1>3, <2>2
    <3>2. m.to \subseteq Users BY <1>1 DEF Message
    <3> QED BY <1>1, <3>1, <3>2
  <2> QED BY <2>1, <2>2
<1>6. NetInv' BY <1>5 DEF NetInv
<1> QED BY <1>4, <1>6

(* Members are in the table. *)
LEMMA MembersIn ==
    ASSUME NEW r \in [Users -> Row], NEW x \in MembersOf(r)
    PROVE  x \in Users /\ r[x] # Absent /\ r[x].add \in Nat
BY DEF MembersOf, IsMember, Row, Absent

LEMMA InitIInv == Init => IInv
<1> SUFFICES ASSUME Init PROVE IInv OBVIOUS
<1> USE MembershipAssumption DEF Init
<1>1. TypeOK BY DEF TypeOK, AddRow, Larger, Row, Absent
<1>2. RowsInv BY DEF RowsInv, AddRow, Larger, Absent
<1>3. NetInv BY DEF NetInv
<1> QED BY <1>1, <1>2, <1>3 DEF IInv

(* Messages that merely disappear leave the rest as it is. *)
LEMMA DropOK ==
    ASSUME IInv, NEW p \in net, net' = net \ {p}, vouched' = vouched, rows' = rows
    PROVE  net' \subseteq [to : Users, msg : Message] /\ RowsInv' /\ NetInv'
BY DEF IInv, TypeOK, RowsInv, NetInv

LEMMA SendTextOK ==
    ASSUME NeverStale, IInv, NEW u \in Users, SendText(u) PROVE IInv'
<1> USE DEF SendText, IInv
<1>1. clock(u) \in Nat BY FreshInv
<1>2. /\ vouched' \in [Users -> Nat] /\ clock(u) <= vouched'[u]
      /\ \A x \in Users : vouched[x] <= vouched'[x]
  BY <1>1, VouchGrows
<1>3. \A x \in Users : rows[u][x].add <= vouched'[x]
  BY <1>2, RowsBelow
<1>4. net' \subseteq [to : Users, msg : Message] /\ NetInv'
  BY <1>2, <1>3, PostOK DEF Members, TypeOK
<1>5. TypeOK' BY <1>2, <1>4 DEF TypeOK
<1>6. RowsInv' BY <1>2, RowsBelow DEF RowsInv
<1> QED BY <1>4, <1>5, <1>6

LEMMA AddMemberOK ==
    ASSUME NeverStale, IInv, NEW u \in Users, NEW x \in Users, NEW h \in BOOLEAN, AddMember(u, x, h)
    PROVE  IInv'
<1> DEFINE r == IF x \in Members(u) THEN rows[u]
                ELSE [rows[u] EXCEPT ![x] = AddRow(rows[u][x], clock(u))]
<1> USE DEF IInv
<1>1. clock(u) \in Nat BY FreshInv
<1>2. r \in [Users -> Row] BY <1>1, RowTypes, ZenonT(40) DEF TypeOK
<1>3. r[x].add \in Nat
  BY <1>1, MembersIn, SMTT(20) DEF TypeOK, Members, AddRow, Larger, Row, Absent
<1>4. \A y \in Users \ {x} : r[y] = rows[u][y] BY DEF TypeOK
<1> HIDE DEF r
<1>5. /\ vouched' = Vouch({u, x}, Larger(clock(u), r[x].add)) /\ rows' = [rows EXCEPT ![u] = r]
  BY DEF AddMember, r
<1>6. Larger(clock(u), r[x].add) \in Nat /\ clock(u) <= Larger(clock(u), r[x].add)
      /\ r[x].add <= Larger(clock(u), r[x].add)
  BY <1>1, <1>3 DEF Larger
<1>7. /\ vouched' \in [Users -> Nat] /\ clock(u) <= vouched'[u] /\ r[x].add <= vouched'[x]
      /\ \A y \in Users : vouched[y] <= vouched'[y]
  <2>1. /\ vouched' \in [Users -> Nat] /\ \A y \in Users : vouched[y] <= vouched'[y]
        /\ \A y \in {u, x} : Larger(clock(u), r[x].add) <= vouched'[y]
    BY <1>5, <1>6, VouchGrows, SMTT(20)
  <2> QED BY <1>1, <1>3, <1>6, <2>1
<1>8. \A y \in Users : r[y].add <= vouched'[y]
  <2>1. \A y \in Users : rows[u][y].add <= vouched'[y] BY <1>7, RowsBelow
  <2> QED BY <1>4, <1>7, <2>1
<1>9. u \in MembersOf(r)
  BY <1>4 DEF AddMember, Members, MembersOf
<1>10. net' \subseteq [to : Users, msg : Message] /\ NetInv'
  <2>1. CASE group'[u] = "promoted"
    <3>1. Post(u, r, x, NoOne) BY <2>1 DEF AddMember, r
    <3> QED BY <1>2, <1>7, <1>8, <1>9, <3>1, PostOK
  <2>2. CASE group'[u] # "promoted"
    <3>1. net' = net BY <2>2 DEF AddMember
    <3>2. net' \subseteq [to : Users, msg : Message] BY <3>1 DEF TypeOK
    <3>3. NetInv' BY <1>7, <3>1 DEF NetInv, TypeOK, Message
    <3> QED BY <3>2, <3>3
  <2> QED BY <2>1, <2>2
<1>11. TypeOK'
  <2>1. group' \in [Users -> {"none", "unpromoted", "promoted"}] BY DEF AddMember, TypeOK
  <2>2. now' = now /\ created' = created /\ listTs' = listTs /\ ops' \in 0..MaxOps
    BY MembershipAssumption DEF AddMember, TypeOK
  <2> QED BY <1>2, <1>5, <1>7, <1>10, <2>1, <2>2 DEF TypeOK
<1>12. RowsInv'
  <2>1. \A w, y \in Users : rows[w][y].add <= vouched'[y] BY <1>7, RowsBelow
  <2>2. \A w \in Users : rows'[w] = IF w = u THEN r ELSE rows[w] BY <1>5 DEF TypeOK
  <2> QED BY <1>8, <2>1, <2>2 DEF RowsInv
<1> QED BY <1>10, <1>11, <1>12

LEMMA RemoveMemberOK ==
    ASSUME NeverStale, IInv, NEW u \in Users, NEW x \in Users, RemoveMember(u, x)
    PROVE  IInv'
<1> USE DEF IInv
<1>1. clock(u) \in Nat BY FreshInv
<1>2. /\ vouched' \in [Users -> Nat] /\ clock(u) <= vouched'[u]
      /\ \A y \in Users : vouched[y] <= vouched'[y]
  <2>1. vouched' = Vouch({u}, clock(u)) BY DEF RemoveMember
  <2> QED BY <1>1, <2>1, VouchGrows
<1>3. \A w, y \in Users : rows[w][y].add <= vouched'[y] BY <1>2, RowsBelow
<1>4. now' = now /\ group' = group /\ created' = created /\ listTs' = listTs /\ ops' \in 0..MaxOps
  BY MembershipAssumption DEF RemoveMember, TypeOK
<1>5. ASSUME group[u] = "promoted" PROVE IInv'
  <2> DEFINE r == [rows[u] EXCEPT ![x] = RemoveRow(rows[u][x], clock(u))]
  <2>1. rows[u][x] \in Row /\ rows[u][x] # Absent BY DEF RemoveMember, TypeOK
  <2>2. r \in [Users -> Row] BY <1>1, <2>1, RowTypes DEF TypeOK
  <2>3. \A y \in Users : r[y].add = rows[u][y].add BY DEF TypeOK, RemoveRow
  <2>4. u \in MembersOf(r) \/ (r[u] # Absent /\ ~IsMember(r[u]))
    <3>1. CASE x # u
      <4>1. r[u] = rows[u][u] BY <3>1 DEF TypeOK
      <4> QED BY <4>1 DEF RemoveMember, Members, MembersOf
    <3>2. CASE x = u
      <4>1. r[u] = RemoveRow(rows[u][u], clock(u)) BY <3>2 DEF TypeOK
      <4>2. ~IsMember(r[u]) BY <1>1, <2>1, <3>2, <4>1, RemoveAdvances
      <4>3. r[u].add \in Nat
        <5>1. rows[u][u].add \in Nat BY MembersIn DEF RemoveMember, Members, TypeOK
        <5> QED BY <4>1, <5>1 DEF RemoveRow
      <4>4. r[u] # Absent BY <4>3 DEF Absent
      <4> QED BY <4>2, <4>4
    <3> QED BY <3>1, <3>2
  <2>5. Post(u, r, NoOne, x) /\ rows' = [rows EXCEPT ![u] = r] BY <1>5 DEF RemoveMember
  <2> HIDE DEF r
  <2>6. \A y \in Users : r[y].add <= vouched'[y] BY <1>3, <2>3
  <2>7. net' \subseteq [to : Users, msg : Message] /\ NetInv'
    BY <1>2, <2>2, <2>4, <2>5, <2>6, PostOK
  <2>8. TypeOK' BY <1>2, <1>4, <2>2, <2>5, <2>7 DEF TypeOK
  <2>9. RowsInv'
    <3>1. \A w \in Users : rows'[w] = IF w = u THEN r ELSE rows[w] BY <2>5 DEF TypeOK
    <3> QED BY <1>3, <2>6, <3>1 DEF RowsInv
  <2> QED BY <2>7, <2>8, <2>9
<1>6. ASSUME group[u] # "promoted" PROVE IInv'
  <2>1. net' = net /\ rows' = [rows EXCEPT ![u][x] = Absent] BY <1>6 DEF RemoveMember
  <2>2. rows' \in [Users -> [Users -> Row]] BY <2>1 DEF TypeOK, Row
  <2>3. NetInv' BY <1>2, <2>1 DEF NetInv, TypeOK, Message
  <2>4. TypeOK' BY <1>2, <1>4, <2>1, <2>2 DEF TypeOK
  <2>5. RowsInv'
    <3>1. \A w, y \in Users : rows'[w][y] = rows[w][y] \/ rows'[w][y] = Absent
      BY <2>1 DEF TypeOK
    <3>2. \A y \in Users : Absent.add <= vouched'[y] BY <1>2 DEF Absent
    <3> QED BY <1>3, <3>1, <3>2 DEF RowsInv
  <2> QED BY <2>3, <2>4, <2>5
<1> QED BY <1>5, <1>6

-----------------------------------------------------------------------------
(* Receiving. *)

(* A list that dates nobody later than v leaves a table that does not either. *)
LEMMA UpdateOK ==
    ASSUME NEW r \in [Users -> Row], NEW ignored, NEW to \in SUBSET Users, NEW past \in SUBSET Users,
           NEW ts \in [Users -> Nat], NEW v \in [Users -> Nat],
           \A x \in Users : r[x].add <= v[x], \A x \in to \ {ignored} : ts[x] <= v[x]
    PROVE  /\ UpdateTimestamps(r, ignored, to, past, ts) \in [Users -> Row]
           /\ \A x \in Users : UpdateTimestamps(r, ignored, to, past, ts)[x].add <= v[x]
<1> DEFINE n == UpdateTimestamps(r, ignored, to, past, ts)
<1>1. ASSUME NEW x \in Users
      PROVE  n[x] \in {HeaderAdd(r[x], ts[x]), HeaderRemove(r[x], ts[x]), r[x]}
             /\ ((n[x] = HeaderAdd(r[x], ts[x]) /\ x \in to \ {ignored})
                   \/ n[x] \in {HeaderRemove(r[x], ts[x]), r[x]})
  BY DEF UpdateTimestamps
<1>2. ASSUME NEW x \in Users PROVE n[x] \in Row /\ n[x].add <= v[x]
  <2>1. r[x] \in Row /\ ts[x] \in Nat /\ v[x] \in Nat /\ r[x].add <= v[x] OBVIOUS
  <2> HIDE DEF n
  <2>2. n[x] \in Row BY <1>1, <2>1, RowTypes
  <2>3. HeaderRemove(r[x], ts[x]).add <= v[x] BY <2>1, HeaderAddBound
  <2>4. x \in to \ {ignored} => HeaderAdd(r[x], ts[x]).add <= v[x] BY <2>1, HeaderAddBound
  <2> QED BY <1>1, <2>1, <2>2, <2>3, <2>4
<1>3. n = [x \in Users |-> n[x]] BY DEF UpdateTimestamps
<1> HIDE DEF n
<1>4. n \in [Users -> Row] BY <1>2, <1>3
<1> QED BY <1>2, <1>4 DEF n

(* What arrives is cut back, never put forward. *)
LEMMA ClippedOK ==
    ASSUME NeverStale, TypeOK, NEW u \in Users, NEW t \in Nat
    PROVE  Clipped(u, t) \in Nat /\ Clipped(u, t) <= t
<1>1. clock(u) \in Nat BY FreshInv
<1> QED BY <1>1, MembershipAssumption DEF Clipped, Smaller

(* What a message under way carries. *)
LEMMA PacketOK ==
    ASSUME NeverStale, IInv, NEW p \in net
    PROVE  /\ p.to \in Users /\ p.msg.from \in Users /\ p.to # p.msg.from /\ p.msg.stamped = TRUE
           /\ p.msg.to \in SUBSET Users /\ p.msg.past \in SUBSET Users
           /\ Clipped(p.to, p.msg.sent) \in Nat
           /\ Clipped(p.to, p.msg.sent) <= vouched[p.msg.from]
           /\ ClippedTs(p.to, p.msg) \in [Users -> Nat]
           /\ \A x \in p.msg.to : ClippedTs(p.to, p.msg)[x] <= vouched[x]
<1> USE DEF IInv
<1>1. /\ p.to \in Users /\ p.msg.from \in Users /\ p.msg.sent \in Nat
      /\ p.msg.to \in SUBSET Users /\ p.msg.past \in SUBSET Users /\ p.msg.ts \in [Users -> Nat]
  BY DEF TypeOK, Message
<1>2. p.to # p.msg.from /\ p.msg.stamped = TRUE /\ p.msg.sent <= vouched[p.msg.from]
      /\ \A x \in p.msg.to : p.msg.ts[x] <= vouched[x]
  BY DEF NetInv
<1>3. vouched \in [Users -> Nat] BY DEF TypeOK
<1>4. Clipped(p.to, p.msg.sent) \in Nat /\ Clipped(p.to, p.msg.sent) <= p.msg.sent
  BY <1>1, ClippedOK
<1>5. \A x \in Users : Clipped(p.to, p.msg.ts[x]) \in Nat /\ Clipped(p.to, p.msg.ts[x]) <= p.msg.ts[x]
  BY <1>1, ClippedOK
<1>6. Clipped(p.to, p.msg.sent) <= vouched[p.msg.from] BY <1>1, <1>2, <1>3, <1>4
<1>7. ClippedTs(p.to, p.msg) \in [Users -> Nat] BY <1>5 DEF ClippedTs
<1>8. ASSUME NEW x \in p.msg.to PROVE ClippedTs(p.to, p.msg)[x] <= vouched[x]
  <2>1. ClippedTs(p.to, p.msg)[x] = Clipped(p.to, p.msg.ts[x]) BY <1>1 DEF ClippedTs
  <2> QED BY <1>1, <1>2, <1>3, <1>5, <2>1
<1> QED BY <1>1, <1>2, <1>4, <1>6, <1>7, <1>8

(* The list of a new chat. *)
LEMMA CreatedOK ==
    ASSUME NeverStale, IInv, NEW p \in net
    PROVE  /\ CreatedRows(p.to, p.msg) \in [Users -> Row]
           /\ \A x \in Users : CreatedRows(p.to, p.msg)[x].add <= vouched[x]
<1> DEFINE u == p.to
           m == p.msg
           empty == [x \in Users |-> Absent]
           to == m.to \cup {m.from}
           ts == [x \in Users |-> IF x = m.from /\ x \notin m.to THEN Clipped(u, m.sent)
                                  ELSE ClippedTs(u, m)[x]]
<1>1. /\ u \in Users /\ m.from \in Users /\ m.stamped = TRUE
      /\ m.to \in SUBSET Users /\ m.past \in SUBSET Users
      /\ Clipped(u, m.sent) \in Nat /\ Clipped(u, m.sent) <= vouched[m.from]
      /\ ClippedTs(u, m) \in [Users -> Nat]
      /\ \A x \in m.to : ClippedTs(u, m)[x] <= vouched[x]
  BY PacketOK
<1>2. CreatedRows(u, m) = UpdateTimestamps(empty, NoOne, to, m.past, ts)
  BY <1>1 DEF CreatedRows
<1>3. vouched \in [Users -> Nat] BY DEF IInv, TypeOK
<1>4. empty \in [Users -> Row] /\ \A x \in Users : empty[x].add <= vouched[x]
  BY <1>3 DEF Row, Absent
<1>5. ts \in [Users -> Nat] BY <1>1
<1>6. \A x \in to \ {NoOne} : ts[x] <= vouched[x] BY <1>1
<1>7. to \in SUBSET Users BY <1>1
<1> HIDE DEF empty, to, ts
<1>8. /\ UpdateTimestamps(empty, NoOne, to, m.past, ts) \in [Users -> Row]
      /\ \A x \in Users : UpdateTimestamps(empty, NoOne, to, m.past, ts)[x].add <= vouched[x]
  <2> HIDE DEF m, u
  <2> QED BY <1>1, <1>3, <1>4, <1>5, <1>6, <1>7, UpdateOK
<1> QED BY <1>2, <1>8

(* A message applied to a table r gives one whose dates are on record after it. *)
LEMMA AppliedOK ==
    ASSUME NeverStale, IInv, NEW p \in net, NEW r \in [Users -> Row], NEW list \in Nat,
           \A x \in Users : r[x].add <= vouched[x],
           NEW v \in [Users -> Nat], \A x \in Users : vouched[x] <= v[x],
           WithAuthor(p.to, p.msg, r)[p.msg.from].add <= v[p.msg.from]
    PROVE  /\ Applied(p.to, p.msg, r, list) \in [Users -> Row]
           /\ \A x \in Users : Applied(p.to, p.msg, r, list)[x].add <= v[x]
<1> DEFINE u == p.to
           m == p.msg
           r1 == WithAuthor(u, m, r)
<1>1. /\ u \in Users /\ m.from \in Users /\ m.stamped = TRUE
      /\ m.to \in SUBSET Users /\ m.past \in SUBSET Users
      /\ Clipped(u, m.sent) \in Nat /\ ClippedTs(u, m) \in [Users -> Nat]
      /\ \A x \in m.to : ClippedTs(u, m)[x] <= vouched[x]
  BY PacketOK
<1>2. r1 \in [Users -> Row] /\ \A x \in Users \ {m.from} : r1[x] = r[x]
  <2>1. AddRow(r[m.from], Clipped(u, m.sent)) \in Row BY <1>1, RowTypes
  <2> QED BY <1>1, <2>1 DEF WithAuthor
<1> HIDE DEF r1
<1>3. r1[m.from].add \in Int BY <1>1, <1>2, RowInts
<1>4. r1[m.from].add <= v[m.from] BY DEF r1
<1>5. ASSUME NEW x \in Users PROVE r1[x].add <= v[x]
  <2>1. r[x].add \in Int /\ r[x].add <= vouched[x] /\ vouched[x] \in Nat /\ v[x] \in Nat
    BY RowInts DEF IInv, TypeOK
  <2>2. x # m.from => r1[x] = r[x] BY <1>2
  <2>3. vouched[x] <= v[x] OBVIOUS
  <2> HIDE DEF m
  <2> QED BY <1>4, <2>1, <2>2, <2>3
<1>6. \A x \in m.to \ {m.from} : ClippedTs(u, m)[x] <= v[x]
  <2> SUFFICES ASSUME NEW x \in m.to PROVE ClippedTs(u, m)[x] <= v[x] OBVIOUS
  <2>1. x \in Users /\ ClippedTs(u, m)[x] \in Nat /\ vouched[x] \in Nat /\ v[x] \in Nat
    BY <1>1 DEF IInv, TypeOK
  <2>2. vouched[x] <= v[x] BY <2>1
  <2> HIDE DEF u, m
  <2> QED BY <1>1, <2>1, <2>2
<1>7. \/ Applied(u, m, r, list) = r1
      \/ Applied(u, m, r, list) = UpdateTimestamps(r1, m.from, m.to, m.past, ClippedTs(u, m))
  <2>1. StaleAt(clock(u), list) = FALSE BY <1>1, FreshInv DEF IInv
  <2> QED BY <1>1, <2>1 DEF Applied, r1
<1>8. /\ UpdateTimestamps(r1, m.from, m.to, m.past, ClippedTs(u, m)) \in [Users -> Row]
      /\ \A x \in Users :
           UpdateTimestamps(r1, m.from, m.to, m.past, ClippedTs(u, m))[x].add <= v[x]
  <2> HIDE DEF u, m
  <2> QED BY <1>1, <1>2, <1>5, <1>6, UpdateOK
<1> QED BY <1>2, <1>5, <1>7, <1>8

(* The table a received message is applied to, and the age of its list. *)
BaseRows(p) == IF group[p.to] = "none" THEN CreatedRows(p.to, p.msg) ELSE rows[p.to]
BaseList(p) == IF group[p.to] = "none" THEN Smaller(Clipped(p.to, p.msg.sent), clock(p.to))
               ELSE MemberListTs(p.to)

LEMMA BaseOK ==
    ASSUME NeverStale, IInv, NEW p \in net
    PROVE  /\ BaseRows(p) \in [Users -> Row] /\ BaseList(p) \in Nat
           /\ \A x \in Users : BaseRows(p)[x].add <= vouched[x]
<1>1. p.to \in Users /\ Clipped(p.to, p.msg.sent) \in Nat BY PacketOK
<1>2. clock(p.to) \in Nat BY <1>1, FreshInv DEF IInv
<1>3. MemberListTs(p.to) \in Nat BY <1>1 DEF IInv, TypeOK, MemberListTs
<1>4. BaseList(p) \in Nat BY <1>1, <1>2, <1>3 DEF BaseList, Smaller
<1>5. rows[p.to] \in [Users -> Row] /\ \A x \in Users : rows[p.to][x].add <= vouched[x]
  BY <1>1 DEF IInv, TypeOK, RowsInv
<1> QED BY <1>4, <1>5, CreatedOK DEF BaseRows

LEMMA ReceiveOK ==
    ASSUME NeverStale, IInv, NEW p \in net, Receive(p) PROVE IInv'
<1> DEFINE u == p.to
           from == p.msg.from
           date == WithAuthor(u, p.msg, BaseRows(p))[from].add
           new == Applied(u, p.msg, BaseRows(p), BaseList(p))
<1>1. u \in Users /\ from \in Users /\ Clipped(u, p.msg.sent) \in Nat BY PacketOK
<1>2. /\ BaseRows(p) \in [Users -> Row] /\ BaseList(p) \in Nat
      /\ \A x \in Users : BaseRows(p)[x].add <= vouched[x]
  BY BaseOK
<1>3. /\ rows' = [rows EXCEPT ![u] = new] /\ net' = net \ {p}
      /\ vouched' = Vouch({from}, date) /\ now' = now /\ ops' = ops
  BY DEF Receive, BaseRows, BaseList
<1>4. group' \in [Users -> {"none", "unpromoted", "promoted"}]
  BY <1>1 DEF Receive, IInv, TypeOK
<1>5. created' \in [Users -> Nat] /\ listTs' \in [Users -> Nat]
  <2>1. created' = [created EXCEPT ![u] = BaseList(p)] \/ created' = created
    BY DEF Receive, BaseList
  <2>2. listTs' = [listTs EXCEPT ![u] = Clipped(u, p.msg.sent)] \/ listTs' = listTs
    BY DEF Receive
  <2> QED BY <1>1, <1>2, <2>1, <2>2 DEF IInv, TypeOK
<1>6. date \in Int
  <2>1. AddRow(BaseRows(p)[from], Clipped(u, p.msg.sent)) \in Row BY <1>1, <1>2, RowTypes
  <2>2. WithAuthor(u, p.msg, BaseRows(p)) \in [Users -> Row] BY <1>1, <1>2, <2>1 DEF WithAuthor
  <2> QED BY <1>1, <2>2, RowInts
<1>7. /\ vouched' \in [Users -> Nat] /\ date <= vouched'[from]
      /\ \A x \in Users : vouched[x] <= vouched'[x]
  <2> HIDE DEF date, from
  <2>1. TypeOK /\ {from} \in SUBSET Users BY <1>1 DEF IInv
  <2> QED BY <1>3, <1>6, <2>1, VouchGrows
<1>8. new \in [Users -> Row] /\ \A x \in Users : new[x].add <= vouched'[x]
  BY <1>2, <1>7, AppliedOK
<1> HIDE DEF u, from, date, new
<1>9. net' \subseteq [to : Users, msg : Message] /\ NetInv'
  <2>1. net \subseteq [to : Users, msg : Message] /\ vouched \in [Users -> Nat] BY DEF IInv, TypeOK
  <2>2. NetInv BY DEF IInv
  <2>3. net' \subseteq net BY <1>3
  <2>4. ASSUME NEW q \in net
        PROVE  /\ q.msg.stamped = TRUE
               /\ q.to # q.msg.from
               /\ q.msg.sent <= vouched'[q.msg.from]
               /\ \A x \in q.msg.to : q.msg.ts[x] <= vouched'[x]
    <3>1. /\ q.msg.from \in Users /\ q.msg.to \subseteq Users
          /\ q.msg.sent \in Nat /\ q.msg.ts \in [Users -> Nat]
      BY <2>1 DEF Message
    <3> QED BY <1>7, <2>1, <2>2, <3>1 DEF NetInv
  <2>5. NetInv' BY <2>3, <2>4 DEF NetInv
  <2> QED BY <2>1, <2>3, <2>5
<1>10. TypeOK' BY <1>1, <1>3, <1>4, <1>5, <1>7, <1>8, <1>9 DEF IInv, TypeOK
<1>11. RowsInv'
  <2>1. \A w, x \in Users : rows[w][x].add <= vouched'[x] BY <1>7, RowsBelow
  <2>2. \A w \in Users : rows'[w] = IF w = u THEN new ELSE rows[w]
    BY <1>1, <1>3 DEF IInv, TypeOK
  <2> QED BY <1>8, <2>1, <2>2 DEF RowsInv
<1> QED BY <1>9, <1>10, <1>11 DEF IInv

LEMMA NextIInv == ASSUME NeverStale PROVE IInv /\ [Next]_vars => IInv'
<1> SUFFICES ASSUME IInv PROVE [Next]_vars => IInv' OBVIOUS
<1>1. ASSUME NEW u \in Users, SendText(u) PROVE IInv' BY <1>1, SendTextOK
<1>2. ASSUME NEW u \in Users, NEW x \in Users, NEW h \in BOOLEAN, AddMember(u, x, h) PROVE IInv'
  BY <1>2, AddMemberOK
<1>3. ASSUME NEW u \in Users, NEW x \in Users, RemoveMember(u, x) PROVE IInv'
  BY <1>3, RemoveMemberOK
<1>4. ASSUME NEW p \in net, Receive(p) PROVE IInv' BY <1>4, ReceiveOK
<1>5. ASSUME NEW p \in net, ReceiveUnwanted(p) \/ Lose(p) PROVE IInv'
  <2>1. /\ net' = net \ {p} /\ rows' = rows /\ vouched' = vouched /\ now' = now
        /\ group' = group /\ created' = created /\ listTs' = listTs /\ ops' \in 0..MaxOps
    BY <1>5, MembershipAssumption DEF ReceiveUnwanted, Lose, IInv, TypeOK
  <2>2. net' \subseteq [to : Users, msg : Message] /\ RowsInv' /\ NetInv' BY <2>1, DropOK
  <2> QED BY <2>1, <2>2 DEF IInv, TypeOK
<1>6. ASSUME Tick PROVE IInv'
  <2>1. TypeOK' BY <1>6, MembershipAssumption DEF Tick, IInv, TypeOK
  <2>2. RowsInv' /\ NetInv' BY <1>6 DEF Tick, IInv, RowsInv, NetInv
  <2> QED BY <2>1, <2>2 DEF IInv
<1>7. ASSUME UNCHANGED vars PROVE IInv'
  <2>1. TypeOK' BY <1>7 DEF vars, IInv, TypeOK
  <2>2. RowsInv' /\ NetInv' BY <1>7 DEF vars, IInv, RowsInv, NetInv
  <2> QED BY <2>1, <2>2 DEF IInv
<1> QED BY ONLY <1>1, <1>2, <1>3, <1>4, <1>5, <1>6, <1>7 DEF Next

(* As long as no list grows stale, everything has its type, no membership is  *)
(* dated later than what its member or whoever added them said, and every     *)
(* message carries timestamps.                                                *)
THEOREM MembershipInvariant == ASSUME NeverStale PROVE Spec => []IInv
BY InitIInv, NextIInv, PTL DEF Spec

-----------------------------------------------------------------------------
(* What a step does to a row. *)
KeepsRow(u, x) ==
    group[u] = "promoted" =>
       \/ Advances(rows[u][x], rows'[u][x])
       \/ ~IsMember(rows[u][x]) /\ ~IsMember(rows'[u][x])

LEMMA SameRow ==
    ASSUME IInv, NEW u \in Users, NEW x \in Users, rows'[u][x] = rows[u][x] PROVE KeepsRow(u, x)
<1>1. rows[u][x] \in Row BY DEF IInv, TypeOK
<1>2. rows[u][x].add \in Int /\ rows[u][x].rem \in Nat BY <1>1, RowInts
<1> QED BY <1>2 DEF KeepsRow, Advances

LEMMA ReceiveAdvances ==
    ASSUME NeverStale, IInv, NEW p \in net, Receive(p), NEW u \in Users, NEW x \in Users,
           group[u] # "none"
    PROVE  Advances(rows[u][x], rows'[u][x])
<1>1. CASE u # p.to
  <2>1. rows'[u] = rows[u] BY <1>1 DEF Receive, IInv, TypeOK
  <2>2. rows[u][x] \in Row BY DEF IInv, TypeOK
  <2>3. rows[u][x].add \in Int /\ rows[u][x].rem \in Nat BY <2>2, RowInts
  <2> QED BY <2>1, <2>3 DEF Advances
<1>2. CASE u = p.to
  <2> DEFINE m == p.msg
             r == rows[u]
             r1 == WithAuthor(u, m, r)
             ts == ClippedTs(u, m)
  <2>1. /\ m.from \in Users /\ m.stamped = TRUE /\ ts \in [Users -> Nat]
        /\ Clipped(u, m.sent) \in Nat
    BY <1>2, PacketOK
  <2>2. r \in [Users -> Row] BY DEF IInv, TypeOK
  <2>3. rows'[u] = Applied(u, m, r, MemberListTs(u))
    BY <1>2 DEF Receive, IInv, TypeOK
  <2>4. StaleAt(clock(u), MemberListTs(u)) = FALSE
    <3>1. MemberListTs(u) \in Nat BY DEF IInv, TypeOK, MemberListTs
    <3> QED BY <3>1, FreshInv DEF IInv
  <2>5. rows'[u] = r1 \/ rows'[u] = UpdateTimestamps(r1, m.from, m.to, m.past, ts)
    BY <2>1, <2>3, <2>4 DEF Applied
  <2>6. r1[x] \in Row /\ Advances(r[x], r1[x])
    <3>1. r[x] \in Row /\ r[x].add \in Int /\ r[x].rem \in Nat BY <2>2, RowInts
    <3>2. CASE r1[x] = r[x] BY <3>1, <3>2 DEF Advances
    <3>3. CASE r1[x] # r[x]
      <4>1. x = m.from /\ m.from \notin MembersOf(r) /\ r1[x] = AddRow(r[x], Clipped(u, m.sent))
        BY <2>1, <2>2, <3>3 DEF WithAuthor
      <4>2. ~IsMember(r[x]) BY <4>1 DEF MembersOf
      <4> QED BY <2>1, <3>1, <4>1, <4>2, AddAdvances, RowTypes
    <3> QED BY <3>2, <3>3
  <2> HIDE DEF r1, ts
  <2>7. rows'[u][x] \in {r1[x], HeaderAdd(r1[x], ts[x]), HeaderRemove(r1[x], ts[x])}
    BY <2>5 DEF UpdateTimestamps
  <2>8. Advances(r1[x], rows'[u][x]) /\ rows'[u][x] \in Row
    <3>1. r1[x].add \in Int /\ r1[x].rem \in Nat BY <2>6, RowInts
    <3>2. Advances(r1[x], r1[x]) BY <3>1 DEF Advances
    <3>3. ts[x] \in Nat BY <2>1
    <3> QED BY <2>6, <2>7, <3>2, <3>3, HeadersAdvance, RowTypes
  <2>9. Advances(r[x], rows'[u][x])
    <3>1. /\ r[x].add \in Int /\ r[x].rem \in Nat /\ r1[x].add \in Int /\ r1[x].rem \in Nat
          /\ rows'[u][x].add \in Int /\ rows'[u][x].rem \in Nat
      BY <2>2, <2>6, <2>8, RowInts
    <3> QED BY <2>6, <2>8, <3>1 DEF Advances
  <2> QED BY <2>9
<1> QED BY <1>1, <1>2

(* RowsAdvance for any number of users: no list that is merged by             *)
(* update_chats_contacts_timestamps and no change by hand takes back a newer  *)
(* addition or removal.                                                       *)
THEOREM RowsNeverGoBack == ASSUME NeverStale PROVE Spec => RowsAdvance
<1>1. IInv /\ [Next]_vars => \A u, x \in Users : KeepsRow(u, x)
  <2> SUFFICES ASSUME IInv, NEW u \in Users, NEW x \in Users
               PROVE  [Next]_vars => KeepsRow(u, x)
    OBVIOUS
  <2>1. ASSUME NEW w \in Users, SendText(w) PROVE KeepsRow(u, x) BY <2>1, SameRow DEF SendText
  <2>2. ASSUME NEW w \in Users, NEW y \in Users, NEW h \in BOOLEAN, AddMember(w, y, h)
        PROVE  KeepsRow(u, x)
    <3>1. CASE rows'[u][x] = rows[u][x] BY <3>1, SameRow
    <3>2. CASE rows'[u][x] # rows[u][x]
      <4>1. /\ w = u /\ y = x /\ x \notin Members(u)
            /\ rows'[u][x] = AddRow(rows[u][x], clock(u))
        BY <2>2, <3>2 DEF AddMember, IInv, TypeOK
      <4>2. rows[u][x] \in Row /\ ~IsMember(rows[u][x])
        BY <4>1 DEF IInv, TypeOK, Members, MembersOf
      <4>3. clock(u) \in Nat BY FreshInv DEF IInv
      <4> QED BY <4>1, <4>2, <4>3, AddAdvances DEF KeepsRow
    <3> QED BY <3>1, <3>2
  <2>3. ASSUME NEW w \in Users, NEW y \in Users, RemoveMember(w, y) PROVE KeepsRow(u, x)
    <3>1. CASE rows'[u][x] = rows[u][x] BY <3>1, SameRow
    <3>2. CASE rows'[u][x] # rows[u][x] /\ group[u] = "promoted"
      <4>1. /\ w = u /\ y = x /\ rows[u][x] # Absent
            /\ rows'[u][x] = RemoveRow(rows[u][x], clock(u))
        BY <2>3, <3>2 DEF RemoveMember, IInv, TypeOK
      <4>2. rows[u][x] \in Row BY DEF IInv, TypeOK
      <4>3. clock(u) \in Nat BY FreshInv DEF IInv
      <4> QED BY <4>1, <4>2, <4>3, RemoveAdvances DEF KeepsRow
    <3>3. CASE group[u] # "promoted" BY <3>3 DEF KeepsRow
    <3> QED BY <3>1, <3>2, <3>3
  <2>4. ASSUME NEW p \in net, Receive(p) PROVE KeepsRow(u, x) BY <2>4, ReceiveAdvances DEF KeepsRow
  <2>5. ASSUME NEW p \in net, ReceiveUnwanted(p) \/ Lose(p) PROVE KeepsRow(u, x)
    BY <2>5, SameRow DEF ReceiveUnwanted, Lose
  <2>6. ASSUME Tick PROVE KeepsRow(u, x) BY <2>6, SameRow DEF Tick
  <2>7. ASSUME UNCHANGED vars PROVE KeepsRow(u, x) BY <2>7, SameRow DEF vars
  <2> QED BY ONLY <2>1, <2>2, <2>3, <2>4, <2>5, <2>6, <2>7 DEF Next
<1> QED BY <1>1, MembershipInvariant, PTL DEF Spec, RowsAdvance, KeepsRow

(* OutUntilVouched for any number of users: whoever has left a group, or has  *)
(* learned of their removal, is in it again only when a list dates their      *)
(* membership at or after that time, and every such date goes back to         *)
(* somebody who added them or to a message of theirs.                         *)
THEOREM OutUntilVouchedFor == ASSUME NeverStale PROVE Spec => OutUntilVouched
<1> DEFINE Goal(u) == group[u] # "none" /\ u \notin Members(u) /\ u \in MembersOf(rows'[u])
                        => vouched[u] >= rows[u][u].rem
<1>1. IInv /\ IInv' /\ [Next]_vars => \A u \in Users : Goal(u)
  <2> SUFFICES ASSUME IInv, IInv', NEW u \in Users,
                      group[u] # "none", u \notin Members(u), u \in MembersOf(rows'[u])
               PROVE  [Next]_vars => vouched[u] >= rows[u][u].rem
    OBVIOUS
  <2>1. /\ ~IsMember(rows[u][u]) /\ IsMember(rows'[u][u])
        /\ rows[u][u] \in Row /\ rows'[u][u] \in Row
    BY DEF Members, MembersOf, IInv, TypeOK
  <2>2. rows'[u][u] # rows[u][u] BY <2>1
  <2>3. ASSUME NEW w \in Users, SendText(w) PROVE FALSE BY <2>2, <2>3 DEF SendText
  <2>4. ASSUME NEW w \in Users, NEW y \in Users, NEW h \in BOOLEAN, AddMember(w, y, h) PROVE FALSE
    BY <2>2, <2>4 DEF AddMember, IInv, TypeOK
  <2>5. ASSUME NEW w \in Users, NEW y \in Users, RemoveMember(w, y) PROVE FALSE
    BY <2>2, <2>5 DEF RemoveMember, IInv, TypeOK
  <2>6. ASSUME NEW p \in net, Receive(p) PROVE vouched[u] >= rows[u][u].rem
    <3>1. u = p.to BY <2>2, <2>6 DEF Receive, IInv, TypeOK
    <3>2. u # p.msg.from BY <3>1, PacketOK
    <3>3. vouched'[u] = vouched[u] BY <2>6, <3>2 DEF Receive, Vouch
    <3>4. rows'[u][u].add <= vouched'[u] BY DEF IInv, RowsInv
    <3>5. Advances(rows[u][u], rows'[u][u]) BY <2>6, ReceiveAdvances
    <3>6. /\ rows[u][u].rem \in Nat /\ rows'[u][u].rem \in Nat /\ rows'[u][u].add \in Int
          /\ vouched[u] \in Nat
      BY <2>1, RowInts DEF IInv, TypeOK
    <3> QED BY <2>1, <3>3, <3>4, <3>5, <3>6 DEF IsMember, Advances
  <2>7. ASSUME NEW p \in net, ReceiveUnwanted(p) \/ Lose(p) PROVE FALSE
    BY <2>2, <2>7 DEF ReceiveUnwanted, Lose
  <2>8. ASSUME Tick PROVE FALSE BY <2>2, <2>8 DEF Tick
  <2>9. ASSUME UNCHANGED vars PROVE FALSE BY <2>2, <2>9 DEF vars
  <2> QED BY ONLY <2>3, <2>4, <2>5, <2>6, <2>7, <2>8, <2>9 DEF Next
<1> QED BY <1>1, MembershipInvariant, PTL DEF Spec, OutUntilVouched
-----------------------------------------------------------------------------
(* Whatever the age of the lists: types, and that a change takes effect.      *)

(* What a message announces it also says in its lists. *)
Announced(m) ==
    /\ m.sent >= 1
    /\ m.added # NoOne => m.added \in m.to \ {m.from} /\ m.removed = NoOne
    /\ m.removed # NoOne => m.removed \in m.past \ m.to /\ m.ts[m.removed] >= m.sent
AnnInv == TypeOK /\ \A p \in net : Announced(p.msg)

LEMMA ClockPositive ==
    ASSUME TypeOK, NEW u \in Users PROVE clock(u) \in Nat /\ clock(u) >= 1
BY MembershipAssumption DEF TypeOK, clock

LEMMA ClippedPositive ==
    ASSUME TypeOK, NEW u \in Users, NEW t \in Nat
    PROVE  /\ Clipped(u, t) \in Nat
           /\ t >= 1 => Clipped(u, t) >= 1
           /\ \A s \in Nat : t >= s => Clipped(u, t) >= Clipped(u, s)
<1>1. clock(u) \in Nat /\ clock(u) >= 1 BY ClockPositive
<1> QED BY <1>1, MembershipAssumption DEF Clipped, Smaller

(* The lists that are made here have rows in them. *)
LEMMA UpdateTypes ==
    ASSUME NEW r \in [Users -> Row], NEW ignored, NEW to \in SUBSET Users, NEW past \in SUBSET Users,
           NEW ts \in [Users -> Nat]
    PROVE  UpdateTimestamps(r, ignored, to, past, ts) \in [Users -> Row]
<1>1. ASSUME NEW x \in Users
      PROVE  HeaderAdd(r[x], ts[x]) \in Row /\ HeaderRemove(r[x], ts[x]) \in Row /\ r[x] \in Row
  BY RowTypes
<1> QED BY <1>1 DEF UpdateTimestamps

LEMMA ResetTypes == ASSUME NEW S PROVE ResetMembers(S) \in [Users -> Row]
<1>1. Absent \in Row /\ [add |-> 0, rem |-> 0] \in Row BY DEF Row
<1> QED BY <1>1 DEF ResetMembers

(* update_chat_contacts_table gives exactly the members it is told. *)
LEMMA SetMembersOK ==
    ASSUME NEW r \in [Users -> Row], NEW S, NEW t \in Nat
    PROVE  /\ SetMembers(r, S, t) \in [Users -> Row]
           /\ \A x \in Users : IsMember(SetMembers(r, S, t)[x]) <=> x \in S
<1> DEFINE bumped(x) == IF r[x] = Absent THEN Absent ELSE RemoveRow(r[x], t)
           n(x) == IF x \notin S THEN bumped(x)
                   ELSE IF bumped(x) = Absent THEN [add |-> t, rem |-> 0]
                   ELSE [bumped(x) EXCEPT !.add = bumped(x).rem]
<1>1. ASSUME NEW x \in Users PROVE n(x) \in Row /\ (IsMember(n(x)) <=> x \in S)
  <2>1. Absent \in Row /\ ~IsMember(Absent) BY DEF Row, IsMember, Absent
  <2>2. bumped(x) \in Row /\ ~IsMember(bumped(x)) BY <2>1, RowTypes, RemoveAdvances
  <2> HIDE DEF bumped
  <2>3. CASE x \notin S BY <2>2, <2>3
  <2>4. CASE x \in S /\ bumped(x) = Absent BY <2>4 DEF IsMember, Row
  <2>5. CASE x \in S /\ bumped(x) # Absent
    <3>1. bumped(x) \in [add : Nat, rem : Nat] BY <2>2, <2>5 DEF Row
    <3> QED BY <2>5, <3>1 DEF IsMember, Row
  <2> QED BY <2>3, <2>4, <2>5
<1>2. SetMembers(r, S, t) = [x \in Users |-> n(x)] BY DEF SetMembers
<1> HIDE DEF n
<1> QED BY <1>1, <1>2

(* A message has the right shape whoever is on the list. *)
Listing(m, u, r, added, removed) ==
    /\ m \in Message
    /\ m.from = u /\ m.sent = clock(u) /\ m.added = added /\ m.removed = removed
    /\ m.to \subseteq MembersOf(r) /\ MembersOf(r) \ {u} \subseteq m.to
    /\ m.past = PastMembers(r, clock(u))
    /\ \A x \in m.past \ m.to : m.ts[x] = r[x].rem

LEMMA RenderTypes ==
    ASSUME TypeOK, NEW u \in Users, NEW r \in [Users -> Row],
           NEW added \in Users \cup {NoOne}, NEW removed \in Users \cup {NoOne}
    PROVE  Listing(Render(u, r, added, removed), u, r, added, removed)
<1> DEFINE m == Render(u, r, added, removed)
           past == PastMembers(r, clock(u))
           to == IF MembersOf(r) # {u} THEN MembersOf(r) \ {u} ELSE MembersOf(r)
           ts == [x \in Users |-> IF x \in to THEN r[x].add ELSE IF x \in past THEN r[x].rem ELSE 0]
<1>1. clock(u) \in Nat BY ClockPositive
<1>2. to \subseteq MembersOf(r) /\ MembersOf(r) \subseteq Users /\ past \subseteq Users
  BY DEF MembersOf, PastMembers
<1>3. \A x \in to : r[x].add \in Nat BY <1>2, MembersIn
<1>4. \A x \in Users : r[x].rem \in Nat BY RowInts
<1>5. ts \in [Users -> Nat] /\ \A x \in past \ to : ts[x] = r[x].rem BY <1>2, <1>3, <1>4
<1>6. PICK s \in BOOLEAN : m =
          [from |-> u, sent |-> clock(u), added |-> added, removed |-> removed,
           stamped |-> s, to |-> to, past |-> past, ts |-> ts]
  BY DEF Render
<1> HIDE DEF m, past, to, ts
<1>7. m \in Message BY <1>1, <1>2, <1>5, <1>6 DEF Message
<1>8. /\ m.from = u /\ m.sent = clock(u) /\ m.added = added /\ m.removed = removed
      /\ m.to = to /\ m.past = past /\ m.ts = ts
  BY <1>6
<1>9. MembersOf(r) \ {u} \subseteq to BY DEF to
<1>10. Listing(m, u, r, added, removed) BY <1>2, <1>5, <1>7, <1>8, <1>9 DEF past, Listing
<1> QED BY <1>10 DEF m

LEMMA PostTypes ==
    ASSUME AnnInv, NEW u \in Users, NEW r \in [Users -> Row],
           NEW added \in Users \cup {NoOne}, NEW removed \in Users \cup {NoOne},
           Post(u, r, added, removed),
           Announced(Render(u, r, added, removed))
    PROVE  net' \subseteq [to : Users, msg : Message] /\ \A p \in net' : Announced(p.msg)
<1> DEFINE m == Render(u, r, added, removed)
<1>1. m \in Message
  <2>1. TypeOK BY DEF AnnInv
  <2>2. Listing(m, u, r, added, removed) BY <2>1, RenderTypes, Zenon
  <2> QED BY ONLY <2>2 DEF Listing
<1>2. Recipients(u, r, removed) \subseteq Users BY DEF Recipients, MembersOf, PastMembers
<1>3. net' = net \cup {[to |-> x, msg |-> m] : x \in Recipients(u, r, removed)} BY DEF Post
<1>4. Announced(m) OBVIOUS
<1> HIDE DEF m
<1>5. net' \subseteq [to : Users, msg : Message] BY <1>1, <1>2, <1>3 DEF AnnInv, TypeOK
<1>6. ASSUME NEW p \in net' PROVE Announced(p.msg)
  <2>1. CASE p \in net BY <2>1 DEF AnnInv
  <2>2. CASE p \notin net
    <3>1. PICK x \in Recipients(u, r, removed) : p = [to |-> x, msg |-> m] BY <1>3, <2>2
    <3>2. p.msg = m BY <3>1
    <3> QED BY <1>4, <3>2
  <2> QED BY <2>1, <2>2
<1> QED BY <1>5, <1>6

LEMMA SendTextTypes ==
    ASSUME AnnInv, NEW u \in Users, SendText(u) PROVE AnnInv'
<1>1. TypeOK /\ clock(u) \in Nat /\ clock(u) >= 1 BY ClockPositive DEF AnnInv
<1>2. vouched' \in [Users -> Nat] BY <1>1, VouchGrows DEF SendText
<1>3. rows[u] \in [Users -> Row] /\ Post(u, rows[u], NoOne, NoOne) BY <1>1 DEF SendText, TypeOK
<1>4. Announced(Render(u, rows[u], NoOne, NoOne))
  <2>1. PICK m : m = Render(u, rows[u], NoOne, NoOne) OBVIOUS
  <2>2. Listing(m, u, rows[u], NoOne, NoOne) BY <1>1, <1>3, <2>1, RenderTypes, Zenon
  <2>3. m.sent = clock(u) /\ m.added = NoOne /\ m.removed = NoOne BY ONLY <2>2 DEF Listing
  <2> QED BY <1>1, <2>1, <2>3 DEF Announced
<1>5. net' \subseteq [to : Users, msg : Message] /\ \A p \in net' : Announced(p.msg)
  BY <1>3, <1>4, PostTypes
<1>6. TypeOK' BY <1>1, <1>2, <1>5 DEF SendText, TypeOK
<1> QED BY <1>5, <1>6 DEF AnnInv

LEMMA AddMemberTypes ==
    ASSUME AnnInv, NEW u \in Users, NEW x \in Users, NEW h \in BOOLEAN, AddMember(u, x, h)
    PROVE  AnnInv'
<1> DEFINE r == IF x \in Members(u) THEN rows[u]
                ELSE [rows[u] EXCEPT ![x] = AddRow(rows[u][x], clock(u))]
<1>1. TypeOK /\ clock(u) \in Nat /\ clock(u) >= 1 BY ClockPositive DEF AnnInv
<1>2. r \in [Users -> Row] BY <1>1, RowTypes, ZenonT(40) DEF TypeOK
<1>3. x \in MembersOf(r)
  <2>1. rows[u] \in [Users -> Row] BY <1>1 DEF TypeOK
  <2>2. CASE x \in Members(u) BY <2>2 DEF Members
  <2>3. CASE x \notin Members(u)
    <3>1. r[x] = AddRow(rows[u][x], clock(u)) BY <2>1, <2>3
    <3>2. ~IsMember(rows[u][x]) BY <2>3 DEF Members, MembersOf
    <3>3. IsMember(r[x]) BY <1>1, <2>1, <3>1, <3>2, AddAdvances
    <3> QED BY <3>3 DEF MembersOf
  <2> QED BY <2>2, <2>3
<1> HIDE DEF r
<1>4. /\ vouched' = Vouch({u, x}, Larger(clock(u), r[x].add)) /\ rows' = [rows EXCEPT ![u] = r]
  BY DEF AddMember, r
<1>5. vouched' \in [Users -> Nat]
  <2>1. r[x].add \in Nat BY <1>2, <1>3, MembersIn
  <2>2. Larger(clock(u), r[x].add) \in Int BY <1>1, <2>1 DEF Larger
  <2> QED BY <1>1, <1>4, <2>2, VouchGrows
<1>6. net' \subseteq [to : Users, msg : Message] /\ \A p \in net' : Announced(p.msg)
  <2>1. CASE group'[u] = "promoted"
    <3>1. Post(u, r, x, NoOne) /\ x # u BY <2>1 DEF AddMember, r
    <3>2. Announced(Render(u, r, x, NoOne))
      <4>1. PICK m : m = Render(u, r, x, NoOne) OBVIOUS
      <4>2. Listing(m, u, r, x, NoOne) BY <1>1, <1>2, <4>1, RenderTypes, Zenon
      <4>3. /\ m.from = u /\ m.sent = clock(u) /\ m.added = x /\ m.removed = NoOne
            /\ MembersOf(r) \ {u} \subseteq m.to
        BY ONLY <4>2 DEF Listing
      <4> QED BY <1>1, <1>3, <3>1, <4>1, <4>3 DEF Announced
    <3> QED BY <1>2, <3>1, <3>2, PostTypes
  <2>2. CASE group'[u] # "promoted"
    <3>1. net' = net BY <2>2 DEF AddMember
    <3> QED BY <3>1 DEF AnnInv, TypeOK
  <2> QED BY <2>1, <2>2
<1>7. group' \in [Users -> {"none", "unpromoted", "promoted"}] BY <1>1 DEF AddMember, TypeOK
<1>8. now' = now /\ created' = created /\ listTs' = listTs /\ ops' \in 0..MaxOps
  BY <1>1, MembershipAssumption DEF AddMember, TypeOK
<1>9. TypeOK' BY <1>1, <1>2, <1>4, <1>5, <1>6, <1>7, <1>8 DEF TypeOK
<1> QED BY <1>6, <1>9 DEF AnnInv

(* A tombstone made now is always recent enough to be sent along. *)
LEMMA RemoveMemberTypes ==
    ASSUME AnnInv, NEW u \in Users, NEW x \in Users, RemoveMember(u, x)
    PROVE  AnnInv'
<1>1. TypeOK /\ clock(u) \in Nat /\ clock(u) >= 1 BY ClockPositive DEF AnnInv
<1>2. vouched' \in [Users -> Nat]
  <2>1. vouched' = Vouch({u}, clock(u)) BY DEF RemoveMember
  <2> QED BY <1>1, <2>1, VouchGrows
<1>3. now' = now /\ group' = group /\ created' = created /\ listTs' = listTs /\ ops' \in 0..MaxOps
  BY <1>1, MembershipAssumption DEF RemoveMember, TypeOK
<1>4. ASSUME group[u] = "promoted" PROVE AnnInv'
  <2> DEFINE r == [rows[u] EXCEPT ![x] = RemoveRow(rows[u][x], clock(u))]
  <2>1. rows[u][x] \in Row /\ rows[u][x] # Absent BY <1>1 DEF RemoveMember, TypeOK
  <2>2. r \in [Users -> Row] BY <1>1, <2>1, RowTypes DEF TypeOK
  <2>3. r[x] = RemoveRow(rows[u][x], clock(u)) BY <1>1 DEF TypeOK
  <2>4. r[x] # Absent /\ ~IsMember(r[x]) /\ r[x].rem >= clock(u) /\ r[x].rem \in Nat
    <3>1. rows[u][x] \in [add : Nat, rem : Nat] BY <2>1 DEF Row
    <3> QED BY <1>1, <2>3, <3>1 DEF RemoveRow, Larger, IsMember, Absent
  <2>5. Post(u, r, NoOne, x) /\ rows' = [rows EXCEPT ![u] = r] BY <1>4 DEF RemoveMember
  <2> HIDE DEF r
  <2>6. x \in PastMembers(r, clock(u)) /\ x \notin MembersOf(r)
    <3>1. r[x].rem + StalePeriod > clock(u) BY <1>1, <2>4, MembershipAssumption
    <3> QED BY <2>4, <3>1 DEF PastMembers, MembersOf
  <2>7. Announced(Render(u, r, NoOne, x))
    <3>1. PICK m : m = Render(u, r, NoOne, x) OBVIOUS
    <3>2. Listing(m, u, r, NoOne, x) BY <1>1, <2>2, <3>1, RenderTypes, Zenon
    <3>3. /\ m.sent = clock(u) /\ m.added = NoOne /\ m.removed = x
          /\ m.to \subseteq MembersOf(r) /\ m.past = PastMembers(r, clock(u))
          /\ \A y \in m.past \ m.to : m.ts[y] = r[y].rem
      BY ONLY <3>2 DEF Listing
    <3> QED BY <1>1, <2>4, <2>6, <3>1, <3>3 DEF Announced
  <2>8. net' \subseteq [to : Users, msg : Message] /\ \A p \in net' : Announced(p.msg)
    BY <2>2, <2>5, <2>7, PostTypes
  <2>9. TypeOK' BY <1>1, <1>2, <1>3, <2>2, <2>5, <2>8 DEF TypeOK
  <2> QED BY <2>8, <2>9 DEF AnnInv
<1>5. ASSUME group[u] # "promoted" PROVE AnnInv'
  <2>1. net' = net /\ rows' = [rows EXCEPT ![u][x] = Absent] BY <1>5 DEF RemoveMember
  <2>2. rows' \in [Users -> [Users -> Row]] BY <1>1, <2>1 DEF TypeOK, Row
  <2>3. TypeOK' BY <1>1, <1>2, <1>3, <2>1, <2>2 DEF TypeOK
  <2> QED BY <2>1, <2>3 DEF AnnInv
<1> QED BY <1>4, <1>5

(* What a message under way carries. *)
LEMMA PacketTypes ==
    ASSUME AnnInv, NEW p \in net
    PROVE  /\ p.to \in Users /\ p.msg \in Message /\ Announced(p.msg)
           /\ Clipped(p.to, p.msg.sent) \in Nat
           /\ ClippedTs(p.to, p.msg) \in [Users -> Nat]
           /\ \A x \in Users : ClippedTs(p.to, p.msg)[x] = Clipped(p.to, p.msg.ts[x])
<1>1. TypeOK /\ p.to \in Users /\ p.msg \in Message /\ Announced(p.msg) BY DEF AnnInv, TypeOK
<1>2. p.msg.sent \in Nat /\ p.msg.ts \in [Users -> Nat] BY <1>1 DEF Message
<1>3. Clipped(p.to, p.msg.sent) \in Nat BY <1>1, <1>2, ClippedPositive
<1>4. \A x \in Users : Clipped(p.to, p.msg.ts[x]) \in Nat BY <1>1, <1>2, ClippedPositive
<1> QED BY <1>1, <1>3, <1>4 DEF ClippedTs

LEMMA CreatedTypes ==
    ASSUME AnnInv, NEW p \in net PROVE CreatedRows(p.to, p.msg) \in [Users -> Row]
<1> DEFINE u == p.to
           m == p.msg
           empty == [x \in Users |-> Absent]
           ts == [x \in Users |-> IF x = m.from /\ x \notin m.to THEN Clipped(u, m.sent)
                                  ELSE ClippedTs(u, m)[x]]
<1>1. /\ m \in Message /\ Clipped(u, m.sent) \in Nat /\ ClippedTs(u, m) \in [Users -> Nat]
  BY PacketTypes
<1>2. m.from \in Users /\ m.to \in SUBSET Users /\ m.past \in SUBSET Users BY <1>1 DEF Message
<1>3. empty \in [Users -> Row] BY DEF Row
<1>4. ts \in [Users -> Nat] BY <1>1
<1>5. m.to \cup {m.from} \in SUBSET Users BY <1>2
<1>6. \/ CreatedRows(u, m) = UpdateTimestamps(empty, NoOne, m.to \cup {m.from}, m.past, ts)
      \/ CreatedRows(u, m) = ResetMembers({u, m.from} \cup m.to)
  BY DEF CreatedRows
<1> HIDE DEF empty, ts, u, m
<1>7. UpdateTimestamps(empty, NoOne, m.to \cup {m.from}, m.past, ts) \in [Users -> Row]
  BY <1>2, <1>3, <1>4, <1>5, UpdateTypes
<1> QED BY <1>6, <1>7, ResetTypes DEF u, m

LEMMA WithAuthorTypes ==
    ASSUME AnnInv, NEW p \in net, NEW r \in [Users -> Row]
    PROVE  WithAuthor(p.to, p.msg, r) \in [Users -> Row]
<1>1. p.msg \in Message /\ Clipped(p.to, p.msg.sent) \in Nat BY PacketTypes
<1>2. p.msg.from \in Users BY <1>1 DEF Message
<1>3. AddRow(r[p.msg.from], Clipped(p.to, p.msg.sent)) \in Row BY <1>1, <1>2, RowTypes
<1> QED BY <1>2, <1>3 DEF WithAuthor

LEMMA AppliedTypes ==
    ASSUME AnnInv, NEW p \in net, NEW r \in [Users -> Row], NEW list
    PROVE  Applied(p.to, p.msg, r, list) \in [Users -> Row]
<1> DEFINE u == p.to
           m == p.msg
           r1 == WithAuthor(u, m, r)
           t == Clipped(u, m.sent)
           ts == ClippedTs(u, m)
           S == AnnouncedMembers(u, m, MembersOf(r))
<1>1. m \in Message /\ t \in Nat /\ ts \in [Users -> Nat] BY PacketTypes
<1>2. m.to \in SUBSET Users /\ m.past \in SUBSET Users BY <1>1 DEF Message
<1>3. r1 \in [Users -> Row] BY WithAuthorTypes
<1>4. \/ Applied(u, m, r, list) = r1
      \/ Applied(u, m, r, list) = ResetMembers(m.to \cup {u, m.from})
      \/ Applied(u, m, r, list) = UpdateTimestamps(r1, m.from, m.to, m.past, ts)
      \/ Applied(u, m, r, list) = SetMembers(r1, S, t)
  BY DEF Applied
<1> HIDE DEF u, m, r1, t, ts, S
<1>5. UpdateTimestamps(r1, m.from, m.to, m.past, ts) \in [Users -> Row]
  BY <1>1, <1>2, <1>3, UpdateTypes
<1>6. SetMembers(r1, S, t) \in [Users -> Row] BY <1>1, <1>3, SetMembersOK
<1> QED BY <1>3, <1>4, <1>5, <1>6, ResetTypes DEF u, m

LEMMA ReceiveTypes ==
    ASSUME AnnInv, NEW p \in net, Receive(p) PROVE AnnInv'
<1> DEFINE u == p.to
           date == WithAuthor(u, p.msg, BaseRows(p))[p.msg.from].add
           new == Applied(u, p.msg, BaseRows(p), BaseList(p))
<1>1. /\ TypeOK /\ u \in Users /\ p.msg \in Message /\ p.msg.from \in Users
      /\ Clipped(u, p.msg.sent) \in Nat /\ clock(u) \in Nat
  BY PacketTypes, ClockPositive DEF AnnInv, Message
<1>2. BaseRows(p) \in [Users -> Row] BY <1>1, CreatedTypes DEF BaseRows, TypeOK
<1>3. BaseList(p) \in Nat BY <1>1 DEF BaseList, Smaller, MemberListTs, TypeOK
<1>4. new \in [Users -> Row] BY <1>2, AppliedTypes
<1>5. date \in Int
  <2>1. WithAuthor(u, p.msg, BaseRows(p)) \in [Users -> Row] BY <1>2, WithAuthorTypes
  <2> QED BY <1>1, <2>1, RowInts
<1>6. /\ rows' = [rows EXCEPT ![u] = new] /\ net' = net \ {p}
      /\ vouched' = Vouch({p.msg.from}, date) /\ now' = now /\ ops' = ops
  BY DEF Receive, BaseRows, BaseList
<1>7. group' \in [Users -> {"none", "unpromoted", "promoted"}] BY <1>1 DEF Receive, TypeOK
<1>8. created' \in [Users -> Nat] /\ listTs' \in [Users -> Nat]
  <2>1. created' = [created EXCEPT ![u] = BaseList(p)] \/ created' = created
    BY DEF Receive, BaseList
  <2>2. listTs' = [listTs EXCEPT ![u] = Clipped(u, p.msg.sent)] \/ listTs' = listTs
    BY DEF Receive
  <2> QED BY <1>1, <1>3, <2>1, <2>2 DEF TypeOK
<1> HIDE DEF u, date, new
<1>9. vouched' \in [Users -> Nat]
  <2>1. {p.msg.from} \in SUBSET Users BY <1>1
  <2> QED BY <1>1, <1>5, <1>6, <2>1, VouchGrows
<1>10. TypeOK' BY <1>1, <1>4, <1>6, <1>7, <1>8, <1>9 DEF TypeOK
<1> QED BY <1>6, <1>10 DEF AnnInv

(* The lists in every message say what the message announces. *)
LEMMA AnnInvariant == Spec => []AnnInv
<1>1. Init => AnnInv
  <2> SUFFICES ASSUME Init PROVE AnnInv OBVIOUS
  <2>1. TypeOK BY InitIInv DEF IInv
  <2> QED BY <2>1 DEF Init, AnnInv
<1>2. AnnInv /\ [Next]_vars => AnnInv'
  <2> SUFFICES ASSUME AnnInv PROVE [Next]_vars => AnnInv' OBVIOUS
  <2>1. ASSUME NEW u \in Users, SendText(u) PROVE AnnInv' BY <2>1, SendTextTypes
  <2>2. ASSUME NEW u \in Users, NEW x \in Users, NEW h \in BOOLEAN, AddMember(u, x, h)
        PROVE  AnnInv'
    BY <2>2, AddMemberTypes
  <2>3. ASSUME NEW u \in Users, NEW x \in Users, RemoveMember(u, x) PROVE AnnInv'
    BY <2>3, RemoveMemberTypes
  <2>4. ASSUME NEW p \in net, Receive(p) PROVE AnnInv' BY <2>4, ReceiveTypes
  <2>5. ASSUME NEW p \in net, ReceiveUnwanted(p) \/ Lose(p) PROVE AnnInv'
    BY <2>5, MembershipAssumption DEF ReceiveUnwanted, Lose, AnnInv, TypeOK
  <2>6. ASSUME Tick PROVE AnnInv' BY <2>6, MembershipAssumption DEF Tick, AnnInv, TypeOK
  <2>7. ASSUME UNCHANGED vars PROVE AnnInv' BY <2>7 DEF vars, AnnInv, TypeOK
  <2> QED BY ONLY <2>1, <2>2, <2>3, <2>4, <2>5, <2>6, <2>7 DEF Next
<1> QED BY <1>1, <1>2, PTL DEF Spec

(* TypeOK of the model (src/src/chat.rs, src/src/receive_imf.rs), stale lists *)
(* and messages without timestamps included.                                  *)
THEOREM MembershipTypes == Spec => []TypeOK
<1>1. AnnInv => TypeOK BY DEF AnnInv
<1> QED BY <1>1, AnnInvariant, PTL

(* What becomes of the member a message adds or removes, when the message is  *)
(* applied by its timestamps.                                                 *)
LEMMA HeaderEffect ==
    ASSUME NEW row \in Row, NEW t \in Nat
    PROVE  /\ IsMember(HeaderAdd(row, t)) \/ HeaderAdd(row, t).rem > t
           /\ t >= 1 => ~IsMember(HeaderRemove(row, t)) \/ HeaderRemove(row, t).add >= t
BY DEF HeaderAdd, HeaderRemove, IsMember, Row, Absent

LEMMA AppliedEffect ==
    ASSUME AnnInv, NEW p \in net, NEW r \in [Users -> Row], NEW list,
           MayChange(p.to, p.msg, MembersOf(r)),
           NEW n, n = Applied(p.to, p.msg, r, list)
    PROVE  /\ p.msg.added # NoOne =>
                \/ IsMember(n[p.msg.added])
                \/ n[p.msg.added].rem > ClippedTs(p.to, p.msg)[p.msg.added]
           /\ p.msg.removed # NoOne
              /\ (StaleAt(clock(p.to), list) => p.msg.removed \notin {p.to, p.msg.from}) =>
                \/ ~IsMember(n[p.msg.removed])
                \/ n[p.msg.removed].add >= Clipped(p.to, p.msg.sent)
<1>1. PICK u, m, r1, t, ts, S, contacts :
         /\ u = p.to /\ m = p.msg /\ r1 = WithAuthor(u, m, r) /\ t = Clipped(u, m.sent)
         /\ ts = ClippedTs(u, m) /\ S = AnnouncedMembers(u, m, contacts) /\ contacts = MembersOf(r)
  OBVIOUS
<1>2. /\ u \in Users /\ m \in Message /\ Announced(m) /\ t \in Nat /\ ts \in [Users -> Nat]
      /\ \A x \in Users : ts[x] = Clipped(u, m.ts[x])
  BY <1>1, PacketTypes
<1>3. /\ m.from \in Users /\ m.to \in SUBSET Users /\ m.past \in SUBSET Users
      /\ m.sent \in Nat /\ m.ts \in [Users -> Nat]
      /\ m.added \in Users \cup {NoOne} /\ m.removed \in Users \cup {NoOne}
  BY <1>2 DEF Message
<1>4. r1 \in [Users -> Row] BY <1>1, WithAuthorTypes
<1>5. /\ m.added = NoOne => r1 = r
      /\ \A x \in Users : x # m.from => r1[x] = r[x]
  BY <1>1, <1>3 DEF WithAuthor
<1>6. n = IF StaleAt(clock(u), list) THEN ResetMembers(m.to \cup {u, m.from})
          ELSE IF m.stamped THEN UpdateTimestamps(r1, m.from, m.to, m.past, ts)
          ELSE IF S # contacts THEN SetMembers(r1, S, t)
          ELSE r1
  BY <1>1 DEF Applied
<1>7. ASSUME m.added # NoOne PROVE IsMember(n[m.added]) \/ n[m.added].rem > ts[m.added]
  <2>1. m.added \in m.to /\ m.added # m.from /\ m.removed = NoOne /\ m.added \in Users
    BY <1>2, <1>3, <1>7 DEF Announced
  <2>2. m.added \in S BY <1>1, <2>1, MembershipAssumption DEF AnnouncedMembers
  <2>3. CASE StaleAt(clock(u), list)
    <3>1. n[m.added] = [add |-> 0, rem |-> 0] BY <1>6, <2>1, <2>3 DEF ResetMembers
    <3> QED BY <3>1 DEF IsMember
  <2>4. CASE ~StaleAt(clock(u), list) /\ m.stamped
    <3>1. n[m.added] = HeaderAdd(r1[m.added], ts[m.added]) BY <1>6, <2>1, <2>4 DEF UpdateTimestamps
    <3> QED BY <1>2, <1>4, <2>1, <3>1, HeaderEffect
  <2>5. CASE ~StaleAt(clock(u), list) /\ ~m.stamped /\ S # contacts
    BY <1>2, <1>4, <1>6, <2>1, <2>2, <2>5, SetMembersOK
  <2>6. CASE ~StaleAt(clock(u), list) /\ ~m.stamped /\ S = contacts
    BY <1>1, <1>5, <1>6, <2>1, <2>2, <2>6 DEF MembersOf
  <2> QED BY <2>3, <2>4, <2>5, <2>6
<1>8. ASSUME m.removed # NoOne, StaleAt(clock(u), list) => m.removed \notin {u, m.from}
      PROVE  ~IsMember(n[m.removed]) \/ n[m.removed].add >= t
  <2>1. /\ m.removed \in m.past /\ m.removed \notin m.to /\ m.ts[m.removed] >= m.sent
        /\ m.added = NoOne /\ m.removed \in Users /\ m.sent >= 1
    BY <1>2, <1>3, <1>8 DEF Announced
  <2>2. m.removed \notin S BY <1>1, <2>1 DEF AnnouncedMembers
  <2>3. CASE StaleAt(clock(u), list)
    <3>1. n[m.removed] = Absent BY <1>6, <1>8, <2>1, <2>3 DEF ResetMembers
    <3> QED BY <3>1 DEF IsMember, Absent
  <2>4. CASE ~StaleAt(clock(u), list) /\ m.stamped
    <3>1. n[m.removed] = HeaderRemove(r1[m.removed], ts[m.removed])
      BY <1>6, <2>1, <2>4 DEF UpdateTimestamps
    <3>2. ts[m.removed] \in Nat /\ ts[m.removed] >= 1 /\ ts[m.removed] >= t
      <4>1. TypeOK /\ m.ts[m.removed] \in Nat /\ m.ts[m.removed] >= 1 BY <1>3, <2>1 DEF AnnInv
      <4>2. Clipped(u, m.ts[m.removed]) \in Nat /\ Clipped(u, m.ts[m.removed]) >= 1
        BY <1>2, <4>1, ClippedPositive
      <4>3. Clipped(u, m.ts[m.removed]) >= Clipped(u, m.sent)
        BY <1>2, <1>3, <2>1, <4>1, ClippedPositive
      <4> QED BY <1>1, <1>2, <2>1, <4>2, <4>3
    <3>3. r1[m.removed] \in Row /\ n[m.removed] \in Row BY <1>4, <2>1, <3>1, <3>2, RowTypes
    <3>4. ~IsMember(n[m.removed]) \/ n[m.removed].add >= ts[m.removed]
      BY <3>1, <3>2, <3>3, HeaderEffect
    <3>5. n[m.removed].add \in Int BY <3>3, RowInts
    <3> QED BY <1>2, <3>2, <3>4, <3>5
  <2>5. CASE ~StaleAt(clock(u), list) /\ ~m.stamped /\ S # contacts
    BY <1>2, <1>4, <1>6, <2>1, <2>2, <2>5, SetMembersOK
  <2>6. CASE ~StaleAt(clock(u), list) /\ ~m.stamped /\ S = contacts
    BY <1>1, <1>5, <1>6, <2>1, <2>2, <2>6 DEF MembersOf
  <2> QED BY <2>3, <2>4, <2>5, <2>6
<1> QED BY <1>1, <1>7, <1>8

(* ChangeTakesEffect for any number of users, any clocks and any order of     *)
(* delivery, whether or not lists grow stale or messages lack timestamps:     *)
(* apply_group_changes carries out what an accepted message announces.        *)
THEOREM AnnouncedHappens == Spec => ChangeTakesEffect
<1> DEFINE Goal(p) ==
      LET u == p.to
          m == p.msg
          row(x) == rows'[u][x]
      IN Receive(p) /\ group[u] # "none" /\ MayChange(u, m, Members(u)) =>
           /\ m.added # NoOne =>
                IsMember(row(m.added)) \/ row(m.added).rem > ClippedTs(u, m)[m.added]
           /\ m.removed # NoOne /\ (Stale(u) => m.removed \notin {u, m.from}) =>
                ~IsMember(row(m.removed)) \/ row(m.removed).add >= Clipped(u, m.sent)
<1>1. AnnInv => \A p \in net : Goal(p)
  <2> SUFFICES ASSUME AnnInv, NEW p \in net, Receive(p), group[p.to] # "none",
                      MayChange(p.to, p.msg, Members(p.to))
               PROVE  Goal(p)
    OBVIOUS
  <2>1. PICK n : n = Applied(p.to, p.msg, rows[p.to], MemberListTs(p.to)) OBVIOUS
  <2>2. p.to \in Users /\ rows[p.to] \in [Users -> Row] BY PacketTypes DEF AnnInv, TypeOK
  <2>3. rows'[p.to] = n BY <2>1, <2>2 DEF Receive, AnnInv, TypeOK
  <2> QED BY <2>1, <2>2, <2>3, AppliedEffect DEF Members, Stale
<1> QED BY <1>1, AnnInvariant, PTL DEF ChangeTakesEffect

=============================================================================

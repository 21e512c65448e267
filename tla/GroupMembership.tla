--------------------------- MODULE GroupMembership ---------------------------
(***************************************************************************)
(* The member list of one encrypted group on every member's device: local  *)
(* additions and removals (src/src/chat.rs), the list each message carries *)
(* (src/src/mimefactory.rs) and how a received list is merged              *)
(* (src/src/receive_imf.rs).  There is no server state: messages may be    *)
(* lost, delayed and reordered.  Each message is processed at most once.   *)
(*                                                                         *)
(* One device per user; everybody has everybody's key.                     *)
(***************************************************************************)
EXTENDS Integers, FiniteSets

CONSTANTS
    Users,        \* users, one device each
    Creator,      \* the user who creates the group
    Skew,         \* Skew[u]: by how much u's clock is ahead
    Tolerance,    \* TIMESTAMP_SENT_TOLERANCE
    StalePeriod,  \* the 60 days after which a list is stale and a tombstone is forgotten
    MaxTime,      \* bound on the clock
    MaxOps,       \* bound: additions, removals and lost messages
    MaxInFlight,  \* bound: messages in the network from one sender
    MaxNet,       \* bound: messages in the network
    NoOne         \* no contact

ASSUME MembershipAssumption ==
    /\ IsFiniteSet(Users) /\ Creator \in Users /\ NoOne \notin Users
    /\ Skew \in [Users -> Nat]
    /\ Tolerance \in Nat /\ StalePeriod \in Nat \ {0}
    /\ MaxTime \in Nat \ {0} /\ MaxOps \in Nat /\ MaxInFlight \in Nat /\ MaxNet \in Nat

VARIABLES
    now,      \* the true time
    rows,     \* rows[u][x]: the row of x in u's chats_contacts table
    group,    \* group[u]: u has no such chat, or it is unpromoted (no message sent) or promoted
    created,  \* created[u]: chats.created_timestamp
    listTs,   \* listTs[u]: Param::MemberListTimestamp, 0 if unset
    net,      \* messages under way, one per recipient
    ops,      \* additions, removals and lost messages so far (bounds the instance)
    vouched   \* history: vouched[x], the latest time for which somebody added x or x wrote to the group

vars == <<now, rows, group, created, listTs, net, ops, vouched>>

Larger(a, b) == IF a >= b THEN a ELSE b
Smaller(a, b) == IF a <= b THEN a ELSE b

(* A row; no row is a non-member that nobody has removed. *)
Absent == [add |-> -1, rem |-> 0]
Row == {Absent} \cup [add : Nat, rem : Nat]
IsMember(row) == row.add >= row.rem
MembersOf(r) == {x \in Users : IsMember(r[x])}

Message == [from : Users, sent : Nat, added : Users \cup {NoOne}, removed : Users \cup {NoOne},
            stamped : BOOLEAN, to : SUBSET Users, past : SUBSET Users, ts : [Users -> Nat]]

TypeOK ==
    /\ now \in 1..MaxTime
    /\ rows \in [Users -> [Users -> Row]]
    /\ group \in [Users -> {"none", "unpromoted", "promoted"}]
    /\ created \in [Users -> Nat]
    /\ listTs \in [Users -> Nat]
    /\ net \subseteq [to : Users, msg : Message]
    /\ ops \in 0..MaxOps
    /\ vouched \in [Users -> Nat]

clock(u) == now + Skew[u]
Members(u) == MembersOf(rows[u])

-----------------------------------------------------------------------------
(* The table. *)

(* add_to_chat_contacts_table *)
AddRow(row, t) == [add |-> Larger(row.rem, t), rem |-> row.rem]

(* remove_from_chat_contacts_table, for a row that exists. *)
RemoveRow(row, t) == [add |-> row.add, rem |-> Larger(row.add + 1, t)]

(* update_chats_contacts_timestamps: an addition or a removal from a header. *)
(* Mutants: the other timestamp is not compared.                             *)
HeaderAddBlind(row, t) == IF t > row.add THEN [add |-> Larger(t, row.rem), rem |-> row.rem] ELSE row
HeaderAdd(row, t) == IF t > row.add /\ t >= row.rem THEN [add |-> t, rem |-> row.rem] ELSE row

HeaderRemoveBlind(row, t) ==
    IF row = Absent THEN [add |-> 0, rem |-> t] ELSE [add |-> row.add, rem |-> t]
HeaderRemove(row, t) ==
    IF row = Absent THEN [add |-> 0, rem |-> t]
    ELSE IF t > row.rem /\ t > row.add THEN [add |-> row.add, rem |-> t]
    ELSE row

UpdateTimestamps(r, ignored, to, past, ts) ==
    [x \in Users |-> IF x \in to \ {ignored} THEN HeaderAdd(r[x], ts[x])
                     ELSE IF x \in past THEN HeaderRemove(r[x], ts[x])
                     ELSE r[x]]

(* update_chat_contacts_table: exactly the given members, as of time t. *)
SetMembers(r, members, t) ==
    [x \in Users |->
       LET bumped == IF r[x] = Absent THEN Absent ELSE RemoveRow(r[x], t) IN
       IF x \notin members THEN bumped
       ELSE IF bumped = Absent THEN [add |-> t, rem |-> 0]
       ELSE [bumped EXCEPT !.add = bumped.rem]]

(* The stale list is thrown away, tombstones included. *)
ResetMembers(members) == [x \in Users |-> IF x \in members THEN [add |-> 0, rem |-> 0] ELSE Absent]

-----------------------------------------------------------------------------
(* Sending. *)

(* member_list_is_stale *)
StaleAt(t, list) == t + Tolerance >= list + StalePeriod
MemberListTs(u) == IF listTs[u] = 0 THEN created[u] ELSE listTs[u]
Stale(u) == StaleAt(clock(u), MemberListTs(u))

(* Tombstones that are recent enough to be sent along.  Mutant: the old ones are sent. *)
ForgottenMembers(r, t) == {x \in Users : /\ r[x] # Absent /\ ~IsMember(r[x])
                                         /\ r[x].rem + StalePeriod <= t}
PastMembers(r, t) == {x \in Users : /\ r[x] # Absent /\ ~IsMember(r[x])
                                    /\ r[x].rem + StalePeriod > t}

(* The headers of a message u sends with the table r. *)
Render(u, r, added, removed) ==
    LET members == MembersOf(r)
        past == PastMembers(r, clock(u))
        to == IF members # {u} THEN members \ {u} ELSE members
    IN [from |-> u, sent |-> clock(u), added |-> added, removed |-> removed,
        stamped |-> to \cup past # {} /\ ~Stale(u),
        to |-> to, past |-> past,
        ts |-> [x \in Users |-> IF x \in to THEN r[x].add ELSE IF x \in past THEN r[x].rem ELSE 0]]

(* The removed member is told as well. *)
Recipients(u, r, removed) ==
    (MembersOf(r) \cup ({removed} \cap PastMembers(r, clock(u)))) \ {u}

Post(u, r, added, removed) ==
    /\ net' = net \cup {[to |-> x, msg |-> Render(u, r, added, removed)]
                          : x \in Recipients(u, r, removed)}
    /\ Cardinality({p \in net' : p.msg.from = u}) <= MaxInFlight
    /\ Cardinality(net') <= MaxNet

(* History: the users in S are members as of time t. *)
Vouch(S, t) == [x \in Users |-> IF x \in S THEN Larger(vouched[x], t) ELSE vouched[x]]

SendText(u) ==
    /\ group[u] # "none" /\ u \in Members(u)
    /\ Post(u, rows[u], NoOne, NoOne)
    /\ group' = [group EXCEPT ![u] = "promoted"]
    /\ vouched' = Vouch({u}, clock(u))
    /\ UNCHANGED <<now, rows, created, listTs, ops>>

(* add_contact_to_chat_ex; the addition may come from a SecureJoin handshake. *)
AddMember(u, x, from_handshake) ==
    /\ ops < MaxOps /\ ops' = ops + 1
    /\ group[u] # "none" /\ u \in Members(u) /\ x # u
    /\ x \in Members(u) => from_handshake
    /\ LET r == IF x \in Members(u) THEN rows[u]
                ELSE [rows[u] EXCEPT ![x] = AddRow(rows[u][x], clock(u))]
       IN /\ rows' = [rows EXCEPT ![u] = r]
          /\ vouched' = Vouch({u, x}, Larger(clock(u), r[x].add))
          /\ group' = IF from_handshake THEN [group EXCEPT ![u] = "promoted"] ELSE group
          /\ IF group'[u] = "promoted" THEN Post(u, r, x, NoOne) ELSE net' = net
    /\ UNCHANGED <<now, created, listTs>>

(* remove_contact_from_chat; u leaves if x = u.  An unpromoted group keeps no *)
(* trace of the removed member.                                               *)
RemoveMember(u, x) ==
    /\ ops < MaxOps /\ ops' = ops + 1
    /\ group[u] # "none" /\ u \in Members(u)
    /\ rows[u][x] # Absent
    /\ \/ /\ group[u] = "promoted"
          /\ LET r == [rows[u] EXCEPT ![x] = RemoveRow(rows[u][x], clock(u))]
             IN /\ rows' = [rows EXCEPT ![u] = r]
                /\ Post(u, r, NoOne, x)
       \/ /\ group[u] = "unpromoted"
          /\ rows' = [rows EXCEPT ![u][x] = Absent]
          /\ net' = net
    /\ vouched' = Vouch({u}, clock(u))
    /\ UNCHANGED <<now, group, created, listTs>>

-----------------------------------------------------------------------------
(* Receiving. *)

(* Timestamps from the future are cut back to the receiver's clock. *)
Clipped(u, t) == Smaller(clock(u) + Tolerance, t)
ClippedTs(u, m) == [x \in Users |-> Clipped(u, m.ts[x])]

(* create_group: the member list of a new chat; the sender's own timestamp,   *)
(* which To does not carry, is taken to be that of the message.               *)
CreatedRows(u, m) ==
    IF m.stamped
    THEN UpdateTimestamps([x \in Users |-> Absent], NoOne, m.to \cup {m.from}, m.past,
            [x \in Users |-> IF x = m.from /\ x \notin m.to THEN Clipped(u, m.sent)
                             ELSE ClippedTs(u, m)[x]])
    ELSE ResetMembers({u, m.from} \cup m.to)

(* apply_group_changes for a message without timestamps: only the change it announces. *)
(* Mutant: the removal is forgotten.                                                   *)
AnnouncedNotRemoved(u, m, contacts) == (contacts \cup {m.added}) \cap Users
AnnouncedMembers(u, m, contacts) ==
    LET base == IF m.added = u /\ u \notin contacts THEN m.to \cup {u, m.from} ELSE contacts
    IN ((base \cup {m.added}) \ {m.removed}) \cap Users

(* is_from_in_chat *)
MayChange(u, m, contacts) == u \notin contacts \/ m.from \in contacts

(* Whoever adds somebody is a member. *)
WithAuthor(u, m, r) ==
    IF m.added # NoOne /\ MayChange(u, m, MembersOf(r)) /\ m.from \notin MembersOf(r)
    THEN [r EXCEPT ![m.from] = AddRow(r[m.from], Clipped(u, m.sent))] ELSE r

(* apply_group_changes *)
Applied(u, m, r, list) ==
    LET contacts == MembersOf(r)
        r1 == WithAuthor(u, m, r)
        announced == AnnouncedMembers(u, m, contacts)
    IN IF ~MayChange(u, m, contacts) THEN r1
       ELSE IF StaleAt(clock(u), list) THEN ResetMembers(m.to \cup {u, m.from})
       ELSE IF m.stamped THEN UpdateTimestamps(r1, m.from, m.to, m.past, ClippedTs(u, m))
       ELSE IF announced # contacts THEN SetMembers(r1, announced, Clipped(u, m.sent))
       ELSE r1

(* A late "quit" of an unknown group is dropped. *)
ReceiveUnwanted(p) ==
    /\ p \in net /\ net' = net \ {p}
    /\ group[p.to] = "none" /\ p.msg.removed # NoOne
    /\ UNCHANGED <<now, rows, group, created, listTs, ops, vouched>>

(* The first message creates the chat; every message is then applied to it. *)
Receive(p) ==
    /\ p \in net /\ net' = net \ {p}
    /\ group[p.to] # "none" \/ p.msg.removed = NoOne
    /\ LET u == p.to
           m == p.msg
           sent == Clipped(u, m.sent)
           new == group[u] = "none"
           r == IF new THEN CreatedRows(u, m) ELSE rows[u]
           list == IF new THEN Smaller(sent, clock(u)) ELSE MemberListTs(u)
       IN /\ rows' = [rows EXCEPT ![u] = Applied(u, m, r, list)]
          /\ group' = IF new THEN [group EXCEPT ![u] = "promoted"] ELSE group
          /\ created' = IF new THEN [created EXCEPT ![u] = list] ELSE created
          /\ listTs' = IF MayChange(u, m, MembersOf(r)) /\ sent >= listTs[u]
                       THEN [listTs EXCEPT ![u] = sent] ELSE listTs
          /\ vouched' = Vouch({m.from}, WithAuthor(u, m, r)[m.from].add)
    /\ UNCHANGED <<now, ops>>

Lose(p) ==
    /\ ops < MaxOps /\ ops' = ops + 1
    /\ p \in net /\ net' = net \ {p}
    /\ UNCHANGED <<now, rows, group, created, listTs, vouched>>

Tick ==
    /\ now < MaxTime /\ now' = now + 1
    /\ UNCHANGED <<rows, group, created, listTs, net, ops, vouched>>

(* create_group_ex has run on the creator's device. *)
Init ==
    /\ now = 1
    /\ rows = [u \in Users |-> [x \in Users |-> IF u = Creator /\ x = Creator
                                                THEN AddRow(Absent, 1 + Skew[u]) ELSE Absent]]
    /\ group = [u \in Users |-> IF u = Creator THEN "unpromoted" ELSE "none"]
    /\ created = [u \in Users |-> IF u = Creator THEN 1 + Skew[u] ELSE 0]
    /\ listTs = [u \in Users |-> 0]
    /\ net = {}
    /\ ops = 0
    /\ vouched = [x \in Users |-> IF x = Creator THEN 1 + Skew[x] ELSE 0]

Next ==
    \/ \E u \in Users : SendText(u)
    \/ \E u, x \in Users, h \in BOOLEAN : AddMember(u, x, h)
    \/ \E u, x \in Users : RemoveMember(u, x)
    \/ \E p \in net : Receive(p) \/ ReceiveUnwanted(p) \/ Lose(p)
    \/ Tick

Spec == Init /\ [][Next]_vars

Deliver(u, v) == \E p \in net : /\ p.to = v /\ p.msg.from = u
                                /\ Receive(p) \/ ReceiveUnwanted(p)

(* Members keep writing to the group, and what is not lost is delivered. *)
Fairness ==
    \A u \in Users :
       /\ WF_vars(SendText(u) /\ \A p \in net : p.msg.from # u)
       /\ \A v \in Users \ {u} : WF_vars(Deliver(u, v))
FairSpec == Spec /\ Fairness

-----------------------------------------------------------------------------
(* No device takes back what it knows: whatever the order in which local      *)
(* changes and lists from others arrive, neither timestamp of a row goes      *)
(* down, so an old list cannot undo a newer addition or removal.  The one     *)
(* exception is harmless: a user may remove again whom a list stamped by a    *)
(* faster clock has removed already.                                          *)
Advances(old, new) == new.add >= old.add /\ new.rem >= old.rem
RowsAdvance ==
    [][\A u, x \in Users :
         group[u] = "promoted" =>
            \/ Advances(rows[u][x], rows'[u][x])
            \/ ~IsMember(rows[u][x]) /\ ~IsMember(rows'[u][x])]_vars

(* A user who left or learned of their removal is in the group again, on      *)
(* their own device, only if at or after that time somebody added them or     *)
(* they wrote to the group themselves.                                        *)
OutUntilVouched ==
    [][\A u \in Users :
         group[u] # "none" /\ u \notin Members(u) /\ u \in MembersOf(rows'[u])
           => vouched[u] >= rows[u][u].rem]_vars

(* Whoever accepts a message that announces an addition or a removal sees it  *)
(* take effect, unless it has been overtaken.  A stale list is an exception:  *)
(* it is replaced by one that has the receiver and the sender in it, even if  *)
(* the message says that one of them is out.                                  *)
ChangeTakesEffect ==
    [][\A p \in net :
         LET u == p.to
             m == p.msg
             row(x) == rows'[u][x]
         IN Receive(p) /\ group[u] # "none" /\ MayChange(u, m, Members(u)) =>
              /\ m.added # NoOne =>
                   IsMember(row(m.added)) \/ row(m.added).rem > ClippedTs(u, m)[m.added]
              /\ m.removed # NoOne /\ (Stale(u) => m.removed \notin {u, m.from}) =>
                   ~IsMember(row(m.removed)) \/ row(m.removed).add >= Clipped(u, m.sent)]_vars

(* Two users who count each other and themselves as members come to agree on  *)
(* who else is one, however the messages about it were lost or reordered.     *)
Mutual(u, v) == {u, v} \subseteq Members(u) /\ {u, v} \subseteq Members(v)
Agreement == \A u, v \in Users : Mutual(u, v) => Members(u) = Members(v)
Converges == <>[]Agreement
=============================================================================

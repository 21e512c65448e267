------------------------------ MODULE Transports ------------------------------
(***************************************************************************)
(* The transports (relays) of a profile that is used on several devices:   *)
(* adding, reconfiguring, unpublishing and deleting a transport            *)
(* (src/configure.rs), choosing the primary one (src/config.rs), the sync  *)
(* message that follows each change and what it does on the other devices  *)
(* (src/transport.rs, src/sync.rs), and the cached public key that lists   *)
(* the published relays (src/key.rs).  Sync messages are self-sent mail:   *)
(* every device reads them in the order of the mailbox.                    *)
(* A login parameter set is a version number; the connection tests of      *)
(* configure, which succeed or leave no trace, are left out.               *)
(***************************************************************************)
EXTENDS Integers, Sequences, FiniteSets

CONSTANTS Devices, Addrs,
          First,        \* the address of the initial configuration: row 1, never synced
          Start,        \* the addresses configured at first, First among them
          NoAddr,
          Relays,       \* MAX_TRANSPORT_RELAYS
          Crossing,     \* whether devices make changes before they have read all mail
          MaxTime, MaxChanges

VARIABLES tr,           \* tr[d]: the transports table, [addr -> row or NoTransport]
          one,          \* one[d]: whether row 1 is still there
          rm,           \* rm[d]: removed_transports, [addr -> remove_timestamp or 0]
          primary,      \* primary[d]: configured_addr
          cached,       \* cached[d]: configured_addr as the config cache has it
          op,           \* op[d]: how far the API call has come that made a change
          items,        \* items[d]: multi_device_sync, sync items not yet sent
          incoming,     \* incoming[d]: sync items of the message being read, not yet executed
          follow,       \* follow[d]: the sender of that message, or NoAddr
          stale,        \* stale[d]: the inbox loop changed the tables and not yet the key
          key,          \* key[d]: the cached self_public_key
          loading,      \* loading[d]: the timestamp load_self_public_key_opt has read
          log,          \* sync messages in the mailbox
          read,         \* read[d]: how many of them the device has processed
          now, changes,
          used          \* history: addresses that were primary somewhere

vars == <<tr, one, rm, primary, cached, op, items, incoming, follow, stale, key, loading, log, read, now, changes, used>>

NoTransport == [ver |-> 0, ts |-> 0, pub |-> FALSE]
NotLoaded == [ts |-> 0, addrs |-> {}]
Has(t) == {a \in Addrs : t[a] # NoTransport}
MaxOf(S) == CHOOSE x \in S : \A y \in S : y <= x

TypeOK ==
    /\ tr \in [Devices -> [Addrs -> [ver : 0 .. MaxChanges + 1, ts : 0 .. MaxTime, pub : BOOLEAN]]]
    /\ one \in [Devices -> BOOLEAN]
    /\ rm \in [Devices -> [Addrs -> 0 .. MaxTime]]
    /\ primary \in [Devices -> Addrs] /\ cached \in [Devices -> Addrs]
    /\ follow \in [Devices -> Addrs \cup {NoAddr}]
    /\ op \in [Devices -> {"no", "announce", "announce_primary", "uncache"}] /\ stale \in [Devices -> BOOLEAN]
    /\ key \in [Devices -> [ts : 0 .. MaxTime, addrs : SUBSET Addrs]]
    /\ loading \in [Devices -> 0 .. MaxTime]
    /\ read \in [Devices -> 0 .. Len(log)]
    /\ now \in 1 .. MaxTime /\ changes \in 0 .. MaxChanges

\* The second device was set up from a backup of the first.
Init ==
    /\ tr = [d \in Devices |-> [a \in Addrs |->
                IF a \in Start THEN [ver |-> 1, ts |-> 1, pub |-> TRUE] ELSE NoTransport]]
    /\ one = [d \in Devices |-> TRUE]
    /\ rm = [d \in Devices |-> [a \in Addrs |-> 0]]
    /\ primary = [d \in Devices |-> First] /\ cached = primary
    /\ follow = [d \in Devices |-> NoAddr] /\ incoming = [d \in Devices |-> <<>>]
    /\ op = [d \in Devices |-> "no"] /\ items = [d \in Devices |-> <<>>] /\ stale = [d \in Devices |-> FALSE]
    /\ key = [d \in Devices |-> NotLoaded]
    /\ loading = [d \in Devices |-> 0]
    /\ log = <<>> /\ read = [d \in Devices |-> 0]
    /\ now = 1 /\ changes = 0 /\ used = {First}

Current(d) == follow[d] = NoAddr /\ \A i \in read[d] + 1 .. Len(log) : log[i].from = d
CaughtUp(d) == op[d] = "no" /\ items[d] = <<>> /\ Current(d)
MayChange(d) ==
    /\ changes < MaxChanges /\ changes' = changes + 1
    /\ op[d] = "no"
    /\ Crossing \/ (Current(d) /\ \A e \in Devices \ {d} : CaughtUp(e))

----------------------------------------------------------------------------
\* save_transport: INSERT ... ON CONFLICT (addr) DO UPDATE ... WHERE something
\* differs or the timestamp is newer.
Saved(old, new) ==
    IF \/ old.ver # new.ver
       \/ old.ts < new.ts
       \/ old.pub # new.pub
    THEN new ELSE old

\* add_or_update_transport, once the connection has been tested; the tests take
\* longer than the second in which the address may have been removed.
AddOrUpdate(d, a) ==
    /\ MayChange(d)
    /\ rm[d][a] < now
    /\ a \in Has(tr[d]) \/ Cardinality(Has(tr[d])) < Relays
    /\ tr' = [tr EXCEPT ![d][a] = Saved(@, [ver |-> changes + 2, ts |-> now, pub |-> TRUE])]
    /\ op' = [op EXCEPT ![d] = "announce"]
    /\ UNCHANGED <<one, rm, primary, cached, incoming, follow, stale, key, loading, log, read, now, items, used>>

RemovedAt(add) == IF add > now THEN add ELSE now

MayDelete(d, a) == a # primary[d]

delete_transport(d, a) ==
    /\ MayChange(d)
    /\ MayDelete(d, a) /\ a \in Has(tr[d])
    /\ tr' = [tr EXCEPT ![d][a] = NoTransport]
    /\ one' = [one EXCEPT ![d] = @ /\ a # First]
    /\ rm' = [rm EXCEPT ![d][a] = RemovedAt(tr[d][a].ts)]
    /\ op' = [op EXCEPT ![d] = "announce"]
    /\ UNCHANGED <<primary, cached, incoming, follow, stale, key, loading, log, read, now, items, used>>

set_transport_unpublished(d, a, unpublished) ==
    /\ MayChange(d)
    /\ ~(a = primary[d] /\ unpublished)
    /\ tr' = IF a \in Has(tr[d]) /\ tr[d][a].pub = unpublished
             THEN [tr EXCEPT ![d][a].pub = ~unpublished, ![d][a].ts = now]
             ELSE tr
    /\ op' = [op EXCEPT ![d] = "announce"]
    /\ UNCHANGED <<one, rm, primary, cached, incoming, follow, stale, key, loading, log, read, now, items, used>>

\* set_config(ConfiguredAddr)
SetPrimary(d, a) ==
    /\ MayChange(d)
    /\ a \in Has(tr[d])
    /\ primary' = [primary EXCEPT ![d] = a]
    /\ used' = used \cup {a}
    /\ tr' = [tr EXCEPT ![d][a].ts = now, ![d][a].pub = TRUE]
    /\ op' = [op EXCEPT ![d] = "announce_primary"]
    /\ UNCHANGED <<one, rm, cached, incoming, follow, stale, key, loading, log, read, now, items>>

\* send_sync_transports: the cached key is dropped (once no one holds its
\* lock), and the tables but for row 1 become a sync item.
KeepKey(k) == k
DropKey(k) == NotLoaded

send_sync_transports(d) ==
    /\ op[d] \in {"announce", "announce_primary"} /\ loading[d] = 0
    /\ key' = [key EXCEPT ![d] = DropKey(@)]
    /\ items' = [items EXCEPT ![d] = Append(@,
                  [rm |-> rm[d],
                   tr |-> [a \in Addrs |-> IF a = First /\ one[d] THEN NoTransport ELSE tr[d][a]]])]
    /\ op' = [op EXCEPT ![d] = IF @ = "announce" THEN "no" ELSE "uncache"]
    /\ UNCHANGED <<tr, one, rm, primary, cached, incoming, follow, stale, loading, log, read, now, changes, used>>

\* set_config forgets the cached configured_addr only now.
Uncache(d) ==
    /\ op[d] = "uncache"
    /\ cached' = [cached EXCEPT ![d] = primary[d]]
    /\ op' = [op EXCEPT ![d] = "no"]
    /\ UNCHANGED <<tr, one, rm, primary, items, incoming, follow, stale, key, loading, log, read, now, changes, used>>

\* send_sync_msg puts all items into one message.
send_sync_msg(d) ==
    /\ items[d] # <<>>
    /\ log' = Append(log, [from |-> d, addr |-> cached[d], items |-> items[d]])
    /\ items' = [items EXCEPT ![d] = <<>>]
    /\ UNCHANGED <<tr, one, rm, primary, cached, op, incoming, follow, stale, key, loading, read, now, changes, used>>

\* sync_transports: the transports of the message are saved, then the removals
\* are applied, except to the primary transport of this device.
AfterAdds(t, m) == [a \in Addrs |->
    IF m.tr[a] = NoTransport THEN t[a]
    ELSE IF t[a] = NoTransport THEN m.tr[a] ELSE Saved(t[a], m.tr[a])]

Applied(d, t, m) == {a \in Addrs : m.rm[a] # 0 /\ a # primary[d]}

OutdatedUnlessTie(row, removed) == row.ts < removed
Outdated(row, removed) == row.ts <= removed

Merged(d, old, m) ==
    LET added == AfterAdds(old.tr, m)
        gone  == {a \in Applied(d, added, m) : Outdated(added[a], m.rm[a])}
    IN [tr  |-> [a \in Addrs |-> IF a \in gone THEN NoTransport ELSE added[a]],
        one |-> old.one /\ First \notin gone,
        rm  |-> [a \in Addrs |-> IF a \in Applied(d, added, m) /\ m.rm[a] > old.rm[a]
                                 THEN m.rm[a] ELSE old.rm[a]]]

\* One sync item is executed after the other.
sync_transports(d) ==
    /\ incoming[d] # <<>> /\ ~stale[d]
    /\ LET merged == Merged(d, [tr |-> tr[d], one |-> one[d], rm |-> rm[d]], Head(incoming[d]))
       IN /\ tr' = [tr EXCEPT ![d] = merged.tr]
          /\ one' = [one EXCEPT ![d] = merged.one]
          /\ rm' = [rm EXCEPT ![d] = merged.rm]
          /\ stale' = [stale EXCEPT ![d] = merged.tr # tr[d]]
    /\ incoming' = [incoming EXCEPT ![d] = Tail(@)]
    /\ UNCHANGED <<primary, cached, op, items, follow, key, loading, log, read, now, changes, used>>

\* The inbox loop reads the next sync message; own ones are recognised.
Receive(d) ==
    /\ read[d] < Len(log) /\ ~stale[d] /\ follow[d] = NoAddr
    /\ read' = [read EXCEPT ![d] = @ + 1]
    /\ LET m == log[read[d] + 1]
       IN IF m.from = d
          THEN UNCHANGED <<incoming, follow>>
          ELSE /\ incoming' = [incoming EXCEPT ![d] = m.items]
               /\ follow' = [follow EXCEPT ![d] = m.addr]
    /\ UNCHANGED <<tr, one, rm, primary, cached, op, items, stale, key, loading, log, now, changes, used>>

\* The cached key is dropped if they modified the table.
ForgetKey(d) ==
    /\ stale[d] /\ loading[d] = 0
    /\ stale' = [stale EXCEPT ![d] = FALSE]
    /\ key' = [key EXCEPT ![d] = DropKey(@)]
    /\ UNCHANGED <<tr, one, rm, primary, cached, op, items, incoming, follow, loading, log, read, now, changes, used>>

\* The address the sync items came from becomes the primary one, if there is
\* such a transport.
Followed(d, a) == a \in Has(tr[d])

FollowPrimary(d) ==
    /\ follow[d] # NoAddr /\ incoming[d] = <<>> /\ ~stale[d]
    /\ primary' = [primary EXCEPT ![d] = IF Followed(d, follow[d]) THEN follow[d] ELSE @]
    /\ cached' = [cached EXCEPT ![d] = IF primary'[d] # primary[d] THEN primary'[d] ELSE @]
    /\ stale' = [stale EXCEPT ![d] = primary'[d] # primary[d]]
    /\ follow' = [follow EXCEPT ![d] = NoAddr]
    /\ used' = used \cup {primary'[d]}
    /\ UNCHANGED <<tr, one, rm, op, items, incoming, key, loading, log, read, now, changes>>

----------------------------------------------------------------------------
\* load_self_public_key_opt holds the lock of the cache while it reads first
\* the timestamp and then the published addresses.
KeyTimestamp(d) == MaxOf({tr[d][a].ts : a \in Addrs} \cup {rm[d][a] : a \in Addrs})
Published(d) == {a \in Has(tr[d]) : tr[d][a].pub}

LoadKey(d) ==
    /\ key[d] = NotLoaded /\ loading[d] = 0
    /\ loading' = [loading EXCEPT ![d] = KeyTimestamp(d)]
    /\ UNCHANGED <<tr, one, rm, primary, cached, op, items, incoming, follow, stale, key, log, read, now, changes, used>>

StoreKey(d) ==
    /\ loading[d] # 0
    /\ key' = [key EXCEPT ![d] = [ts |-> loading[d], addrs |-> Published(d)]]
    /\ loading' = [loading EXCEPT ![d] = 0]
    /\ UNCHANGED <<tr, one, rm, primary, cached, op, items, incoming, follow, stale, log, read, now, changes, used>>

Tick ==
    /\ now < MaxTime
    /\ now' = now + 1
    /\ UNCHANGED <<tr, one, rm, primary, cached, op, items, incoming, follow, stale, key, loading, log, read, changes, used>>

Next ==
    \/ \E d \in Devices, a \in Addrs :
         \/ AddOrUpdate(d, a)
         \/ delete_transport(d, a)
         \/ SetPrimary(d, a)
         \/ \E u \in BOOLEAN : set_transport_unpublished(d, a, u)
    \/ \E d \in Devices : send_sync_transports(d) \/ Uncache(d) \/ send_sync_msg(d) \/ Receive(d) \/ sync_transports(d) \/ FollowPrimary(d) \/ ForgetKey(d)
                         \/ LoadKey(d) \/ StoreKey(d)
    \/ Tick

Spec == Init /\ [][Next]_vars

----------------------------------------------------------------------------
\* configured_addr always names a transport: neither deleting here nor a
\* removal synced from another device, with whatever primary that one has,
\* takes away the transport this device sends from.
PrimaryExists == \A d \in Devices : primary[d] \in Has(tr[d])

\* Once all sync messages are read the devices have the same transports, up to
\* row 1, which is not synced, and those that were primary somewhere, which are
\* not removed there: additions and removals are resolved by their timestamps.
Quiet == \A d \in Devices : CaughtUp(d)
TransportsAgree ==
    Quiet => \A d, e \in Devices, a \in Addrs \ (used \cup {First}) : tr[d][a] = tr[e][a]

\* Every device can send, and they come to the same transports.
TransportsSound == PrimaryExists /\ TransportsAgree

\* A transport that is not primary is in the table only if it was added after
\* its removal: additions and removals are compared by timestamp and "in case of
\* a tie [...] removal wins".  Does not hold, see the README.
RemovalWins ==
    \A d \in Devices, a \in Addrs :
        a \in Has(tr[d]) /\ a # primary[d] => tr[d][a].ts > rm[d][a]

\* The cached public key lists the published relays whenever no change is
\* waiting to be announced: no interleaving of changes made here or synced from
\* another device with the loading of the key leaves old relays in the cache.
KeyIsCurrent ==
    \A d \in Devices :
        op[d] \in {"no", "uncache"} /\ ~stale[d] /\ key[d] # NotLoaded => key[d].addrs = Published(d)
=============================================================================

------------------------------- MODULE Accounts -------------------------------
(***************************************************************************)
(* The accounts manager (src/accounts.rs): accounts.toml in memory and on  *)
(* disk, the open accounts, the account folders, and the background fetch  *)
(* with its interrupt sender.  The methods that change accounts take       *)
(* `&mut self`, so one runs at a time; its steps can fail and the process  *)
(* can end between them.  An account is known by its uuid, which also      *)
(* names its folder; what is inside an account is not modelled.            *)
(***************************************************************************)
EXTENDS Integers, Sequences, FiniteSets, SequencesExt

CONSTANTS MaxUuid,      \* accounts ever created
          Fetches,      \* calls of background_fetch()
          MaxFaults     \* failed disk operations and crashes

VARIABLES mem, disk,    \* accounts.toml: InnerConfig
          open,         \* the accounts map: id -> uuid, 0 when there is none
          dirs,         \* uuids whose folder exists
          step,         \* the method being executed
          uuids,        \* uuids drawn so far
          given,        \* ghost: id -> the uuid the UI was first given under this id
          slot,         \* background_fetch_interrupt_sender
          fetch,        \* each background fetch
          faults

configVars == <<mem, disk, open, dirs, step, uuids, given>>
fetchVars == <<slot, fetch>>
vars == <<mem, disk, open, dirs, step, uuids, given, slot, fetch, faults>>

Ids == 1 .. MaxUuid
NoFetch == "none"
IdleStep == [at |-> "idle", id |-> 0, uuid |-> 0, old |-> 0]

\* The entries of a configuration are a set: ids are given in growing order and
\* new entries pushed at the end, so the list of the code is sorted by id.
Listed(c) == {a.id : a \in c.accounts}
UuidIn(c, id) == (CHOOSE a \in c.accounts : a.id = id).uuid

TypeOK ==
    /\ \A c \in {mem, disk} :
         /\ c.selected \in 0 .. MaxUuid /\ c.next \in 1 .. MaxUuid + 1
         /\ c.accounts \subseteq [id : Ids, uuid : Ids]
         /\ c.order \in Seq(Ids)
    /\ open \in [Ids -> 0 .. MaxUuid]
    /\ dirs \subseteq Ids
    /\ given \in [Ids -> 0 .. MaxUuid]
    /\ slot \in Fetches \cup {NoFetch}
    /\ fetch \in [Fetches -> {"new", "running", "interrupted", "done"}]

Empty == [selected |-> 0, next |-> 1, accounts |-> {}, order |-> <<>>]

Init ==
    /\ mem = Empty /\ disk = Empty
    /\ open = [i \in Ids |-> 0] /\ dirs = {} /\ step = IdleStep /\ uuids = 0
    /\ given = [i \in Ids |-> 0]
    /\ slot = NoFetch /\ fetch = [f \in Fetches |-> "new"] /\ faults = 0

\* Config::sync replaces the file at once or fails and leaves it.
Fails == faults < MaxFaults /\ faults' = faults + 1
SyncOk == disk' = mem' /\ faults' = faults
SyncFails == disk' = disk /\ Fails

----------------------------------------------------------------------------
\* Config::new_account, the beginning of add_account, add_closed_account and
\* migrate_account: the account is listed and saved, then selected.
WithNew(c, u) ==
    [c EXCEPT !.accounts = @ \cup {[id |-> c.next, uuid |-> u]},
              !.next = @ + 1,
              !.order = Append(@, c.next)]

NewAccount(op) ==
    /\ step.at = "idle" /\ uuids < MaxUuid
    /\ uuids' = uuids + 1
    /\ mem' = WithNew(mem, uuids + 1)
    /\ \/ /\ SyncOk
          /\ step' = [at |-> op, id |-> mem.next, uuid |-> uuids + 1, old |-> mem.selected]
       \/ SyncFails /\ step' = IdleStep
    /\ UNCHANGED <<open, dirs, given>> /\ UNCHANGED fetchVars

Selected(c, id) == [c EXCEPT !.selected = id]

\* select_account inside new_account; then the caller opens the account.
SelectNew ==
    /\ step.at \in {"add", "migrate"}
    /\ mem' = Selected(mem, step.id)
    /\ \/ SyncOk /\ step' = [step EXCEPT !.at = IF @ = "add" THEN "open" ELSE "move"]
       \/ SyncFails /\ step' = IdleStep
    /\ UNCHANGED <<open, dirs, uuids, given>> /\ UNCHANGED fetchVars

\* Moving the database of migrate_account into the new folder; the `?` of a
\* failed step leaves the function, so nothing is undone.
MoveFiles ==
    /\ step.at = "move"
    /\ dirs' = dirs \cup {step.uuid}
    /\ \/ step' = [step EXCEPT !.at = "open"] /\ faults' = faults
       \/ step' = IdleStep /\ Fails
    /\ UNCHANGED <<mem, disk, open, uuids, given>> /\ UNCHANGED fetchVars

\* The context is built, which creates its folder, and the id is returned.
OpenAccount ==
    /\ step.at = "open"
    /\ dirs' = dirs \cup {step.uuid}
    /\ open' = [open EXCEPT ![step.id] = step.uuid]
    /\ given' = [given EXCEPT ![step.id] = IF @ = 0 THEN step.uuid ELSE @]
    /\ step' = IdleStep
    /\ UNCHANGED <<mem, disk, uuids, faults>> /\ UNCHANGED fetchVars

\* remove_account: the account is closed, its folder deleted, then the entry.
RemoveAccount(id) ==
    /\ step.at = "idle" /\ open[id] # 0
    /\ open' = [open EXCEPT ![id] = 0]
    /\ step' = [at |-> "rmdir", id |-> id, uuid |-> open[id], old |-> 0]
    /\ UNCHANGED <<mem, disk, dirs, uuids, given, faults>> /\ UNCHANGED fetchVars

RemoveDir ==
    /\ step.at = "rmdir"
    /\ \/ dirs' = dirs \ {step.uuid} /\ step' = [step EXCEPT !.at = "unlist"] /\ faults' = faults
       \/ dirs' = dirs /\ step' = IdleStep /\ Fails
    /\ UNCHANGED <<mem, disk, open, uuids, given>> /\ UNCHANGED fetchVars

FirstId(accounts) ==
    IF accounts = {} THEN 0
    ELSE (CHOOSE a \in accounts : \A b \in accounts : a.id <= b.id).id

Others(c, id) == {a \in c.accounts : a.id # id}
Unordered(c, id) == SelectSeq(c.order, LAMBDA x : x # id)

FreeId(c, id) ==
    [c EXCEPT !.accounts = Others(c, id), !.order = Unordered(c, id),
              !.next = IF @ = id + 1 THEN id ELSE @,
              !.selected = IF @ = id THEN FirstId(Others(c, id)) ELSE @]

Without(c, id) ==
    [c EXCEPT !.accounts = Others(c, id), !.order = Unordered(c, id),
              !.selected = IF @ = id THEN FirstId(Others(c, id)) ELSE @]

Unlist ==
    /\ step.at = "unlist"
    /\ mem' = Without(mem, step.id)
    /\ SyncOk \/ SyncFails
    /\ step' = IdleStep
    /\ UNCHANGED <<open, dirs, uuids, given>> /\ UNCHANGED fetchVars

select_account(id) ==
    /\ step.at = "idle" /\ id \in Listed(mem)
    /\ mem' = Selected(mem, id)
    /\ SyncOk \/ SyncFails
    /\ UNCHANGED <<open, dirs, step, uuids, given>> /\ UNCHANGED fetchVars

\* set_accounts_order, given the order the UI wants for the open accounts.
set_accounts_order(front) ==
    /\ step.at = "idle"
    /\ LET ids == {i \in Ids : open[i] # 0}
           wanted == SelectSeq(front, LAMBDA i : i \in ids)
       IN mem' = [mem EXCEPT !.order = wanted \o
                    SetToSortSeq(ids \ {wanted[i] : i \in DOMAIN wanted}, <)]
    /\ SyncOk \/ SyncFails
    /\ UNCHANGED <<open, dirs, step, uuids, given>> /\ UNCHANGED fetchVars

\* The process ends; Accounts::open reads the file and opens every listed account.
Restart ==
    /\ Fails
    /\ mem' = disk /\ step' = IdleStep
    /\ open' = [i \in Ids |-> IF i \in Listed(disk) THEN UuidIn(disk, i) ELSE 0]
    /\ dirs' = dirs \cup {UuidIn(disk, i) : i \in Listed(disk)}
    /\ given' = [i \in Ids |-> IF given[i] = 0 THEN open'[i] ELSE given[i]]
    /\ slot' = NoFetch
    /\ fetch' = [f \in Fetches |-> IF fetch[f] = "new" THEN "new" ELSE "done"]
    /\ UNCHANGED <<disk, uuids>>

----------------------------------------------------------------------------
\* background_fetch() returns at once when another one is running.
background_fetch(f) ==
    /\ fetch[f] = "new"
    /\ IF slot = NoFetch
       THEN slot' = f /\ fetch' = [fetch EXCEPT ![f] = "running"]
       ELSE slot' = slot /\ fetch' = [fetch EXCEPT ![f] = "done"]
    /\ UNCHANGED configVars /\ UNCHANGED faults

stop_background_fetch ==
    /\ slot # NoFetch
    /\ fetch' = [fetch EXCEPT ![slot] = "interrupted"]
    /\ slot' = NoFetch
    /\ UNCHANGED configVars /\ UNCHANGED faults

\* The fetch has finished, timed out or noticed the interrupt.
FetchDone(f) ==
    /\ fetch[f] \in {"running", "interrupted"}
    /\ fetch' = [fetch EXCEPT ![f] = "done"]
    /\ slot' = NoFetch
    /\ UNCHANGED configVars /\ UNCHANGED faults

Next ==
    \/ \E op \in {"add", "migrate"} : NewAccount(op)
    \/ SelectNew \/ MoveFiles \/ OpenAccount
    \/ RemoveDir \/ Unlist \/ Restart
    \/ \E id \in Ids : RemoveAccount(id) \/ select_account(id) \/ set_accounts_order(<<id>>)
    \/ stop_background_fetch
    \/ \E f \in Fetches : background_fetch(f) \/ FetchDone(f)

Spec == Init /\ [][Next]_vars

----------------------------------------------------------------------------
\* An account id the UI was given never denotes another account afterwards,
\* in memory or on disk, whatever fails and wherever the process ends.
IdsAreNotReused ==
    /\ \A id \in Ids : open[id] # 0 /\ given[id] # 0 => open[id] = given[id]
    /\ \A id \in Listed(disk) : given[id] # 0 => UuidIn(disk, id) = given[id]

\* "Ongoing background fetch can also be cancelled manually by calling
\* stop_background_fetch()": a fetch that was not interrupted is the one the
\* interrupt sender reaches.  Does not hold, see the README.
FetchIsStoppable == \A f \in Fetches : fetch[f] = "running" => slot = f
=============================================================================

# TLA+ specifications of chatmail core

This directory is a verification development for the messaging core in `src/src/`.
It models the parts of the core whose correctness depends on interleavings,
failures and the order of messages, checks them with TLC on small instances and
proves the central safety properties with TLAPS for every value of the constants.
`PROJECT.json` maps every definition to the lines it models and lists components,
runs, mutants, hazards, findings and theorems.

1. [The system](#1-the-system-and-its-parts)
2. [Modules, runs and status](#2-modules-runs-and-status)
3. [The models](#3-the-models)
4. [The runs](#4-the-runs)
5. [The proofs](#5-the-proofs)
6. [Where code and documentation disagree](#6-where-code-and-documentation-disagree)
7. [Not modelled, and what is left](#7-not-modelled-and-what-is-left)

## 1. The system and its parts

One `Context` is one profile: an SQLite database, an event channel, an IO
scheduler and the API called by the user interface, JSON-RPC clients and bots.
Several tasks work on it at once, several devices may share the profile, and
other users' devices keep their own copy of every chat: there is no server that
knows groups, contacts or settings.

| Part | State | Operations | Interacts with | Hard behaviour |
|---|---|---|---|---|
| IO scheduler (`scheduler.rs`) | `Started/Stopped/Paused{started, pause_guards_count}` behind an RwLock, loop tasks, one-slot interrupt channels | start, stop, pause and its guards, restart, interrupts | every operation that queues work interrupts a loop; imex and configure pause it | the lock is held across awaits; guards are resumed by detached tasks; starting can fail halfway; stop has a timeout |
| Group membership (`receive_imf.rs`, `chat.rs`) | rows `(chat, contact, add_timestamp, remove_timestamp)` on every device, `MemberListTimestamp` | add, remove, leave, apply a received list | the queue carries the lists, IMAP delivers them in any order, twice or never | replicas without a server must agree although clocks differ and messages are lost or late |
| Outgoing queue (`smtp.rs`, `scheduler.rs`) | tables `smtp` and `smtp_mdns`, message states, the rate limit | send, retry, give up, receipts, resend, delete | SMTP loop; `chat.rs` fills it; `message.rs` keeps the state | crash between the server's answer and the deletion of the row; lost answers; two senders |
| Joining by QR code (`securejoin.rs`, `securejoin/bob.rs`, `token.rs`) | tokens, `bobstate`, verification marks | print, withdraw, revive, the handshake's messages | groups, contacts, sync | several inviting devices, lost and repeated messages, interrupted receptions |
| Contacts (`contact.rs`) | contacts with fingerprint and verifier, `last_seen` | look up, mark verified, delete, the recently-seen loop | SecureJoin, gossip, receiving | chains of verifiers; a channel of one place |
| IMAP and downloads (`imap.rs`, `imap/`, `download.rs`) | `uidvalidity`, `uid_next`, tables `imap`, `download`, `available_post_msgs` | select, fetch, delete, download, idle | feeds `receive_imf.rs` | failure between any two steps, UIDVALIDITY changes, mail arriving meanwhile |
| Incoming messages (`receive_imf.rs`, `message.rs`) | chats with their blocking, messages, tombstones | assign to a chat, insert, edit, delete, pre- and post-messages | everything | any order, duplicates, wrong senders |
| Ephemeral messages (`ephemeral.rs`) | the chat's timer, deadlines | change, start, expire | a loop of the scheduler, receiving | a deadline computed before a change; crossing changes |
| Transports (`configure.rs`, `transport.rs`, `config.rs`, `key.rs`) | table of relays, removed relays, the primary address, cached public key | add, delete, publish, choose, sync | multi-device sync, key rendering | devices that change the table at the same time; a cache filled while the table changes |
| Accounts (`accounts.rs`) | `accounts.toml`, folders, open contexts, the interrupt sender | add, migrate, remove, select, order, background fetch | all contexts | failed saves and crashes between file operations |
| Webxdc updates (`webxdc.rs`) | serials, the queued range | send, receive, flush, resend | SMTP loop | a range read, rendered and shrunk while others extend it |
| Calls (`calls.rs`) | parameters of the call message | place, accept, end, ringing timeout | two users with several devices each | load, decide, write back across awaits |
| Database (`sql.rs`, `sql/pool.rs`) | connection pool, write mutex, config cache | query, transaction, checkpoint, open, close, import | everything | exhaustion, deadlock, a stale cache |
| Migrations (`sql/migrations.rs`) | schema version, tables | every step, key-contacts, rewriting of old messages | opening a database | interruption between statement and version |

Parsing and rendering of text, cryptography, provider data, bindings and
socket I/O hold no protocol; `PROJECT.json` lists them with the reason they are
left out.

## 2. Modules, runs and status

| Module | Part | Checked in | Proved in |
|---|---|---|---|
| `Scheduler` | IO scheduler and its loops | `loops_safety`, `scheduler_live`, `scheduler_failed_resume` | `SchedulerProofs`, `LoopsProofs` |
| `SmtpQueue` | outgoing queue | `smtp_send`, `loops_safety`, `live_progress`, `smtp_sync` | `SmtpQueueProofs`, `LoopsProofs` |
| `Mailbox` | inbox loop, downloads | `loops_safety`, `live_progress` | `LoopsProofs` |
| `Ephemeral` | the ephemeral loop | `loops_safety` | `LoopsProofs` |
| `LastSeen` | the recently-seen loop | `loops_safety` | `LoopsProofs` |
| `GroupMembership` | member lists | `group_safety`, `incoming_safety`, `live_progress`, `group_readded` | `GroupMembershipProofs`, `IncomingProofs` |
| `SecureJoin`, `Invitation` | joining by QR code, and what it promises | `incoming_safety`, `live_progress` | `IncomingProofs` |
| `ChatAssignment` | chat of an incoming mail | `incoming_safety` | `IncomingProofs` |
| `MessageUpdates` | edits, deletions, two-part messages | `incoming_safety`, `deletion_early` | `IncomingProofs` |
| `EphemeralSetting` | the chat's timer | `incoming_safety` | `IncomingProofs` |
| `Contacts` | identity and verification | `own_safety` | `OwnProofs` |
| `Transports` | relays and the cached key | `own_safety` | `OwnProofs` |
| `Calls` | calls | `own_safety` | `OwnProofs` |
| `Accounts` | accounts manager | `own_safety` | `DeviceProofs`, `OwnProofs` |
| `StatusUpdates` | webxdc updates | `own_safety` | `DeviceProofs`, `OwnProofs` |
| `MigrationSteps`, `Migrations` | schema upgrade | `own_safety` | `DeviceProofs`, `OwnProofs` |
| `KeyContacts` | migration to key-contacts | `own_safety` | `OwnProofs` (messages) |
| `Database` | pool, checkpoints, config cache | `database` | `DatabaseProofs` |

A module holds one component. Every variable is a table, a field or a position
in a function; every action is a handler, or the part of one between two awaits
or two statements if others can act in between. The `MC...` modules name the
instances; those of several components (`MCLoops`, `MCIncoming`, `MCOwn`, `MCLive`) choose one of them per behaviour:
`part` says which, and the others keep an initial state (one fixed initial
state where they have several). Their state space is the union of the
components', not the product, and their properties say `part = "x" => P` or, for
progress, `Fairness of x => P`. The cfg gives every part of `MCLoops`,
`MCIncoming` and `MCOwn` its constants, so that theorems about these modules
hold for every value of them; what the theorems assume is an `ASSUME` of the
module, which TLC evaluates on the instance. `DeviceParts` declares the constants, variables and instances of
`StatusUpdates`, `Accounts` and `Migrations`, which `MCOwn` and `DeviceProofs` share. Components are joined by what they exchange: a message handed to the
queue is a message in the other module's network, with its losses and order.

## 3. The models

### Scheduler

`state`, `started` and `pause_guards_count` are `InnerSchedulerState`; `lock` is
the writer of the RwLock (`do_start` and `do_stop` await while they hold it, so
starting and stopping take several steps); `pc` is where each calling task is;
`dropped` counts guards whose resume task has been signalled but has not got the
lock; `gen` numbers the `Scheduler` values that were created, and `loop`,
`woken`, `cancelled` are their tasks, interrupt channels and stop tokens. The
ephemeral, location and recently-seen loops are one loop `aux`: they are aborted,
not cancelled. A loop's iteration is abstracted to: look at the database, work
(perhaps interrupting the SMTP loop, which needs the read lock), idle.

* `GuardsAccounted`: the pause counter is the number of guards in existence.
* `OnlyCurrentLoopsRun`: only loops of the newest scheduler run, none after stop or pause.
* `RequestHonoured`: IO runs, or will resume, exactly if the last request asked for it.
* `CallsReturn`, `WorkPickedUp`: every call returns although stop waits under the write lock
  for loops that ask for the read lock; no interrupt is lost between a loop's last
  look at the database and its going idle.

### GroupMembership

The member list of an encrypted group as every user's device keeps it.
`rows[u][x]` is x's row of `chats_contacts` on u's device with its two
timestamps, `listTs[u]` the chat's `MemberListTimestamp`, `group[u]` whether the
chat exists and is promoted. `now` is the true time; u's clock is
`now + Skew[u]`. `net` holds the messages under way, one per recipient, each
processed at most once. A message is the record of the headers that
`mimefactory.rs` renders: members, past members, timestamps (unless the list is
stale) and the announced change. Receiving one is the whole of
`apply_group_changes`: cutting timestamps back to the receiver's clock, creating
the group, merging row by row, replacing a stale list, and the fallback for
messages without timestamps. The network loses, delays and reorders. The history
variable `vouched[x]` is the latest time for which somebody added x or x wrote.

* `RowsAdvance`: no device takes back an addition or removal it knows.
* `OutUntilVouched`: who is out gets back in only if somebody added them, or they wrote.
* `ChangeTakesEffect`: what an accepted message announces is true on the receiver's
  device afterwards, unless it has been overtaken. A stale list re-inserts the receiver and the
  sender whatever the message says of them, so there the property speaks of third persons.
* `Converges`: once changes and losses stop, users who count each other as members agree on the whole list.

Peculiarities of the code that the model keeps: adding, removing and sending
never refresh `MemberListTimestamp`; removing again who is out already may lower
`remove_timestamp`; in a tie of the same second the addition wins.

### SmtpQueue

The tables `smtp` and `smtp_mdns`, the message states and everything that changes
them. `job[i]` is the row with id i, `state[m]` is `msgs.state`, `prep` and
`trashing` are the calls between two transactions of sending and deleting, `pc`,
`todo` and `cur` are the position of a task in `send_msg_to_smtp` (or in
`receive_imf` for the own copy). Every write to the database is a step.
`accepted` is what the server really took, which the core cannot see. A message
is split into `NParts` rows; the last has the own address. `Events` says which of
crash, lost answer, resend, transport switch and deletion an instance allows, so
that each disagreement is shown by itself. The rate limiter's real-valued level
is counted in whole messages. The sync messages and status updates that a pass
queues first are ordinary messages here.

* `DeliveredMeansAccepted`: the checkmark means that the server took every part.
* `PendingIsQueued`: a message shown as pending really is on its way.
* `NoDuplicates`: a part is taken once, and once more for every lost answer, crash or resend.
* `NoReceiptLost`: a receipt queued while a report for the same contact is on its way is not deleted with it.
* `Settles`: no message stays pending.

### SecureJoin and Invitation

`SecureJoin` has the inviter's devices, each with its table `tokens` (a set of
rows: kind, code, chat, time), the sync items between them (`sync`, executed in order), the joiner with
`bobstate`, and the handshake's messages in `mail` (read by each of the
inviter's devices on its own) and `inbox`. Codes are printed, withdrawn and
revived on any device; receptions may be interrupted after their first effects, messages lost, contacts
blocked. `Invitation` is what all this promises, with neither devices nor
messages: a code is printed once, is honoured or not at any time, and somebody
gets in only by presenting a printed code that is honoured at that moment. The refinement mapping is

| `Invitation` | `SecureJoin` |
|---|---|
| `printed` | codes that were made on some device |
| `honoured` | codes whose auth token some device has |
| `presented` | codes that were scanned (`asked`) |
| `let_in` | chats some device added the joiner to (`admitted`) |
| `inside` | chats the joiner knows to be in (`joined`) |

`WithdrawnGone`: once the devices have executed each other's items, none
honours a code that was withdrawn and not revived. `JoinCompletes`: whoever
scans a code that stays honoured gets in.

### ChatAssignment, MessageUpdates, EphemeralSetting

`ChatAssignment` follows `receive_imf_inner` through `decide_chat_assignment`, the lookups
by group id, list id, channel, parent message and contact, and the rules about
blocking, for every kind of mail mixed with what the user does: writing,
accepting, blocking, deleting. `chats` is the table; a chat has a kind, a key or
address and its blocking. `NoPlainInEncrypted`: an unencrypted mail is never
filed in the chat of a key-contact, a group with an id or a channel. `OnlyWelcome`:
a chat is no longer a request only if the user accepted it or wrote in it, or
somebody wrote in it whose own chat was accepted.

`MessageUpdates` is one message on its way into the `msgs` table, as one mail or
as a pre- and a post-message, with requests to edit and delete it, over several
relays: each mail may come twice and all in any order, and housekeeping prunes
tombstones. `ShownAsSent`: there is one bubble at most, it has the attachment once that arrived, and a
deleted message does not come back while tombstones are kept.

`EphemeralSetting` is the timer of a chat on each member's device. `TimersAgree`:
when every message has reached everybody, all have the same timer. Changes that
cross break it (`Crossing`, section 6).

### Mailbox and Ephemeral

`Mailbox` is a folder and the inbox loop that works on it: SELECT, the prefetch, fetching in batches,
`uid_next`, resync after a new UIDVALIDITY, the message parts to be downloaded
later, deletion, IDLE. A UID is a position in `server`. Whatever the loop has in memory is lost when a
command fails or the process dies. `MailKept` is three statements: once
`uid_next` has passed a message it is in the database or its failure was shown
(`ReadIsKept`); the loop deletes a body from the server only if it is complete
here or the user deleted it (`NeverDeletedUnread`); a download in progress is
worked on (`InProgressIsQueued`). `MailArrives`: a message that arrives in the
folder is received, also if it arrives between prefetch and IDLE.

`Ephemeral` is the loop that deletes disappearing messages: timers start, the loop computes the next
deadline, sleeps until then or until it is interrupted, and deletes.
`DeletedInTime`: it sleeps no longer than one second past any deadline, and
deletes neither early nor what was not seen. Timers started without telling the
loop are excepted (section 6).

### Contacts and LastSeen

`Contacts` keeps rows with the fingerprint and the verifier (`row`, `present`); messages with gossip,
verification and deletion interleave, and a contact can be
deleted and created again under a new id while others refer to it. `VerifierChainsEnd`: following verifiers ends at
the user or at a contact that is gone, never in a circle; the UI follows these
chains. `LastSeen` is the heap of the recently-seen loop and its channel of one
place: whoever was seen recently is in the heap, in the channel, or found it full (`SeenIsQueued`).

### Transports, Accounts, StatusUpdates, Calls

`Transports`: two devices change the table of relays and send each other the whole of it.
`TransportsSound`: the primary address always has a transport, and devices that
have read everything have the same ones. `KeyIsCurrent`: the cached public key
names the published relays, however a change falls into the loading of the key.

`Accounts`: `accounts.toml` in memory and on disk, the folders, and the position in the method that is being
executed; saving can fail and the process can end between steps. The list of
entries is a set here: ids are pushed in growing order, so the code's `first()` is the least id.
`IdsAreNotReused`: an id the UI was given, by adding an account or by opening the accounts at start, never comes to
denote another account, in memory or on disk.

`StatusUpdates`: the rows of one instance, the queued range of serials, the calls that record and enqueue, the loop
that reads the range, renders as much as fits and takes that off the range, and resends that reopen it.
`NoUpdateLost`: a promised update stays in the range or in the message about to be queued until a
message carried it.

`Calls`: the call as three devices see it, with handlers that load the message, decide and write all parameters
back later. `HangUpReachesAll`: when somebody ended the call and all messages
arrived, it is over on every device.

### Database, Migrations, KeyContacts

`Database`: tasks take connections (semaphore, then pool; given back in the
other order), the write mutex, the RwLock around the pool, and
`wal_checkpoint` takes connections one by one until it has them all. The config
cache is filled and emptied around the statements. `CheckpointsWhole`: at
`wal_checkpoint(FULL)` nobody writes and no reader has an old snapshot, and at
`TRUNCATE` nobody has a connection. `CacheIsCurrent`: what is cached is what the
table holds. `CallsEnd`: no call waits for ever. `Database` checks deadlock as well.

`MigrationSteps` lists every step with the tables it makes and needs, and where
it writes the version; `Migrations` executes them from any old version and
stops between any two statements. `Upgraded`: an open database has the newest
version and all tables, every later step was carried out once, none fails.
`KeyContacts` is step 132 and the rewriting of old messages in batches.
`ChatsMigrated`: afterwards a chat has key-contacts or address-contacts but not
both, protected chats have key-contacts, and members are kept.
`MessagesRewritten`: the batches rewrite the senders of the messages they have
passed, each once, and of no others.

## 4. The runs

| Run | Instance | Shows |
|---|---|---|
| `loops_safety` | Scheduler: three clients, four calls of start, stop and pause, a counter for two guards; a second one with restart and hanging loops and two calls. SmtpQueue: one message and two receipts with a crash, lost answer, resend or switch of the transport. Mailbox: a small message and one in two parts, one failure, one new UIDVALIDITY. Ephemeral: two messages, durations 1 and 2, time 5. LastSeen: two people, a window of 2, time 5 | `GuardsAccounted`, `OnlyCurrentLoopsRun`, `RequestHonoured`, `GuardsAccountedHanging`, `NoDuplicatesButFaults`, `NoReceiptIsLost`, `MailKept`, `DeletedInTime`, `SeenIsQueued` |
| `scheduler_live` | Two clients, one transport, three calls of start, stop, interrupt and `maybe_network`; starting may fail halfway | `CallsReturn`, `WorkPickedUp` |
| `group_safety` | Three users, one with a clock that is ahead by the tolerance, two instants, three changes or losses, two messages of a sender under way | `RowsAdvance`, `OutUntilVouched`, `ChangeTakesEffect` |
| `live_progress` | Group of three users with three changes or losses; SecureJoin with two devices, two codes and one fault; Mailbox with two messages and one failure; SmtpQueue with two messages of two parts, one without recipients, and one lost answer | `GroupConverges`, `JoinCompletes`, `MailArrives`, `Settles` |
| `smtp_send` | Two messages of two parts, two tries per row, a lost answer or deletion, and `send_msg_sync` on a second connection | `DeliveredMeansAccepted`, `PendingIsQueued` |
| `incoming_safety` | ChatAssignment: two people, one group, list and channel, two mails, one message sent, one user action, three chats. SecureJoin: two devices and two codes with three withdrawals or revivals, or a handshake with one fault. MessageUpdates: two copies of each mail, two edits, time 5. EphemeralSetting: three members, four messages. GroupMembership: three users, three instants, two changes and lists that grow stale at different times | `NoPlainInEncrypted`, `OnlyWelcome`, `WithdrawnGone`, `ImplementsInvitation`, `ShownAsSent`, `TimersAgree`, `StaleChangeTakesEffect` |
| `own_safety` | Contacts: three keys, three messages. Transports: two devices, two addresses, two changes. Accounts: three accounts, two faults. StatusUpdates: three own updates and one other, two resends, one crash, one update per message. Calls: a caller and two devices of the callee, two actions. Migrations: every old version, one stop. KeyContacts: two people, two keys, two messages | `VerifierChainsEnd`, `TransportsSound`, `KeyIsCurrent`, `IdsAreNotReused`, `NoUpdateLost`, `HangUpReachesAll`, `Upgraded`, `ChatsMigrated`, `MessagesRewritten` |
| `database` | Three tasks, three connections, two values | `CheckpointsWhole`, `CacheIsCurrent`, `CallsEnd` |
| `scheduler_failed_resume`, `group_readded`, `smtp_sync`, `deletion_early` | | violations, section 6 |

`scheduler_live` and `smtp_send` state in their next-state relation what they leave to `loops_safety`: pauses, and
receipts. Crashes, resends and switches of the transport happen in `loops_safety`, a message without recipients in `live_progress`.

*Bounds.* Three clients suffice for two guards and a third client that starts or
stops while a resume task waits. Three users are the least for which one changes
the list of two others, three operations allow add-remove-add, and two
concurrent changes with a lost message. Two parts are the least for which a
message is partly sent, two messages for one to wait; with two tries per row
`NoDuplicates` is not a consequence of the retry limit. Two devices are the
least for which a sync item crosses a change. One fault at any step separates
every two steps of a component; the accounts get two, so that a crash can follow
a failed save. Three connections are `N_DB_CONNECTIONS`. Three keys make the
shortest circle that is not mutual. Two resends let the loop finish between them or not.

*Fairness.* A task that can run does run (tokio), statements end, guards are
dropped when the paused operation ends, and the RwLock is FIFO, so a task that
wants it is not overtaken for ever (strong fairness of the steps that need the
lock). Messages are delivered unless they are lost, losses are bounded, and a
member none of whose messages is under way writes again. The SMTP server is
reached again and again (strong fairness of connecting: retries are counted only
once connected, so that a device that is offline for ever keeps its messages
pending, as intended); nothing is assumed of its answers. Users need not call and
retry timeouts need not fire. Fairness conjuncts are merged per loop over
all generations, which is weaker than fairness per task.

*Deadlock* is not checked where the system may stop: when everything is sent,
fetched or said, when a bounded number of calls, changes or instants is used up. It is
checked in `database`, where every task can call again.

*Symmetry* is used for the messages of `smtp_send` and the users of `group_readded` that are
interchangeable, never with liveness.

## 5. The proofs

The theorems hold for every number of users, devices, messages, keys, tasks or
calls, every clock and every bound of the model. Each rests on an inductive
invariant that TLC checked on a small instance first. `PROJECT.json` lists them
with the run that checks the same property where there is one.

| Theorem | Statement | Assumes |
|---|---|---|
| `SchedulerProofs!TypeCorrect` | types; the pause counter does not overflow | |
| `SchedulerProofs!GuardsCounted` | `GuardsAccounted` | starting does not fail |
| `SchedulerProofs!NoStrayLoops` | `OnlyCurrentLoopsRun` | also: loops end within the stop timeout |
| `SchedulerProofs!LastRequestWins` | `RequestHonoured` | starting does not fail, no `restart` |
| `LoopsProofs!GuardsCountedHanging` | `GuardsAccountedHanging`: the same with `restart` and loops that hang | starting does not fail |
| `GroupMembershipProofs!MembershipTypes` | types | |
| `GroupMembershipProofs!AnnouncedHappens` | `ChangeTakesEffect` | |
| `IncomingProofs!AnnouncedToStaleLists` | `StaleChangeTakesEffect` | |
| `GroupMembershipProofs!RowsNeverGoBack` | `RowsAdvance` | `NeverStale` |
| `GroupMembershipProofs!OutUntilVouchedFor` | `OutUntilVouched` | `NeverStale` |
| `SmtpQueueProofs!QueueTypes` | types, ids suffice | |
| `SmtpQueueProofs!CheckmarkIsTrue` | `DeliveredMeansAccepted` | no crash, resend or switch |
| `SmtpQueueProofs!PendingIsOnItsWay` | `PendingIsQueued` | no crash, resend or switch |
| `SmtpQueueProofs!SentOnce`, `LoopsProofs!SentOnceButFaults` | `NoDuplicates`, with every fault | no `send_msg_sync` |
| `SmtpQueueProofs!ReceiptsAreKept`, `LoopsProofs!ReceiptsAreSent` | `NoReceiptLost`, with every fault | |
| `LoopsProofs!MailHasTypes` | types | a batch is not empty |
| `LoopsProofs!NoMailIsLost` | `MailKept`, with every fault | a batch is not empty |
| `LoopsProofs!MessagesDisappear` | `DeletedInTime` | durations are numbers |
| `LoopsProofs!SeenStaysQueued` | `SeenIsQueued` | window and clock are numbers |
| `IncomingProofs!JoinTypes` | types | `None` is no code |
| `IncomingProofs!HandshakeInvites` | `SecureJoin` implements `Invitation` (its fairness is not needed) | `None` is no code |
| `IncomingProofs!WithdrawnEverywhere` | `WithdrawnGone` | `None` is no code |
| `IncomingProofs!AssignmentTypes` | types | |
| `IncomingProofs!PlainStaysOutside` | `NoPlainInEncrypted` | list ids differ from group and channel ids |
| `IncomingProofs!OnlyWelcomeEnters` | `OnlyWelcome` | list ids differ from group and channel ids |
| `IncomingProofs!MessagesAreShown` | `ShownAsSent` | copies, edits and the keep time are numbers |
| `IncomingProofs!MembersAgree` | `TimersAgree` | messages do not cross |
| `OwnProofs!ContactTypes` | types | |
| `OwnProofs!ChainsEnd` | `VerifierChainsEnd` | |
| `OwnProofs!PrimaryStays` | `PrimaryExists`, with crossing changes | the profile is configured |
| `OwnProofs!KeyOfRelays` | `KeyIsCurrent`, with crossing changes | the profile is configured |
| `OwnProofs!TransportsAreSound` | `TransportsSound` | also: devices make changes in turn |
| `OwnProofs!HangUps` | `HangUpReachesAll` | one device of the caller, handlers of a device do not overlap |
| `OwnProofs!AccountIds` | `IdsAreNotReused`, with every fault | |
| `DeviceProofs!UpdatesHaveTypes` | types | calls do not overlap |
| `OwnProofs!NoUpdateIsLost` | `NoUpdateLost`, with resends and crashes | calls do not overlap |
| `OwnProofs!DatabasesAreUpgraded` | `Upgraded`, for any list of steps | the list is well formed, the steps that do not survive an interruption are not interrupted |
| `OwnProofs!BatchesRewrite` | `MessagesRewritten` | numbers of messages and batches |
| `DatabaseProofs!DatabaseTypes` | types | |
| `DatabaseProofs!CheckpointsAreWhole` | `CheckpointsWhole` | |
| `DatabaseProofs!PermitsMeanConnections` | whoever has a permit finds a connection | |
| `DatabaseProofs!CacheStaysCurrent` | `CacheIsCurrent` | |

Every assumption that restricts the code's behaviour is needed: section 6 names
what happens without it. The others say that names differ which the code draws at random,
or give the constants their types.

**From a component to its run.** A component's invariant is proved for the
specification of its own module (`InvitationIsKept`, `WithdrawnIsGone`, `BubblesStayWhole`, `TimersComeTogether`, `MailIsKept`,
`TimersAreKept`, `NobodyIsForgotten`, `UpdatesAreKept`, `AccountIdsStay`, `UpgradesComplete`,
`KeyStaysCurrent`, `DevicesComeToAgree`, `HangUpIsHeard`). The theorems named above follow for the
specification that TLC checks: a behaviour whose `part` is x stays with x, and each of
its steps is a step of x or leaves x as it is. The second scheduler and the
queue in `MCLoops` and the group in `MCIncoming` are instances of the modules
with the proofs, so that their theorems apply once the assumptions on their constants are shown
(`HangingAllowed`, `QueueAllowed`, `GroupAllowed`).

**Scheduler.** `IInv` adds to the types who holds the lock (`LockInv`: exactly the
caller that is starting or stopping, or a resume task) and what it found when it
took it (`HolderInv`: for instance a resume task starts only in `Paused` with one
guard left). Without `HolderInv` a start that finishes could overwrite a `Paused`
state whose guards still exist. `LoopInv` and `RequestInv` extend it for the loops
and the requests.

**Group membership.** `IInv` says that no device dates a membership later than what
is on record for it (`RowsInv`), and that no message under way does, that it
carries timestamps and is not for its sender (`NetInv`). Both are needed together:
rows become messages and messages rows, and a list dated too late would re-admit
who has left. They need `NeverStale`: within the modelled time no list is old
enough to be thrown away; `group_readded` shows why. `AnnInv`, for
`ChangeTakesEffect`, needs no such assumption: it says of every message under way
that what it announces is what its own lists say, so that merging, replacing and
the fallback each carry it out.

**Outgoing queue.** `SendInv` relates rows, states and what tasks hold in memory:
ids are given once and suffice for every row that may still be created (`FreshIds`, `IdsSuffice`), so the row a
sender deletes is the one it sent (`HandMatches`); it is deleted because its message failed (`DropFailed`) or because
it was accepted (`OkAccepted`, `CopiesAccepted`); every part of a pending message is accepted or queued unless its failure is about to be
recorded (`PartsKept`); and what a task found before it marks a message as delivered is still true when
it does (`DeliverKnows`). `PartsKept` is what fails after a crash. For `NoDuplicates`, `Once` counts for every part the rows that
may still bring it to the server (`Chances`): rows in the queue that were not just taken, and the one the loop is sending even if it
was deleted meanwhile. Together with the times it was taken these are at most one more than the faults.

**Joining.** `JoinInv` is `TokInv` and `HandInv`. `TokInv`: auth tokens and the
items that add them are of printed codes and not from the future (`Sound`), a code that was never revived is added
once on each device (`OneAdd`), and wherever a withdrawn code still has a token, or an item that adds
one, an item that deletes it follows and is not older (`DelFollows`); without `OneAdd` an addition could come after the deletion.
`HandInv`: a request with the auth token is of a code that was scanned, and scanned codes were printed;
a confirmation under way is for a chat the joiner was added to. With it every step of the handshake is a
step of `Invitation` or leaves it unchanged.

**Chat assignment.** `do_chat_assignment` is a sequence of lookups, each of
which may fill in a partial result. `Grown` says what such a result may be for a
mail: chats keep their type and identity, at most one is found, an unencrypted mail fits to it, and no
other chat was opened, this one only if the mail is the user's own or its sender's chat is accepted. Every lookup keeps `Grown`, and
`AssignInv` follows for every kind of mail and every user operation.

**Messages in parts.** `BubbleInv`: of the rows with the Message-ID the one in the chat is the oldest, so that every later copy finds it
(`ShownFirst`); until the message is deleted there is one, with its attachment once the second part was received (`NotLost`);
a deleted message leaves a row that is as old as the message itself and is found first (`Remembered`).

**Contacts.** That no circle exists is not inductive. Two facts are: a contact
with a known verifier keeps one for as long as its row exists, and the chain of
its verifier was shorter when the verifier was written. `since` records these
lengths; a circle would have no shortest one (by well-foundedness of the naturals). `IdInv`: nothing refers to a contact that does not exist yet.

**Database.** `PoolInv`: who has a connection uses it (`UsersHold`), writers hold
the write mutex (`WritersLocked`), a checkpoint holds what its stage says
(`StagesFit`), old snapshots are in use (`OldInUse`), and at the end it has all connections
(`HasThemAll`). `PermitsMatch` counts: free connections are the permits and those
about to be given back. `CacheInv`: the cache is written under its lock
(`CacheLocked`, `MutexKept`), an import empties it (`ImportUncached`), and
what a task read or wrote is what the table holds until it has put it in the
cache (`ReadIsCurrent`, `WrittenIsCurrent`, `CachedIsCurrent`).

**Status updates.** The loop compares the first serial of the range with the
one it read to find out whether the instance was resent meanwhile. That works because the
first serial goes down with every resend: `FlushOK` has `queue.first <= flush.first`, `DueOK`
says that what is due is in the range and, if there was no resend, not below what is left for the
next message unless it is in this one. `CallsOK` allows one call at a time.

**Accounts.** `AccountInv`: entries have different ids, all below the next id;
the file's next id is not above the one in memory (`Counted`); an id is shown
only once the file has a greater next id (`Shown`); and the account being added has a saved id that
nobody was shown (`Underway`). A failed save leaves the memory ahead of the file, and a restart then gives
an id again, but one that nobody had seen.

**Disappearing messages.** `TimerInv`: the deadline of a row is when it was first seen plus its timer, and a row that was not
seen has none (`TimersRun`), so that starting a timer again never prolongs it; and the loop's wake-up is at most a second after every
deadline it was told of (`WakesInTime`), also while it has read the deadlines and not yet gone to sleep. For the setting, `SettingInv`: only the
newest message can be under way; whoever has it has its timer, the others have the timer that it was written under, and
these are the same unless it is a change. Crossing messages break the first of these.

**Inbox.** `MailInv`: the tables speak of the folder as it is numbered now, except before it is selected again (`Numbered`); what is complete or
deleted was had, and only such bodies are to be deleted from the server (`Completed`); and while a batch is fetched, everything that `uid_next`
may pass at its end was seen by the prefetch and is kept or still to be fetched, in ascending order (`Planned`). Without `Planned`, setting
`uid_next` to the largest UID fetched could pass over a message that failed before it.

**Relays.** `RelayInv` suffices for `PrimaryExists` and `KeyIsCurrent`: `stale` and `op` cover every interval in which the tables are newer
than the key. For `TransportsAgree`, `AgreeInv` says that one device leads: the others have sent all they have to say (`Turn`),
its rows and removals are dated not later than now (`Dated`), and for every other device the items it has not executed are ever later states
of the leader's tables, ending in the present one (`Follows`). Merging an item that is not older than the table gives exactly the item
(`NotLater`), since rows and removals are compared by timestamp. Whoever makes the next change has executed everything, so its tables are the leader's and it can lead.
Left out are the address of row 1, which is not synced, and addresses that were primary somewhere, which are not removed there.

**Calls.** `RingInv`: one handler works on a device and its copy is what is stored (`OneHandler`), the first message in the mailbox of the one
who is called is the call (`CallFirst`, `CallHeard`), and once somebody has hung up every device has ended the call, is about to,
or has the message before it (`AllTold`). A device that has not heard of the call cannot end it; `CallFirst` makes sure that it hears of the call first.

**Schema upgrade.** The list of steps is a constant; what is assumed of it (`WellFormed`) TLC evaluates on the list of the program: versions grow and
the last one is the newest (`InOrder`), a step uses tables that are there and makes tables that are not (`TablesFit`), and a step with
statements outside its transaction that cannot be repeated is not interrupted (`Spared`). `UpgradeInv`: a database that exists only gets newer (`Founded`);
the steps before the position are done and those after it are not (`Placed`); the tables are those of the version
and what the present step's statements made (`TablesMade`), the column of step 72 likewise (`ColumnMade`); and every step since the origin was
carried out, with all its statements but those that are still to come, none of them twice (`CarriedOut`). `Placed` and `TablesMade` are needed together: a table is made
a second time exactly if the version does not say that it was made.

**Rewriting messages.** `RewriteInv` says that before the migration every message is from its sender, and adds types to `MessagesRewritten`: the batches go down from
the newest message, what they have passed was mapped once, and what is below them is still from the sender.

**Model-checked only.** Progress (`CallsReturn`, `WorkPickedUp`, `GroupConverges`,
`JoinCompletes`, `MailArrives`, `Settles`, `CallsEnd`): proofs of liveness need
`ENABLED`, which the prover does not handle. `ChatsMigrated` is about the members that folds over the
rows of old contacts and chats compute, which needs induction over data.

## 6. Where code and documentation disagree

Runs that show a violation (quoted in `PROJECT.json`):

* `scheduler_failed_resume`: a resume whose start fails leaves the scheduler `Paused` with one guard too many
  and no guard; IO cannot be started again (`scheduler.rs:187`).
* `group_readded`: with a stale list a user who left is a member again (`receive_imf.rs:3129`).
* `smtp_sync`: `send_msg_sync` sends the row with id 1 instead of its own (`chat.rs:2993`).
* `deletion_early`: the tombstone of a message deleted before it arrived is dropped by the next housekeeping (`message.rs:2036`).

Properties that fail when a constant of the model is changed, each for the reason given:

| Change | Fails | Code |
|---|---|---|
| `LoopsMayHang = TRUE` | `OnlyCurrentLoopsRun` | after the 30 s timeout only the JoinHandle is dropped (`scheduler.rs:760`); the comment at 744 says "forcefully terminated" |
| `restart` among `Ops` | `RequestHonoured` | `restart` checks, stops and starts under three locks (`scheduler.rs:203`); a stop in between is overridden |
| receipts and fairness | `ReceiptsSettle` | a pass that begins rate limited skips the receipts, and its caller (`smtp.rs:505`, `scheduler.rs:561`) repeats it only if the limit is still exhausted at its end |
| `Events` has `crash` | `PendingIsQueued` | the message is committed as pending before its rows, and the last row deleted (`smtp.rs:416`) before `set_delivered` |
| `Events` has `crash` | `DeliveredMeansAccepted` | a row tried too often is deleted (`smtp.rs:382`) before the message is marked as failed |
| `Events` has `resend` | `DeliveredMeansAccepted`, and `PendingIsQueued` if an old row is dropped meanwhile | the message is set to pending (`chat.rs:4724`) before its new rows exist |
| `Events` has `switch` | `Settles` | switching the primary transport deletes the rows (`config.rs:829`), unsent sync messages too, and leaves their messages pending |
| `Concurrent = TRUE` | `NoUpdateLost` | overlapping `send_webxdc_status_update` calls set `last_serial` back (`webxdc.rs:560`) |
| `Crossing = TRUE` (`EphemeralSetting`) | `TimersAgree` | changes that cross leave members with different timers (`receive_imf.rs:1918`) |
| `Crossing = TRUE` (`Transports`) | `TransportsSound` | devices that add the same address swap parameters |
| `Overlap = TRUE` | `HangUpReachesAll` | a handler writes back all parameters it loaded (`calls.rs:122`), and with them that the call has not ended |
| a second device in `Callers` | `HangUpReachesAll` | "call ended" can overtake the call in a mailbox and is dropped there (`receive_imf.rs:2103`) |
| `Undisturbed = {}` | `Upgraded`, `Resumes` | step 73 cannot be repeated once its table exists (`migrations.rs:1145`); the rest of steps 59, 77 and 132 is lost when interrupted |
| `CanIdle = FALSE` | `MailArrives` | `fake_idle` never fetches (`imap/idle.rs:123`) |

Properties stated in the modules that do not hold: `OnlyNewCodesVerify` (other devices verify with an old code,
`securejoin.rs:829`), `PostMessageKnown` (post-messages are skipped when a fetch fails, `imap.rs:782`), `FetchIsStoppable` (the first
background fetch that ends clears the sender of another, `accounts.rs:505`), `RemovalWins` (a synced addition can win a tie),
`EveryKeyHasContact` (column 12 is read for the secondary verified key instead of 14, `migrations.rs:142`).

Observed while modelling, without a property:

* Scheduler: if the second transport's inbox cannot be started, the first one's loop keeps running (`scheduler.rs:640`).
* Queue: `send_msg_sync` and the loop can send the same row twice.
* Mail: a user-requested download whose post-message vanished is retried for ever; a large classic
  mail whose download fails by a network error is dropped; the two statements of `download_full` are not atomic; a resync resets
  targets, so planned deletions are forgotten.
* Ephemeral: timers started by housekeeping, or for messages seen on another device, do not interrupt the loop.
* Chats: `ChatIdBlocked::get_for_contact` looks up and inserts without a transaction (`chat.rs:2379`); a hidden 1:1 chat can become a
  request while its message is already seen (`receive_imf.rs:1574`); ad-hoc lookup never matches mails sent by Bcc; a group from a blocked contact
  without a 1:1 chat is a request; an outgoing channel message with an unknown secret, and an own list mail without recipients, land in Saved Messages; a reply by a
  wrong sender to a message in a blocked channel reopens the channel before the mail is moved to the 1:1 chat (`receive_imf.rs:1545`).
* Messages: `sync_message_deletion` before the message arrives leaves no tombstone; edits out of order are lost or win wrongly; of reactions the one that arrives last wins.
* Codes: a revival racing a withdrawal can resurrect a token; by the precedence of AND and OR in `delete_qr_token` the
  timestamp guard applies to auth tokens only.
* Contacts: a chat's name is stale if its contact is renamed between two statements; a change of only the address does not update chat names.
* Keys: `gossip_timestamp` is set when a message is rendered, not when it is sent (`mimefactory.rs:1113`), and a key gossiped by somebody else
  counts as gossiped (`receive_imf.rs:761`), so that a member may lack a key until the period has passed; `regossip_keys` (`contact.rs:194`) resets
  `chats.gossiped_timestamp`, which rendering no longer reads, so it has no effect.
* Transports: the limit of relays is only local; unpublishing by sync can hit another device's primary; setting the primary and deleting the old one
  in one bundle leaves the deleted transport on the other device.
* Accounts: the cleanup branch of `migrate_account` is never reached, since `?` leaves the function before.
* Calls: the caller's ringing timeout sends no message, so a late accept leaves the callee's call active.
* Webxdc: updates sent while the draft is being turned into a message can be left out.
* Database: a failed `change_passphrase` leaves the database closed (`sql.rs:282`); a failed migration leaves the profile open with old tables.
* Key-contacts: a verifier without a verified key leaves the contact unverified although it is in a protected group (`migrations.rs:317`).

## 7. Not modelled, and what is left

Not modelled: the bindings (`deltachat-ffi`, `deltachat-jsonrpc`, the RPC server: wrappers around the library), parsing and rendering
of MIME, HTML, vCards, KML and QR strings, provider data and autodetection, the text of SQL statements, sockets, DNS and TLS,
OpenPGP, statistics, summaries and the chat list, location streaming (the shape of `Ephemeral`), reactions (one row that is
overwritten), realtime channels (the iroh library), connectivity, quota, push and logging. `PROJECT.json` has the reason
for each. Within the modelled parts: one device per user in groups; ad hoc groups, names and avatars; several folders, moving and `\Seen` flags;
the `to_contact` list parameter and classic PGP mails without intended recipients; broadcast channels in the handshake; items of multi-device
sync about chats and settings; the cancellation of futures that wait for the database.

Left to do, in this order: a model of header rendering and parsing as a pair of operators checked against each other; gossip of keys in
groups.

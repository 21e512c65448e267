-------------------------------- MODULE MCOwn --------------------------------
(* What a user's devices and accounts keep, to be checked at once: a          *)
(* behaviour is one of Contacts, Transports, Accounts, StatusUpdates, Calls,  *)
(* Migrations or KeyContacts, the one `part' names; the state of the others   *)
(* stays as it is.  The cfg gives every part its constants.                   *)
EXTENDS Contacts, DeviceParts, MigrationSteps

CONSTANTS Devices, Addrs, First, Configured, NoAddr, Relays, Crossing, MaxTime, MaxChanges,
          Callers, Callees, Placer, Overlap, MaxActions,
          People, PeerKeys, Msgs, Batch

VARIABLES part,
          tr, one, rm, primary, cached, op, items, incoming, follow, stale, key, loading, log, read,
          now, changes, used,
          ring, timer, busy, mail, box, heard, late, acted, hungUp,
          peer, chatmail, chat, addrOf, verifier, hidden, map, first, from, wrote, before, phase

transportVars == <<tr, one, rm, primary, cached, op, items, incoming, follow, stale, key, loading, log,
                   read, now, changes, used>>
callVars == <<ring, timer, busy, mail, box, heard, late, acted, hungUp>>
keyVars == <<peer, chatmail, chat, addrOf, verifier, hidden, map, first, from, wrote, before, phase>>

Transport == INSTANCE Transports WITH Start <- Configured
Call == INSTANCE Calls WITH call <- ring, read <- heard
Key == INSTANCE KeyContacts WITH Keys <- PeerKeys, Self <- "self", Nobody <- "nobody", pc <- phase

(* What the theorems assume of these constants. *)
\* The profile was configured with the first address.
Configuration == First \in Configured /\ Configured \subseteq Addrs
\* Devices make changes one after the other, when they have read all mail.  With changes that
\* cross, two devices that add the same address swap their parameters.
TakingTurns == Crossing = FALSE /\ NoAddr \notin Addrs
\* The one who calls has one device, and a device handles one thing about the call at a time.
\* With a second device of the caller the end of a call can arrive before the call, and is
\* dropped then.
CallSetup == Callers = {Placer} /\ Placer \notin Callees /\ Overlap = FALSE
Rewriting == Msgs \in Nat /\ Batch \in Nat
ASSUME OwnAssumption == Configuration /\ TakingTurns /\ CallSetup /\ Rewriting

\* A mailing list and no peerstates: the initial state of KeyContacts in the other parts.
NoKeys == /\ peer = << >> /\ chatmail = FALSE
          /\ chat = [type |-> "list", grpid |-> FALSE, protected |-> FALSE, rows |-> << >>]
          /\ addrOf = << >> /\ verifier = << >> /\ hidden = {} /\ map = << >> /\ first = 0
          /\ from = << >> /\ wrote = << >> /\ before = chat /\ phase = "old"

OwnInit == /\ part \in {"contacts", "transports", "accounts", "updates", "calls", "migrations",
                       "keys"}
           /\ Init /\ Transport!Init /\ Account!Init /\ Update!Init /\ Call!Init
           /\ part # "updates" => inst = "sent"
           /\ Schema!Init /\ (part # "migrations" => version < 0)
           /\ IF part = "keys" THEN Key!Init ELSE NoKeys
OwnNext ==
    /\ \/ /\ part = "contacts" /\ Next
          /\ UNCHANGED <<transportVars, accountVars, updateVars, callVars, schemaVars, keyVars>>
       \/ /\ part = "transports" /\ Transport!Next
          /\ UNCHANGED <<vars, accountVars, updateVars, callVars, schemaVars, keyVars>>
       \/ /\ part = "accounts" /\ Account!Next
          /\ UNCHANGED <<vars, transportVars, updateVars, callVars, schemaVars, keyVars>>
       \/ /\ part = "updates" /\ Update!Next
          /\ UNCHANGED <<vars, transportVars, accountVars, callVars, schemaVars, keyVars>>
       \/ /\ part = "calls" /\ Call!Next
          /\ UNCHANGED <<vars, transportVars, accountVars, updateVars, schemaVars, keyVars>>
       \/ /\ part = "migrations" /\ Schema!Next
          /\ UNCHANGED <<vars, transportVars, accountVars, updateVars, callVars, keyVars>>
       \/ /\ part = "keys" /\ Key!Next
          /\ UNCHANGED <<vars, transportVars, accountVars, updateVars, callVars, schemaVars>>
    /\ UNCHANGED part
OwnSpec == OwnInit /\ [][OwnNext]_<<part, vars, transportVars, accountVars, updateVars,
                                    callVars, schemaVars, keyVars>>

(* The properties of the parts, stated and explained in their modules. *)
(* Transports: devices can send, and come to the same transports. *)
TransportsSound == part = "transports" => Transport!TransportsSound
(* Transports: the cached public key names the published relays. *)
KeyIsCurrent == part = "transports" => Transport!KeyIsCurrent
(* Accounts: an id the UI knows never comes to stand for another account. *)
IdsAreNotReused == part = "accounts" => Account!IdsAreNotReused
(* StatusUpdates: an update promised to the chat is queued until it is sent. *)
NoUpdateLost == part = "updates" => Update!NoUpdateLost
(* Calls: hanging up reaches every device. *)
HangUpReachesAll == part = "calls" => Call!HangUpReachesAll
(* Migrations: an upgrade that is interrupted is carried out in the end. *)
Upgraded == part = "migrations" => Schema!Upgraded
(* KeyContacts: chats are with keys or with addresses, and keep their members. *)
ChatsMigrated == part = "keys" => Key!ChatsMigrated
(* KeyContacts: no message is left out of the batches that rewrite them. *)
MessagesRewritten == part = "keys" => Key!MessagesRewritten
=============================================================================

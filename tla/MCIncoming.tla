------------------------------ MODULE MCIncoming ------------------------------
(* The safety instances of the parts that handle incoming mail: a behaviour   *)
(* is one of ChatAssignment, of SecureJoin, MessageUpdates, EphemeralSetting, *)
(* or of a GroupMembership that lives long enough for its member lists to     *)
(* become stale.  `part' says which; the state of the others stays as it is.  *)
(* The cfg gives every part its constants.                                    *)
EXTENDS ChatAssignment

CONSTANTS Devices, Qrs, Fk, V3, Timeout, JoinUntil, Budgets, None,
          Split, Edits, Copies, Keep, UpdatesUntil,
          Participants, Timers, MaxWritten, Crossing,
          Users, Creator, NoOne, GroupUntil, MaxOps, MaxInFlight, MaxNet

VARIABLES part,
          now, tokens, code, sync, verified, member, blocked, mail, doomed, selfSent, inbox,
          bobstate, bobKey, asked, joined, admitted, fresh, gone, revived, lost, left,
          today, split, rows, known, copies, listed, posted, request, deleted,
          timer, stamp, sent, seen, last,
          time, table, group, created, listTs, net, ops, vouched

joinVars == <<now, tokens, code, sync, verified, member, blocked, mail, doomed, selfSent,
              inbox, bobstate, bobKey, asked, joined, admitted, fresh, gone, revived, lost, left>>
updatesVars == <<today, split, rows, known, copies, listed, posted, request, deleted>>
timerVars == <<timer, stamp, sent, seen, last>>
groupVars == <<time, table, group, created, listTs, net, ops, vouched>>

Join == INSTANCE SecureJoin WITH MaxTime <- JoinUntil
Updates == INSTANCE MessageUpdates WITH
    MaxTime <- UpdatesUntil, now <- today, left <- copies, gone <- deleted
Timer == INSTANCE EphemeralSetting WITH Members <- Participants, MaxSent <- MaxWritten

\* The group comes with what is proved of it.
SameClocks == [u \in Users |-> 0]
StaleGroup == INSTANCE GroupMembershipProofs WITH
    Skew <- SameClocks, Tolerance <- 0, StalePeriod <- 1, MaxTime <- GroupUntil,
    now <- time, rows <- table

\* All codes lead to the same chat.
OneChat == [q \in Qrs |-> "g"]
\* Withdrawing and reviving two codes, or one handshake with one fault.
CodesOrHandshake == {[codes |-> 2, scans |-> 0, steps |-> 3, faults |-> 0],
                     [codes |-> 1, scans |-> 1, steps |-> 1, faults |-> 1]}

(* What the theorems assume of these constants. *)
\* None is no code, and the clock is bounded.
Handshakes == None \notin Qrs /\ JoinUntil \in Nat
\* Tombstones are kept for some time; how many copies arrive does not matter.
Arrival == Split \subseteq BOOLEAN /\ Copies \in Nat /\ Keep \in Nat /\ Edits \in Nat
\* Nobody writes before everybody has read what was written: if messages cross, the members
\* can be left with different timers.
InTurn == Crossing = FALSE /\ MaxWritten \in Nat
\* As in GroupMembership.
Membership == /\ IsFiniteSet(Users) /\ Creator \in Users /\ NoOne \notin Users
              /\ GroupUntil \in Nat \ {0} /\ MaxOps \in Nat /\ MaxInFlight \in Nat /\ MaxNet \in Nat
ASSUME IncomingAssumption == Handshakes /\ Arrival /\ InTurn /\ Membership

IncomingInit == /\ part \in {"assign", "join", "updates", "timer", "group"}
                /\ Init /\ Join!Init /\ Updates!Init /\ Timer!Init /\ StaleGroup!Init
                /\ part # "join" => bobKey = TRUE /\ left.codes = 1
                /\ part # "updates" => split = TRUE
IncomingNext ==
    /\ \/ part = "assign" /\ Next /\ UNCHANGED <<joinVars, updatesVars, timerVars, groupVars>>
       \/ part = "join" /\ Join!Next /\ UNCHANGED <<vars, updatesVars, timerVars, groupVars>>
       \/ part = "updates" /\ Updates!Next /\ UNCHANGED <<vars, joinVars, timerVars, groupVars>>
       \/ part = "timer" /\ Timer!Next /\ UNCHANGED <<vars, joinVars, updatesVars, groupVars>>
       \/ part = "group" /\ StaleGroup!Next /\ UNCHANGED <<vars, joinVars, updatesVars, timerVars>>
    /\ UNCHANGED part
IncomingSpec ==
    IncomingInit /\ [][IncomingNext]_<<part, vars, joinVars, updatesVars, timerVars, groupVars>>

(* The properties of the parts, stated and explained in their modules. *)
(* SecureJoin: what withdrawing a code leaves of its tokens. *)
WithdrawnGone == part = "join" => Join!WithdrawnGone
(* SecureJoin implements Invitation. *)
ImplementsInvitation == Join!ImplementsInvitation
(* MessageUpdates: a message is shown once and whole until it is deleted. *)
ShownAsSent == part = "updates" => Updates!ShownAsSent
(* EphemeralSetting: members who have read everything have the same timer. *)
TimersAgree == part = "timer" => Timer!TimersAgree
(* GroupMembership: what a member announces happens at whoever receives it    *)
(* also where messages lack timestamps and the receiver's list may be stale   *)
(* and be replaced by that of the message.                                    *)
StaleChangeTakesEffect == StaleGroup!ChangeTakesEffect
=============================================================================

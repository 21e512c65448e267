--------------------------- MODULE SmtpQueueProofs ---------------------------
(* Proofs about SmtpQueue, for any number of messages, parts, receipts and    *)
(* tries: what the states of a message promise holds while the loop,          *)
(* send_msg_sync, the IMAP loop and the user all work on the queue.           *)
EXTENDS SmtpQueue, FiniteSetTheorems, WellFoundedInduction, TLAPS

-----------------------------------------------------------------------------
(* Numbers and sets *)

(* The smallest of some row ids is one of them. *)
LEMMA SmallestIn ==
  ASSUME NEW S, S \subseteq Nat, S # {}
  PROVE  Smallest(S) \in S
<1> DEFINE R == OpToRel(<, Nat)
<1>1. IsWellFoundedOn(R, Nat)
  BY NatLessThanWellFounded
<1>2. \A x, y \in Nat : <<x, y>> \in R <=> x < y
  BY DEF OpToRel
<1> HIDE DEF R
<1>3. PICK x \in S : \A y \in S : ~ (<<y, x>> \in R)
  BY <1>1, WFMin
<1>4. ASSUME NEW y \in S PROVE x <= y
  <2>1. y \in Nat /\ x \in Nat
    OBVIOUS
  <2>2. ~(y < x)
    BY <1>2, <1>3, <2>1
  <2> QED BY <2>1, <2>2
<1> QED BY <1>4 DEF Smallest

LEMMA Fewer ==
  ASSUME NEW n \in Nat, NEW a \in Int, NEW b \in Int, a <= b
  PROVE  n * a <= n * b
<1>1. PICK d \in Nat : b = a + d
  <2>1. b - a \in Nat /\ b = a + (b - a)
    OBVIOUS
  <2> QED BY <2>1
<1>2. n * b = n * a + n * d
  BY <1>1
<1>3. n * d \in Nat /\ n * a \in Int
  OBVIOUS
<1> QED BY <1>2, <1>3

LEMMA Shifted ==
  ASSUME NEW u \in Nat, NEW v \in Nat, NEW f \in Nat, NEW g \in Nat, NEW k \in Nat, v - g <= u - f
  PROVE  u + k - f \in Int /\ v + k - g \in Int /\ v + k - g <= u + k - f
OBVIOUS

LEMMA OneFewer ==
  ASSUME NEW n \in Nat, NEW a \in Int
  PROVE  n * (a - 1) = n * a - n
OBVIOUS

(* The rows: as many as there may be messages sent and sent again. *)
LEMMA Numbers ==
  /\ NParts \in Nat \ {0} /\ MaxFaults \in Nat /\ IsFiniteSet(Msgs) /\ Cardinality(Msgs) \in Nat
  /\ MaxJobs \in Nat /\ Ids \subseteq Nat /\ Ids = 1..MaxJobs /\ Parts = 1..NParts /\ SelfPart \in Parts
<1>1. NParts \in Nat \ {0} /\ MaxFaults \in Nat /\ IsFiniteSet(Msgs)
  BY SmtpAssumption
<1>2. Cardinality(Msgs) \in Nat
  BY <1>1, FS_CardinalityType
<1>3. Cardinality(Msgs) + MaxFaults \in Nat
  BY <1>1, <1>2
<1>4. MaxJobs \in Nat
  BY <1>1, <1>3 DEF MaxJobs
<1> QED BY <1>1, <1>2, <1>4 DEF Ids, Parts, SelfPart

LEMMA TaskNames ==
  /\ Loop \in Senders /\ Senders \subseteq {Loop, Sync} /\ (SyncSender => Sync \in Senders)
  /\ Tasks = Senders \cup {Imap} /\ Imap \notin Senders /\ Loop # Sync
BY SmtpAssumption DEF Senders, Tasks, Loop, Sync, Imap

-----------------------------------------------------------------------------
(* Row ids do not run out. *)

(* Messages whose rows are still to be created. *)
Unsent == {m \in Msgs : state[m] = "none" \/ m \in prep}
Room == Cardinality(Unsent) + MaxFaults - faults
IdsSuffice == nextId - 1 + NParts * Room <= MaxJobs
PrepStarted == \A m \in prep : state[m] # "none"

LEMMA SomeMsgs ==
  ASSUME NEW S \in SUBSET Msgs
  PROVE  IsFiniteSet(S) /\ Cardinality(S) \in Nat
<1>1. IsFiniteSet(S)
  BY Numbers, FS_Subset
<1> QED BY <1>1, FS_CardinalityType

(* A step that creates no rows keeps them sufficient: every message that      *)
(* becomes unsent again is a fault more.                                      *)
LEMMA RoomKept ==
  ASSUME TypeOK, IdsSuffice, nextId' = nextId, faults' \in Nat,
         \/ Unsent' \subseteq Unsent /\ faults' >= faults
         \/ \E m \in Msgs : Unsent' \subseteq Unsent \cup {m} /\ faults' = faults + 1
  PROVE  IdsSuffice'
<1> DEFINE U == Cardinality(Unsent)
           V == Cardinality(Unsent')
<1>1. Unsent \in SUBSET Msgs /\ Unsent' \in SUBSET Msgs
  BY DEF Unsent
<1>2. /\ U \in Nat /\ V \in Nat /\ faults \in Nat /\ nextId \in Nat
      /\ MaxFaults \in Nat /\ NParts \in Nat /\ MaxJobs \in Nat
  BY <1>1, SomeMsgs, Numbers DEF TypeOK
<1>3. V - faults' <= U - faults
  <2>1. CASE Unsent' \subseteq Unsent /\ faults' >= faults
    <3>1. V <= U
      BY <1>1, <2>1, SomeMsgs, FS_Subset
    <3> QED BY <1>2, <2>1, <3>1
  <2>2. CASE \E m \in Msgs : Unsent' \subseteq Unsent \cup {m} /\ faults' = faults + 1
    <3>1. PICK m \in Msgs : Unsent' \subseteq Unsent \cup {m} /\ faults' = faults + 1
      BY <2>2
    <3>2. IsFiniteSet(Unsent) /\ IsFiniteSet(Unsent \cup {m})
      BY <1>1, SomeMsgs
    <3>3. Cardinality(Unsent \cup {m}) <= U + 1
      BY <1>2, <3>2, FS_AddElement
    <3>4. V <= Cardinality(Unsent \cup {m}) /\ Cardinality(Unsent \cup {m}) \in Nat
      BY <3>1, <3>2, FS_Subset, FS_CardinalityType
    <3> QED BY <1>2, <3>1, <3>3, <3>4
  <2> QED BY <2>1, <2>2
<1> DEFINE r == Room
           q == Room'
<1>4. r = U + MaxFaults - faults /\ q = V + MaxFaults - faults'
  BY DEF Room
<1>5. nextId - 1 + NParts * r <= MaxJobs
  BY DEF IdsSuffice
<1> HIDE DEF U, V, r, q
<1>6. r \in Int /\ q \in Int /\ q <= r
  BY <1>2, <1>3, <1>4, Shifted
<1>7. NParts * q <= NParts * r /\ NParts * q \in Int /\ NParts * r \in Int
  BY <1>2, <1>6, Fewer
<1>8. nextId' - 1 + NParts * q <= MaxJobs
  BY <1>2, <1>5, <1>7
<1> QED BY <1>8 DEF IdsSuffice, q

LEMMA RoomSame ==
  ASSUME TypeOK, IdsSuffice, nextId' = nextId, faults' = faults, Unsent' \subseteq Unsent
  PROVE  IdsSuffice'
<1>1. faults \in Nat
  BY Numbers DEF TypeOK
<1> QED BY <1>1, RoomKept

LEMMA RoomLater ==
  ASSUME TypeOK, IdsSuffice, nextId' = nextId, faults' = faults + 1, NEW m \in Msgs,
         Unsent' \subseteq Unsent \cup {m}
  PROVE  IdsSuffice'
<1>1. faults \in Nat /\ faults' \in Nat
  BY Numbers DEF TypeOK
<1> QED BY <1>1, RoomKept

(* Creating the rows of a message finds ids for all of them. *)
LEMMA RowsFit ==
  ASSUME TypeOK, IdsSuffice, PrepStarted, NEW m \in prep
  PROVE  /\ nextId + NParts - 1 <= MaxJobs
         /\ nextId' = nextId + NParts /\ state' = state /\ prep' = prep \ {m} /\ faults' = faults
            => IdsSuffice'
<1> DEFINE U == Cardinality(Unsent)
<1>1. m \in Unsent /\ Unsent \in SUBSET Msgs
  BY DEF Unsent, TypeOK
<1>2. U \in Nat /\ U # 0 /\ Cardinality(Unsent \ {m}) = U - 1
  BY <1>1, SomeMsgs, FS_RemoveElement, FS_EmptySet
<1>3. faults \in 0..MaxFaults /\ nextId \in Nat
  BY Numbers DEF TypeOK
<1> HIDE DEF U
<1>4. Room = U + MaxFaults - faults /\ Room \in Int /\ 1 <= Room
  BY <1>2, <1>3, Numbers DEF Room, U
<1> DEFINE x == NParts * Room
<1>5. x \in Int /\ NParts <= x
  BY <1>4, Fewer, Numbers
<1>6. nextId - 1 + x <= MaxJobs
  BY DEF IdsSuffice
<1> HIDE DEF x
<1>7. nextId + NParts - 1 <= MaxJobs
  BY <1>3, <1>5, <1>6, Numbers
<1>8. ASSUME nextId' = nextId + NParts, state' = state, prep' = prep \ {m}, faults' = faults
      PROVE  IdsSuffice'
  <2>1. Unsent' = Unsent \ {m}
    BY <1>8 DEF Unsent, PrepStarted
  <2>2. Room' = Room - 1
    BY <1>2, <1>3, <1>4, <1>8, <2>1, Numbers DEF Room
  <2>3. NParts * Room' = x - NParts
    BY <1>4, <2>2, OneFewer, Numbers DEF x
  <2> DEFINE y == NParts * Room'
  <2> HIDE DEF y
  <2>4. nextId' - 1 + y <= MaxJobs
    BY <1>3, <1>5, <1>6, <1>8, <2>3, Numbers DEF y
  <2> QED BY <2>4 DEF IdsSuffice, y
<1> QED BY <1>7, <1>8

-----------------------------------------------------------------------------
(* Types *)

LEMMA InitType == Init => TypeOK /\ IdsSuffice /\ PrepStarted
<1> SUFFICES ASSUME Init PROVE TypeOK /\ IdsSuffice /\ PrepStarted OBVIOUS
<1>1. TypeOK
  <2>1. 1 \in 1..(MaxJobs + 1) /\ 0 \in 0..MaxFaults /\ 0 \in 0..Quota /\ -1 \in -1..(RetryLimit + 1)
    BY Numbers, SmtpAssumption
  <2>2. /\ pc \in [Tasks -> Pcs] /\ todo \in [Senders -> SUBSET Ids] /\ cur \in [Tasks -> Hand \cup {None}]
        /\ \A t \in Tasks : pc[t] \notin InHand \cup {"load"}
        /\ pc[Loop] = "wait"
    BY TaskNames DEF Init, Pcs, InHand
  <2>3. accepted \in [Msgs -> [Parts -> Nat]]
    BY DEF Init
  <2>4. job \in [Ids -> Job \cup {None}] /\ mdn \in [Receipts -> -1..(RetryLimit + 1)]
    BY <2>1 DEF Init
  <2> QED BY <2>1, <2>2, <2>3, <2>4, TaskNames DEF Init, TypeOK, States
<1>2. IdsSuffice
  <2>1. Unsent = Msgs
    BY DEF Init, Unsent
  <2>2. Room = Cardinality(Msgs) + MaxFaults
    BY <2>1, Numbers DEF Init, Room
  <2>3. nextId - 1 + MaxJobs <= MaxJobs
    BY Numbers DEF Init
  <2> QED BY <2>2, <2>3 DEF IdsSuffice, MaxJobs
<1>3. PrepStarted
  BY DEF Init, PrepStarted
<1> QED BY <1>1, <1>2, <1>3

(* A sender that has rows left has one of them at hand. *)
LEMMA RowIsId ==
  ASSUME TypeOK, NEW s \in Senders, todo[s] # {}
  PROVE  Row(s) \in todo[s] /\ Row(s) \in Ids
<1>1. todo[s] \subseteq Ids /\ todo[s] \subseteq Nat
  BY Numbers DEF TypeOK
<1> QED BY <1>1, SmallestIn DEF Row

(* What the steps of a user do. *)
LEMMA UserTypes ==
  ASSUME TypeOK, IdsSuffice, PrepStarted, NEW m \in Msgs, UserStep(m) \/ Resend(m) \/ SendMsgSync(m)
  PROVE  TypeOK' /\ IdsSuffice' /\ PrepStarted'
<1> USE DEF UserStep
<1>a. CASE SendMsg(m)
  <2>1. TypeOK'
    BY <1>a DEF SendMsg, TypeOK, mdnVars, loopVars, States
  <2>2. Unsent' \subseteq Unsent
    BY <1>a DEF SendMsg, Unsent, TypeOK
  <2>3. IdsSuffice'
    BY <1>a, <2>2, RoomSame DEF SendMsg
  <2> QED BY <1>a, <2>1, <2>3 DEF SendMsg, PrepStarted, TypeOK
<1>b. CASE Resend(m)
  <2>1. faults \in 0..MaxFaults /\ faults < MaxFaults /\ faults' = faults + 1 /\ MaxFaults \in Nat
    BY <1>b, Numbers DEF Resend, Fault, TypeOK
  <2>2. faults' \in 0..MaxFaults
    BY <2>1
  <2>3. TypeOK'
    BY <1>b, <2>2 DEF Resend, TypeOK, mdnVars, loopVars, States
  <2>4. Unsent' \subseteq Unsent \cup {m}
    BY <1>b DEF Resend, Unsent, TypeOK
  <2>5. IdsSuffice'
    BY <1>b, <2>1, <2>4, RoomLater DEF Resend
  <2> QED BY <1>b, <2>3, <2>5 DEF Resend, PrepStarted, TypeOK
<1>c. CASE NothingToSend(m) \/ CannotRender(m)
  <2>1. TypeOK'
    BY <1>c DEF NothingToSend, CannotRender, SetDelivered, SetFailed, TypeOK, mdnVars, loopVars, States
  <2>2. \A x \in Msgs : state'[x] = "none" => state[x] = "none"
    BY <1>c DEF NothingToSend, CannotRender, SetDelivered, SetFailed, TypeOK
  <2>3. prep' \subseteq prep /\ prep \subseteq Msgs
    BY <1>c DEF NothingToSend, CannotRender, TypeOK
  <2>4. Unsent' \subseteq Unsent
    BY <2>2, <2>3 DEF Unsent
  <2>5. IdsSuffice'
    BY <1>c, <2>4, RoomSame DEF NothingToSend, CannotRender
  <2> QED BY <2>1, <2>2, <2>3, <2>5 DEF PrepStarted
<1>d. CASE DeleteMsg(m)
  <2>1. faults \in 0..MaxFaults /\ faults < MaxFaults /\ faults' = faults + 1 /\ MaxFaults \in Nat
    BY <1>d, Numbers DEF DeleteMsg, Fault, TypeOK
  <2>2. faults' \in 0..MaxFaults
    BY <2>1
  <2>3. job' \in [Ids -> Job \cup {None}]
    BY <1>d DEF DeleteMsg, TypeOK
  <2>4. TypeOK'
    BY <1>d, <2>2, <2>3 DEF DeleteMsg, TypeOK, mdnVars
  <2>5. Unsent' \subseteq Unsent \cup {m}
    BY <1>d DEF DeleteMsg, Unsent
  <2>6. IdsSuffice'
    BY <1>d, <2>1, <2>5, RoomLater DEF DeleteMsg
  <2> QED BY <1>d, <2>4, <2>6 DEF DeleteMsg, PrepStarted
<1>e. CASE Trash(m)
  <2>1. TypeOK'
    BY <1>e DEF Trash, TypeOK, mdnVars, loopVars, States
  <2>2. Unsent' \subseteq Unsent
    BY <1>e DEF Trash, Unsent, TypeOK
  <2>3. IdsSuffice'
    BY <1>e, <2>2, RoomSame DEF Trash
  <2> QED BY <1>e, <2>1, <2>3 DEF Trash, PrepStarted, TypeOK
<1>f. CASE CreateJobs(m) \/ SendMsgSync(m)
  <2>1. InsertJobs(m) /\ m \in prep /\ faults' = faults /\ state' = state /\ prep' = prep \ {m}
        /\ nextId' = nextId + NParts
    BY <1>f DEF CreateJobs, SendMsgSync, InsertJobs
  <2>2. nextId + NParts - 1 <= MaxJobs /\ IdsSuffice'
    BY <2>1, RowsFit
  <2>3. nextId \in 1..(MaxJobs + 1)
    BY DEF TypeOK
  <2>4. nextId' \in 1..(MaxJobs + 1) /\ 1 \in Ids
    BY <2>1, <2>2, <2>3, Numbers
  <2>5. job' \in [Ids -> Job \cup {None}]
    <3>1. ASSUME NEW i \in nextId..(nextId + NParts - 1)
          PROVE  [msg |-> m, part |-> i - nextId + 1, retries |-> 0] \in Job
      <4>1. i - nextId + 1 \in Parts
        BY <2>3, Numbers
      <4> QED BY <4>1 DEF Job
    <3> QED BY <2>1, <3>1 DEF InsertJobs, TypeOK
  <2>6. CASE CreateJobs(m)
    <3>1. TypeOK'
      BY <2>4, <2>5, <2>6 DEF CreateJobs, InsertJobs, TypeOK, mdnVars
    <3> QED BY <2>1, <2>2, <3>1 DEF PrepStarted
  <2>7. CASE SendMsgSync(m)
    <3>1. todo' \in [Senders -> SUBSET Ids] /\ pc' \in [Tasks -> Pcs] /\ Sync \in Senders
          /\ todo' = [todo EXCEPT ![Sync] = {1}] /\ pc' = [pc EXCEPT ![Sync] = "next"]
      BY <2>4, <2>7, TaskNames DEF SendMsgSync, RowIds, TypeOK, Pcs
    <3>2. /\ \A t \in Tasks : pc'[t] \in InHand => cur'[t] # None
          /\ \A s \in Senders : pc'[s] \in InHand \cup {"load"} => todo'[s] # {}
          /\ pc'[Loop] = "mdn_send" => first' # None
      BY <2>7, <3>1, TaskNames DEF SendMsgSync, TypeOK, mdnVars, InHand
    <3>3. TypeOK'
      BY <2>4, <2>5, <2>7, <3>1, <3>2 DEF SendMsgSync, InsertJobs, TypeOK, mdnVars
    <3> QED BY <2>1, <2>2, <3>3 DEF PrepStarted
  <2> QED BY <1>f, <2>6, <2>7
<1> QED BY <1>a, <1>b, <1>c, <1>d, <1>e, <1>f

(* A task goes on: with the row it has, with another one, or without. *)
Moved(t, place) ==
    /\ pc' = [pc EXCEPT ![t] = place]
    /\ \/ todo' = todo
       \/ /\ t \in Senders /\ place \notin InHand \cup {"load"}
          /\ \E S \in SUBSET Ids : todo' = [todo EXCEPT ![t] = S]
    /\ \/ cur' = cur /\ (place \in InHand => pc[t] \in InHand)
       \/ \E h \in Hand : cur' = [cur EXCEPT ![t] = h]
    /\ t \in Senders /\ place \in InHand \cup {"load"} => todo[t] # {}
    /\ place = "mdn_send" => first' # None

TasksOK ==
    /\ pc \in [Tasks -> Pcs]
    /\ todo \in [Senders -> SUBSET Ids]
    /\ cur \in [Tasks -> Hand \cup {None}]
    /\ \A t \in Tasks : pc[t] \in InHand => cur[t] # None
    /\ \A s \in Senders : pc[s] \in InHand \cup {"load"} => todo[s] # {}
    /\ pc[Loop] = "mdn_send" => first # None

LEMMA MovedTypes ==
  ASSUME TypeOK, NEW t \in Tasks, NEW place \in Pcs, Moved(t, place), first' = first \/ place = "mdn_send"
  PROVE  TasksOK'
<1>1. pc' = [pc EXCEPT ![t] = place] /\ pc' \in [Tasks -> Pcs]
  BY DEF Moved, TypeOK
<1>2. /\ todo' \in [Senders -> SUBSET Ids]
      /\ \A s \in Senders \ {t} : todo'[s] = todo[s]
      /\ todo' = todo \/ place \notin InHand \cup {"load"}
  BY DEF Moved, TypeOK
<1>3. /\ cur' \in [Tasks -> Hand \cup {None}] /\ \A u \in Tasks \ {t} : cur'[u] = cur[u]
      /\ (cur' = cur /\ (place \in InHand => pc[t] \in InHand)) \/ cur'[t] # None
  BY NoneAssumption DEF Moved, TypeOK
<1>4. \A u \in Tasks : pc'[u] \in InHand => cur'[u] # None
  BY <1>1, <1>3 DEF TypeOK
<1>5. \A s \in Senders : pc'[s] \in InHand \cup {"load"} => todo'[s] # {}
  BY <1>1, <1>2, TaskNames DEF TypeOK, Moved
<1>6. pc'[Loop] = "mdn_send" => first' # None
  BY <1>1, TaskNames DEF TypeOK, Moved
<1> QED BY <1>1, <1>2, <1>3, <1>4, <1>5, <1>6 DEF TasksOK

(* Abort, NextRow and Goto move a task. *)
LEMMA Going ==
  ASSUME TypeOK, NEW s \in Senders, cur' = cur
  PROVE  /\ Abort(s) => \E place \in Pcs : Moved(s, place) /\ place # "mdn_send"
         /\ NextRow(s) => \E place \in Pcs : Moved(s, place) /\ place # "mdn_send"
<1>1. {} \in SUBSET Ids /\ todo[s] \ {Row(s)} \in SUBSET Ids
  BY DEF TypeOK
<1> QED BY <1>1 DEF Abort, NextRow, Goto, Moved, Pcs, InHand

(* What the senders do with their rows, up to and including the last word of  *)
(* the server.                                                                *)
LEMMA SenderTypes ==
  ASSUME TypeOK, NEW s \in Senders,
         Connect(s) \/ ConnectFails(s) \/ SendStep(s) \/ AcceptUnheard(s)
  PROVE  TypeOK'
<1> USE DEF SendStep
<1>0. s \in Tasks
  BY TaskNames
<1>h. pc[s] \in InHand => cur[s].msg \in Msgs /\ cur[s].part \in Parts /\ cur[s].id \in Ids \cup {None}
  BY <1>0 DEF TypeOK, Hand
<1>j. \A i : [job EXCEPT ![i] = None] \in [Ids -> Job \cup {None}]
  BY DEF TypeOK
<1>f. \A m \in Msgs : SetFailed(m) => state' \in [Msgs -> States]
  BY DEF SetFailed, TypeOK, States
<1>u. CountSent \/ MayCount => used' \in 0..Quota
  BY SmtpAssumption DEF CountSent, MayCount, TypeOK
<1>g. ASSUME NEW place \in Pcs, Goto(s, place), todo' = todo, cur' = cur, first' = first,
             place \in InHand => pc[s] \in InHand, place \in InHand \cup {"load"} => todo[s] # {},
             place # "mdn_send"
      PROVE  TasksOK'
  BY <1>0, <1>g, MovedTypes DEF Goto, Moved
<1>n. ASSUME Abort(s) \/ NextRow(s), cur' = cur, first' = first PROVE TasksOK'
  BY <1>0, <1>n, Going, MovedTypes
<1>t. pc[s] \in InHand \cup {"load"} => todo[s] # {}
  BY DEF TypeOK
<1>1. CASE Connect(s)
  <2>1. Row(s) \in Ids /\ todo[s] # {}
    BY <1>1, RowIsId DEF Connect
  <2>2. job' \in [Ids -> Job \cup {None}]
    BY <1>1, <2>1 DEF Connect, Counted, TypeOK, Job
  <2>3. TasksOK'
    BY <1>1, <1>g, <2>1 DEF Connect, Pcs, InHand, mdnVars
  <2> QED BY <1>1, <2>2, <2>3 DEF Connect, TypeOK, TasksOK, mdnVars
<1>2. CASE ConnectFails(s) \/ Skip(s)
  <2>1. TasksOK'
    BY <1>2, <1>n DEF ConnectFails, Skip, mdnVars
  <2> QED BY <1>2, <2>1 DEF ConnectFails, Skip, TypeOK, TasksOK, mdnVars, msgVars
<1>3. CASE EndPass(s)
  <2>1. \E place \in Pcs : Goto(s, place) /\ place \notin InHand \cup {"load", "mdn_send"}
    <3>1. PICK place \in {"returned", "idle", "limited", "mdns"} : Goto(s, place)
      BY <1>3, TaskNames DEF EndPass, Finish
    <3> QED BY <3>1 DEF Pcs, InHand
  <2>2. TasksOK'
    BY <1>3, <1>g, <2>1 DEF EndPass, mdnVars
  <2> QED BY <1>3, <2>2 DEF EndPass, TypeOK, TasksOK, mdnVars, msgVars
<1>4. CASE Load(s)
  <2>1. Row(s) \in Ids /\ todo[s] # {}
    BY <1>4, <1>t, RowIsId DEF Load
  <2>2. LoadedRow(s) \in Hand
    BY <1>4, <2>1 DEF Load, LoadedRow, Hand, Job, TypeOK
  <2>3. job' \in [Ids -> Job \cup {None}]
    BY <1>4, <1>j DEF Load, TypeOK
  <2>4. \E place \in Pcs : Moved(s, place) /\ place # "mdn_send"
    BY <1>4, <2>1, <2>2 DEF Load, Moved, Goto, Pcs, InHand
  <2>5. TasksOK'
    BY <1>0, <1>4, <2>4, MovedTypes DEF Load, mdnVars
  <2> QED BY <1>4, <2>3, <2>5 DEF Load, TypeOK, TasksOK, mdnVars
<1>5. CASE Expire(s) \/ MarkFailed(s)
  <2>1. pc[s] \in InHand
    BY <1>5 DEF Expire, MarkFailed, InHand
  <2>2. state' \in [Msgs -> States]
    BY <1>5, <1>f, <1>h, <2>1 DEF Expire, MarkFailed
  <2>3. TasksOK'
    BY <1>5, <1>g, <1>n, <1>t, <2>1 DEF Expire, MarkFailed, mdnVars, Pcs, InHand
  <2> QED BY <1>5, <2>2, <2>3 DEF Expire, MarkFailed, TypeOK, TasksOK, mdnVars
<1>6. CASE Accept(s) \/ AcceptUnheard(s)
  <2>1. pc[s] \in InHand /\ cur[s].msg \in Msgs /\ cur[s].part \in Parts
    BY <1>6, <1>h DEF Accept, AcceptUnheard, InHand
  <2>2. Take(s) /\ CountSent /\ faults' \in 0..MaxFaults
    BY <1>6, Numbers DEF Accept, AcceptUnheard, Fault, TypeOK
  <2>3. accepted' \in [Msgs -> [Parts -> Nat]] /\ inbox' \subseteq Msgs
    BY <2>1, <2>2 DEF Take, TypeOK
  <2>4. TasksOK'
    BY <1>6, <1>g, <1>n, <1>t, <2>1 DEF Accept, AcceptUnheard, mdnVars, Pcs, InHand
  <2> QED BY <1>6, <1>u, <2>2, <2>3, <2>4 DEF Accept, AcceptUnheard, TypeOK, TasksOK, mdnVars
<1>7. CASE Refuse(s) \/ Reject(s)
  <2>1. pc[s] \in InHand /\ used' \in 0..Quota
    BY <1>7, <1>u DEF Refuse, Reject, InHand
  <2>2. TasksOK'
    BY <1>7, <1>g, <1>n, <1>t, <2>1 DEF Refuse, Reject, mdnVars, Pcs, InHand
  <2> QED BY <1>7, <2>1, <2>2 DEF Refuse, Reject, TypeOK, TasksOK, mdnVars, msgVars
<1>8. CASE DropRow(s) \/ DeleteSent(s)
  <2>1. pc[s] \in InHand /\ job' \in [Ids -> Job \cup {None}]
    BY <1>8, <1>j DEF DropRow, DeleteSent, RowDeleted, InHand
  <2>2. TasksOK'
    BY <1>8, <1>g, <1>n, <1>t, <2>1 DEF DropRow, DeleteSent, mdnVars, Pcs, InHand
  <2> QED BY <1>8, <2>1, <2>2 DEF DropRow, DeleteSent, TypeOK, TasksOK, mdnVars
<1> QED BY <1>1, <1>2, <1>3, <1>4, <1>5, <1>6, <1>7, <1>8

(* ... and how a task, or the IMAP loop, finishes one. *)
LEMMA FinishTypes ==
  ASSUME TypeOK, (\E t \in Tasks : FinishStep(t)) \/ (\E m \in Msgs : ReceiveCopy(m))
  PROVE  TypeOK'
<1>1. CASE \E t \in Tasks : FinishStep(t)
  <2>1. PICK t \in Tasks : FinishStep(t)
    BY <1>1
  <2>2. pc[t] \in InHand /\ cur' = cur /\ first' = first /\ cur[t].msg \in Msgs
    BY <2>1 DEF FinishStep, CheckPending, Deliver, InHand, mdnVars, TypeOK, Hand
  <2>3. Return(t) => TasksOK' /\ inbox' \subseteq Msgs
    <3> SUFFICES ASSUME Return(t) PROVE TasksOK' /\ inbox' \subseteq Msgs
      OBVIOUS
    <3>1. CASE t = Imap
      <4>1. Moved(t, "idle") /\ inbox' \subseteq Msgs /\ "idle" \in Pcs
        BY <2>2, <3>1, TaskNames DEF Return, Goto, Moved, TypeOK, InHand, Pcs
      <4> QED BY <2>2, <4>1, MovedTypes
    <3>2. CASE t # Imap
      <4>1. t \in Senders /\ NextRow(t) /\ inbox' = inbox
        BY <3>2, TaskNames DEF Return
      <4> QED BY <2>2, <4>1, Going, MovedTypes DEF TypeOK
    <3> QED BY <3>1, <3>2
  <2>4. CASE CheckPending(t)
    <3>1. CASE HasPending(cur[t].msg)
      BY <2>3, <2>4, <3>1 DEF CheckPending, TypeOK, TasksOK, msgVars, mdnVars
    <3>2. CASE ~HasPending(cur[t].msg)
      <4>1. Moved(t, "deliver") /\ "deliver" \in Pcs
        BY <2>2, <2>4, <3>2 DEF CheckPending, Moved, Goto, InHand, TypeOK, Pcs
      <4>2. TasksOK'
        BY <2>2, <4>1, MovedTypes
      <4> QED BY <2>4, <3>2, <4>2 DEF CheckPending, TypeOK, TasksOK, msgVars, mdnVars
    <3> QED BY <3>1, <3>2
  <2>5. CASE Deliver(t)
    <3>1. state' \in [Msgs -> States]
      BY <2>2, <2>5 DEF Deliver, SetDelivered, TypeOK, States
    <3> QED BY <2>3, <2>5, <3>1 DEF Deliver, TypeOK, TasksOK, mdnVars
  <2> QED BY <2>1, <2>4, <2>5 DEF FinishStep
<1>2. CASE \E m \in Msgs : ReceiveCopy(m)
  <2>1. PICK m \in Msgs : ReceiveCopy(m)
    BY <1>2
  <2>2. job' \in [Ids -> Job \cup {None}]
    BY <2>1 DEF ReceiveCopy, TypeOK
  <2>3. [id |-> None, msg |-> m, part |-> SelfPart] \in Hand
    BY Numbers DEF Hand
  <2>4. Moved(Imap, "check") /\ "check" \in Pcs /\ Imap \in Tasks
    BY <2>1, <2>3, TaskNames DEF ReceiveCopy, Moved, Goto, Pcs, InHand
  <2>5. TasksOK'
    BY <2>1, <2>4, MovedTypes DEF ReceiveCopy, mdnVars
  <2> QED BY <2>1, <2>2, <2>5 DEF ReceiveCopy, TypeOK, TasksOK, mdnVars
<1> QED BY <1>1, <1>2

(* Passes and read receipts *)
LEMMA PassTypes ==
  ASSUME TypeOK, StartPass \/ LimitPassed \/ ReceiptStep \/ Decay \/ \E x \in Receipts : QueueReceipt(x)
  PROVE  TypeOK'
<1>0. Loop \in Tasks /\ Loop \in Senders /\ Rows \in SUBSET Ids /\ {} \in SUBSET Ids
  BY TaskNames DEF Rows
<1>g. ASSUME NEW place \in {"idle", "limited", "mdns"}, Goto(Loop, place), todo' = todo, cur' = cur, first' = first
      PROVE  TasksOK'
  <2>1. Moved(Loop, place) /\ place \in Pcs
    BY <1>g DEF Moved, Goto, Pcs, InHand
  <2> QED BY <1>0, <1>g, <2>1, MovedTypes
<1>n. ASSUME Abort(Loop), cur' = cur, first' = first PROVE TasksOK'
  BY <1>0, <1>n, Going, MovedTypes
<1>d. \A S \in SUBSET Receipts :
         Dropped(S) => gaveUp' \subseteq Receipts /\ mdn' \in [Receipts -> -1..(RetryLimit + 1)]
  BY SmtpAssumption DEF Dropped, TypeOK
<1>u. CountSent \/ MayCount => used' \in 0..Quota
  BY SmtpAssumption DEF CountSent, MayCount, TypeOK
<1>q. queued \in SUBSET Receipts /\ Live \in SUBSET Receipts
  BY DEF queued, Live
<1>1. CASE StartPass \/ LimitPassed
  <2>1. Moved(Loop, "next") /\ "next" \in Pcs /\ first' = first /\ limited' \in BOOLEAN
    BY <1>0, <1>1 DEF StartPass, LimitPassed, Begin, Moved, Goto, Pcs, InHand, mdnVars
  <2>2. TasksOK'
    BY <1>0, <2>1, MovedTypes
  <2> QED BY <1>1, <2>1, <2>2 DEF StartPass, LimitPassed, TypeOK, TasksOK, msgVars, mdnVars
<1>2. CASE MdnsLimited
  <2>1. TasksOK'
    BY <1>2, <1>g DEF MdnsLimited, Finish, mdnVars
  <2> QED BY <1>2, <2>1 DEF MdnsLimited, TypeOK, TasksOK, msgVars, mdnVars
<1>3. CASE MdnsOff \/ MdnsDone
  <2>1. TasksOK'
    BY <1>3, <1>g DEF MdnsOff, MdnsDone, Finish
  <2> QED BY <1>3, <1>d, <1>q, <2>1 DEF MdnsOff, MdnsDone, TypeOK, TasksOK, msgVars
<1>4. CASE \E x \in Receipts : PickReceipt(x)
  <2>1. PICK x \in Receipts : PickReceipt(x)
    BY <1>4
  <2>2. mdn \in [Receipts -> -1..(RetryLimit + 1)] /\ RetryLimit \in Nat /\ mdn[x] >= 0 /\ mdn[x] <= RetryLimit
    BY <2>1, SmtpAssumption DEF PickReceipt, TypeOK, Live, queued
  <2>3. mdn' \in [Receipts -> -1..(RetryLimit + 1)]
    BY <2>1, <2>2 DEF PickReceipt
  <2>4. first' # None /\ report' \subseteq Receipts /\ gaveUp' \subseteq Receipts
    BY <1>q, <2>1, NoneAssumption DEF PickReceipt, TypeOK
  <2>5. Moved(Loop, "mdn_send") /\ "mdn_send" \in Pcs
    BY <2>1, <2>4 DEF PickReceipt, Moved, Goto, Pcs, InHand
  <2>6. TasksOK'
    BY <1>0, <2>5, MovedTypes
  <2> QED BY <2>1, <2>3, <2>4, <2>6 DEF PickReceipt, TypeOK, TasksOK, msgVars
<1>5. CASE ReportAccepted
  <2>1. TasksOK'
    BY <1>5, <1>g DEF ReportAccepted
  <2>2. mdn' \in [Receipts -> -1..(RetryLimit + 1)] /\ acked' \subseteq Receipts
    BY <1>5, SmtpAssumption DEF ReportAccepted, TypeOK
  <2> QED BY <1>5, <1>u, <2>1, <2>2 DEF ReportAccepted, TypeOK, TasksOK, msgVars
<1>6. CASE ReportRefused \/ ReportFails
  <2>1. TasksOK' /\ used' \in 0..Quota
    BY <1>6, <1>n, <1>u DEF ReportRefused, ReportFails, mdnVars
  <2>2. CASE ReportRefused
    BY <2>1, <2>2 DEF ReportRefused, TypeOK, TasksOK, msgVars, mdnVars
  <2>3. CASE ReportFails
    <3>1. {first} \in SUBSET Receipts
      BY <2>3 DEF ReportFails, TypeOK
    <3> QED BY <1>d, <2>1, <2>3, <3>1 DEF ReportFails, TypeOK, TasksOK, msgVars
  <2> QED BY <1>6, <2>2, <2>3
<1>7. CASE Decay
  <2>1. used' \in 0..Quota
    BY <1>7, SmtpAssumption DEF Decay, TypeOK
  <2> QED BY <1>7, <2>1 DEF Decay, TypeOK, msgVars, mdnVars
<1>8. CASE \E x \in Receipts : QueueReceipt(x)
  BY <1>8, SmtpAssumption DEF QueueReceipt, TypeOK, msgVars
<1> QED BY <1>1, <1>2, <1>3, <1>4, <1>5, <1>6, <1>7, <1>8 DEF ReceiptStep

LEMMA CrashTypes ==
  ASSUME TypeOK, SwitchTransport \/ Crash
  PROVE  TypeOK'
<1>1. faults' \in 0..MaxFaults
  BY Numbers DEF SwitchTransport, Crash, Fault, TypeOK
<1>2. CASE SwitchTransport
  BY <1>1, <1>2 DEF SwitchTransport, TypeOK, mdnVars, loopVars
<1>3. CASE Crash
  <2>1. pc' \in [Tasks -> {"idle", "wait"}] /\ todo' \in [Senders -> SUBSET Ids] /\ used' \in 0..Quota
    BY <1>3, SmtpAssumption DEF Crash
  <2>2. \A x \in {"idle", "wait"} : x \in Pcs /\ x \notin InHand \cup {"load", "mdn_send"}
    BY DEF Pcs, InHand
  <2>3. TasksOK'
    BY <1>3, <2>1, <2>2, TaskNames DEF Crash, TasksOK, TypeOK
  <2> QED BY <1>1, <1>3, <2>1, <2>3 DEF Crash, TypeOK, TasksOK, mdnVars
<1> QED BY <1>2, <1>3

LEMMA StepTypes ==
  ASSUME TypeOK, IdsSuffice, PrepStarted, Next
  PROVE  TypeOK' /\ IdsSuffice' /\ PrepStarted'
<1>1. CASE \E m \in Msgs : UserStep(m) \/ Resend(m) \/ SendMsgSync(m)
  BY <1>1, UserTypes
<1>2. CASE ~\E m \in Msgs : UserStep(m) \/ Resend(m) \/ SendMsgSync(m)
  <2>1. TypeOK'
    BY <1>2, SenderTypes, FinishTypes, PassTypes, CrashTypes DEF Next
  <2>2. /\ nextId' = nextId /\ prep' \subseteq prep
        /\ faults' = faults \/ faults' = faults + 1
        /\ \A m \in Msgs : state'[m] = "none" => state[m] = "none"
    <3>1. CASE \E s \in Senders : Connect(s) \/ ConnectFails(s) \/ SendStep(s) \/ AcceptUnheard(s)
      BY <3>1 DEF SendStep, Connect, ConnectFails, AcceptUnheard, EndPass, Skip, Load, Expire, Accept,
         Refuse, Reject, MarkFailed, DropRow, DeleteSent, msgVars, SetFailed, Fault, TypeOK
    <3>2. CASE (\E t \in Tasks : FinishStep(t)) \/ \E m \in Msgs : ReceiveCopy(m)
      BY <3>2 DEF FinishStep, CheckPending, Deliver, ReceiveCopy, msgVars, SetDelivered, TypeOK
    <3>3. CASE StartPass \/ LimitPassed \/ ReceiptStep \/ Decay \/ \E x \in Receipts : QueueReceipt(x)
      BY <3>3 DEF StartPass, LimitPassed, ReceiptStep, Decay, QueueReceipt, MdnsLimited, MdnsOff, MdnsDone,
         PickReceipt, ReportAccepted, ReportRefused, ReportFails, msgVars
    <3>4. CASE SwitchTransport \/ Crash
      BY <3>4 DEF SwitchTransport, Crash, Fault
    <3> QED BY <1>2, <3>1, <3>2, <3>3, <3>4 DEF Next
  <2>3. Unsent' \subseteq Unsent
    BY <2>2 DEF Unsent
  <2>4. faults \in Nat
    BY Numbers DEF TypeOK
  <2>5. IdsSuffice'
    BY <2>2, <2>3, <2>4, RoomKept
  <2>6. PrepStarted'
    BY <2>2 DEF PrepStarted, TypeOK
  <2> QED BY <2>1, <2>5, <2>6
<1> QED BY <1>1, <1>2

LEMMA StutterTypes ==
  ASSUME TypeOK, IdsSuffice, PrepStarted, UNCHANGED vars
  PROVE  TypeOK' /\ IdsSuffice' /\ PrepStarted'
<1> USE DEF vars, msgVars, mdnVars, loopVars
<1>1. TypeOK' /\ PrepStarted'
  BY DEF TypeOK, PrepStarted
<1>2. Unsent' = Unsent
  BY DEF Unsent
<1> QED BY <1>1, <1>2, RoomSame

(* The variables of SmtpQueue keep their types, whatever happens: rows never   *)
(* run out of ids, every task at work has the row it works on at hand, and a   *)
(* receipt is tried at most once more than the limit.                          *)
THEOREM QueueTypes == Spec => []TypeOK
<1>1. TypeOK /\ IdsSuffice /\ PrepStarted /\ [Next]_vars => (TypeOK /\ IdsSuffice /\ PrepStarted)'
  BY StepTypes, StutterTypes
<1> QED BY InitType, <1>1, PTL DEF Spec

-----------------------------------------------------------------------------
(* Read receipts *)

(* A read receipt that was queued is queued still, was taken by the server or  *)
(* was given up, with crashes, resends and everything else that can happen:    *)
(* send_mdn deletes exactly the receipts it has reported.                      *)
THEOREM ReceiptsAreKept == Spec => []NoReceiptLost
<1> DEFINE Inv == TypeOK /\ IdsSuffice /\ PrepStarted /\ NoReceiptLost
<1>1. Init => Inv
  BY InitType DEF Init, NoReceiptLost
<1>2. Inv /\ [Next]_vars => Inv'
  <2> SUFFICES ASSUME TypeOK, IdsSuffice, PrepStarted, NoReceiptLost, [Next]_vars PROVE Inv'
    OBVIOUS
  <2>1. TypeOK' /\ IdsSuffice' /\ PrepStarted'
    BY StepTypes, StutterTypes
  <2>2. NoReceiptLost'
    <3> USE DEF NoReceiptLost, queued
    <3>0. mdn \in [Receipts -> -1..(RetryLimit + 1)] /\ asked \subseteq Receipts
      BY DEF TypeOK
    <3>1. CASE \E x \in Receipts : QueueReceipt(x)
      BY <3>0, <3>1 DEF QueueReceipt
    <3>2. CASE MdnsOff \/ MdnsDone \/ ReportFails
      BY <3>0, <3>2 DEF MdnsOff, MdnsDone, ReportFails, Dropped
    <3>3. CASE \E x \in Receipts : PickReceipt(x)
      BY <3>0, <3>3 DEF PickReceipt
    <3>4. CASE ReportAccepted
      BY <3>0, <3>4 DEF ReportAccepted, Reported
    <3>5. CASE UNCHANGED mdnVars
      BY <3>5 DEF mdnVars
    <3>6. ASSUME ~UNCHANGED mdnVars
          PROVE  \/ \E x \in Receipts : QueueReceipt(x) \/ PickReceipt(x)
                 \/ MdnsOff \/ MdnsDone \/ ReportFails \/ ReportAccepted
      BY <3>6 DEF Next, vars, UserStep, SendMsg, CreateJobs, NothingToSend, CannotRender, DeleteMsg, Trash,
         Resend, SendMsgSync, ReceiveCopy, Connect, ConnectFails, SendStep, AcceptUnheard, EndPass, Skip,
         Load, Expire, Accept, Refuse, Reject, MarkFailed, DropRow, DeleteSent, FinishStep, CheckPending,
         Deliver, StartPass, LimitPassed, ReceiptStep, MdnsLimited, ReportRefused, SwitchTransport, Decay, Crash
    <3> QED BY <3>1, <3>2, <3>3, <3>4, <3>5, <3>6
  <2> QED BY <2>1, <2>2
<1>3. Inv => NoReceiptLost
  OBVIOUS
<1> QED BY <1>1, <1>2, <1>3, PTL DEF Spec

-----------------------------------------------------------------------------
(* What the states of a message promise.  Crashes, resends and a change of    *)
(* the transport do break it; lost answers and deletions do not.              *)

Undisturbed == Events \subseteq {"lost_ok", "delete"}

Transfer == {"transmit", "rejected", "drop", "ok"}

(* A message whose jobs have been created. *)
Started(m) == m \notin prep /\ state[m] # "none" /\ m \notin Recipientless

Queued(m, p) == \E i \in Ids : job[i] # None /\ job[i].msg = m /\ job[i].part = p

AllAccepted(m) == \A p \in Parts : accepted[m][p] >= 1

(* Ids are given once, so that the row a sender deletes is the one it sent, *)
FreshIds == \A i \in Ids : i >= nextId => job[i] = None

HandMatches ==
    \A s \in Senders : pc[s] \in Transfer =>
        /\ cur[s].id \in Ids /\ cur[s].id < nextId
        /\ job[cur[s].id] # None => job[cur[s].id].msg = cur[s].msg /\ job[cur[s].id].part = cur[s].part

(* and it is deleted for a reason. *)
DropFailed == \A s \in Senders : pc[s] = "drop" => state[cur[s].msg] \in {"OutFailed", "gone"}
OkAccepted == \A s \in Senders : pc[s] = "ok" => accepted[cur[s].msg][cur[s].part] >= 1
CopiesAccepted == \A m \in inbox : Started(m) /\ accepted[m][SelfPart] >= 1

(* A message is not worked on before its jobs exist, nor afterwards prepared *)
(* again.                                                                    *)
PrepPending == \A m \in prep : state[m] \in {"OutPending", "gone"}
RowsStarted == \A i \in Ids : job[i] # None => Started(job[i].msg)
HandsStarted == \A t \in Tasks : pc[t] \in InHand => Started(cur[t].msg)

(* Every part of a pending message is taken or queued, if none has failed. *)
PartsKept ==
    \A m \in Msgs \ (prep \cup trashing \cup Recipientless) : \A p \in Parts :
        state[m] = "OutPending" => accepted[m][p] >= 1 \/ AboutToFail(m) \/ Queued(m, p)

DeliveredAll ==
    \A m \in Msgs \ (trashing \cup Recipientless) :
        state[m] = "OutDelivered" => AboutToFail(m) \/ AllAccepted(m)

(* What CheckPending has found is still true when Deliver acts on it. *)
DeliverKnows ==
    \A t \in Tasks :
        pc[t] = "deliver" /\ cur[t].msg \notin trashing /\ state[cur[t].msg] = "OutPending"
        => AboutToFail(cur[t].msg) \/ AllAccepted(cur[t].msg)

QueueInv ==
    /\ FreshIds /\ HandMatches /\ DropFailed /\ OkAccepted /\ CopiesAccepted
    /\ PrepPending /\ RowsStarted /\ HandsStarted
    /\ PartsKept /\ DeliveredAll /\ DeliverKnows /\ PendingIsQueued

LEMMA InitQueue == Init => QueueInv
<1> SUFFICES ASSUME Init PROVE QueueInv OBVIOUS
<1>1. \A t \in Tasks : pc[t] \in {"idle", "wait"}
  BY DEF Init
<1>2. Senders \subseteq Tasks
  BY TaskNames
<1> QED BY <1>1, <1>2 DEF Init, QueueInv, FreshIds, HandMatches, DropFailed, OkAccepted, CopiesAccepted,
        PrepPending, RowsStarted, HandsStarted, PartsKept, DeliveredAll, DeliverKnows, PendingIsQueued,
        Transfer, InHand

(* The facts about types that the steps below need. *)
QueueTyped ==
    /\ state \in [Msgs -> States] /\ job \in [Ids -> Job \cup {None}] /\ nextId \in Nat
    /\ pc \in [Tasks -> Pcs] /\ cur \in [Tasks -> Hand \cup {None}]
    /\ accepted \in [Msgs -> [Parts -> Nat]]
    /\ prep \subseteq Msgs /\ trashing \subseteq Msgs /\ inbox \subseteq Msgs
    /\ \A t \in Tasks : pc[t] \in InHand => cur[t] \in Hand
    /\ Senders \subseteq Tasks /\ Ids \subseteq Nat /\ Imap \in Tasks /\ Imap \notin Senders
    /\ None \notin Job /\ SelfPart \in Parts

LEMMA TypesForQueue == TypeOK => QueueTyped
BY Numbers, TaskNames, NoneAssumption DEF TypeOK, QueueTyped

(* Steps that change nothing the invariant speaks of. *)
Quiet ==
    /\ UNCHANGED <<state, prep, trashing, nextId, accepted, inbox, cur>>
    /\ \A i \in Ids : /\ job'[i] = None <=> job[i] = None
                      /\ job[i] # None => job'[i].msg = job[i].msg /\ job'[i].part = job[i].part
    /\ \A t \in Tasks : pc'[t] = pc[t] \/ (pc[t] \notin {"expired", "check", "deliver"} /\ pc'[t] \notin InHand)

LEMMA QuietStep ==
  ASSUME QueueTyped, QueueInv, Quiet
  PROVE  QueueInv'
<1> USE DEF QueueTyped, Quiet
<1>1. /\ \A m \in Msgs : AboutToFail(m)' <=> AboutToFail(m)
      /\ \A m \in Msgs, p \in Parts : Queued(m, p)' <=> Queued(m, p)
      /\ \A m \in Msgs : Started(m)' <=> Started(m)
      /\ \A m \in Msgs : AllAccepted(m)' <=> AllAccepted(m)
      /\ \A m \in Msgs : JobsOf(m)' = JobsOf(m)
  BY DEF AboutToFail, Queued, Started, AllAccepted, JobsOf, Rows, InHand
<1>2. FreshIds' /\ HandMatches' /\ DropFailed' /\ OkAccepted' /\ PrepPending'
  BY DEF QueueInv, FreshIds, HandMatches, DropFailed, OkAccepted, PrepPending, Transfer, InHand
<1>3. CopiesAccepted' /\ RowsStarted' /\ HandsStarted'
  BY <1>1 DEF QueueInv, CopiesAccepted, RowsStarted, HandsStarted, Job, Hand
<1>4. PartsKept' /\ DeliveredAll'
  BY <1>1 DEF QueueInv, PartsKept, DeliveredAll
<1>5. DeliverKnows' /\ PendingIsQueued'
  BY <1>1 DEF QueueInv, DeliverKnows, PendingIsQueued, InHand, Hand
<1> QED BY <1>2, <1>3, <1>4, <1>5 DEF QueueInv

(* What the user does. *)
LEMMA SendMsgQueue ==
  ASSUME QueueTyped, QueueInv, NEW m \in Msgs, SendMsg(m)
  PROVE  QueueInv'
<1> USE DEF QueueTyped
<1>1. /\ state[m] = "none" /\ state' = [state EXCEPT ![m] = "OutPending"] /\ prep' = prep \cup {m}
      /\ UNCHANGED <<trashing, job, nextId, accepted, pc, cur, inbox>>
  BY DEF SendMsg, loopVars
<1>2. \A x \in Msgs : Started(x) => Started(x)'
  BY <1>1 DEF Started
<1>3. FreshIds' /\ HandMatches' /\ OkAccepted'
  BY <1>1 DEF QueueInv, FreshIds, HandMatches, OkAccepted
<1>4. CopiesAccepted' /\ RowsStarted' /\ HandsStarted'
  BY <1>1, <1>2 DEF QueueInv, CopiesAccepted, RowsStarted, HandsStarted, Job, Hand
<1>5. DropFailed' /\ PrepPending'
  BY <1>1 DEF QueueInv, DropFailed, PrepPending, InHand, Hand
<1>6. PartsKept' /\ DeliveredAll'
  BY <1>1 DEF QueueInv, PartsKept, DeliveredAll, AboutToFail, Queued, AllAccepted
<1>7. DeliverKnows'
  BY <1>1, <1>4 DEF QueueInv, DeliverKnows, HandsStarted, Started, AboutToFail, AllAccepted, InHand, Hand
<1>8. PendingIsQueued'
  BY <1>1 DEF QueueInv, PendingIsQueued, JobsOf, Rows
<1> QED BY <1>3, <1>4, <1>5, <1>6, <1>7, <1>8 DEF QueueInv

(* A message that fails, or has nobody to be sent to, before it has jobs. *)
LEMMA NoJobsQueue ==
  ASSUME QueueTyped, QueueInv, NEW m \in Msgs, NothingToSend(m) \/ CannotRender(m)
  PROVE  QueueInv'
<1> USE DEF QueueTyped
<1>1. PICK new \in {"OutDelivered", "OutFailed", "gone"} :
         /\ m \in prep /\ state' = [state EXCEPT ![m] = new] /\ prep' = prep \ {m}
         /\ new = "OutDelivered" => m \in Recipientless
         /\ UNCHANGED <<trashing, job, nextId, accepted, pc, cur, inbox>>
  BY DEF NothingToSend, CannotRender, SetDelivered, SetFailed, loopVars, QueueInv, PrepPending
<1>2. \A x \in Msgs : Started(x) => Started(x)'
  BY <1>1 DEF Started
<1>3. FreshIds' /\ HandMatches' /\ OkAccepted'
  BY <1>1 DEF QueueInv, FreshIds, HandMatches, OkAccepted
<1>4. CopiesAccepted' /\ RowsStarted' /\ HandsStarted'
  BY <1>1, <1>2 DEF QueueInv, CopiesAccepted, RowsStarted, HandsStarted, Job, Hand
<1>5. DropFailed' /\ PrepPending'
  BY <1>1 DEF QueueInv, DropFailed, PrepPending, HandsStarted, Started, InHand, Hand
<1>6. PartsKept' /\ DeliveredAll'
  <2>1. \A x \in Msgs : /\ AboutToFail(x)' <=> AboutToFail(x)
                        /\ AllAccepted(x)' <=> AllAccepted(x)
                        /\ \A p \in Parts : Queued(x, p)' <=> Queued(x, p)
    BY <1>1 DEF AboutToFail, Queued, AllAccepted
  <2> QED BY <1>1, <2>1 DEF QueueInv, PartsKept, DeliveredAll
<1>7. DeliverKnows'
  BY <1>1 DEF QueueInv, DeliverKnows, AboutToFail, AllAccepted, InHand, Hand
<1>8. PendingIsQueued'
  BY <1>1 DEF QueueInv, PendingIsQueued, JobsOf, Rows
<1> QED BY <1>3, <1>4, <1>5, <1>6, <1>7, <1>8 DEF QueueInv

LEMMA DeleteQueue ==
  ASSUME QueueTyped, QueueInv, NEW m \in Msgs, DeleteMsg(m)
  PROVE  QueueInv'
<1> USE DEF QueueTyped
<1>1. /\ job' = [i \in Ids |-> IF i \in JobsOf(m) THEN None ELSE job[i]]
      /\ trashing' = trashing \cup {m}
      /\ UNCHANGED <<state, prep, nextId, accepted, pc, cur, inbox>>
  BY DEF DeleteMsg
<1>2. \A i \in Ids : /\ job'[i] # None => job'[i] = job[i]
                     /\ job[i] # None /\ job[i].msg # m => job'[i] = job[i]
  BY <1>1 DEF JobsOf, Rows
<1>3. FreshIds' /\ HandMatches' /\ OkAccepted' /\ DropFailed' /\ PrepPending'
  BY <1>1, <1>2 DEF QueueInv, FreshIds, HandMatches, OkAccepted, DropFailed, PrepPending
<1>4. CopiesAccepted' /\ RowsStarted' /\ HandsStarted'
  BY <1>1, <1>2 DEF QueueInv, CopiesAccepted, RowsStarted, HandsStarted, Started
<1>5. PartsKept' /\ DeliveredAll' /\ DeliverKnows'
  <2>1. PartsKept' BY <1>1, <1>2 DEF QueueInv, PartsKept, AboutToFail, Queued
  <2>2. DeliveredAll' /\ DeliverKnows' BY <1>1, <1>2 DEF QueueInv, DeliveredAll, DeliverKnows, AboutToFail, AllAccepted
  <2> QED BY <2>1, <2>2
<1>6. PendingIsQueued'
  <2>1. \A x \in Msgs \ {m} : JobsOf(x)' = JobsOf(x)
    BY <1>2 DEF JobsOf, Rows
  <2> QED BY <1>1, <2>1 DEF QueueInv, PendingIsQueued
<1> QED BY <1>3, <1>4, <1>5, <1>6 DEF QueueInv

LEMMA TrashQueue ==
  ASSUME QueueTyped, QueueInv, NEW m \in Msgs, Trash(m)
  PROVE  QueueInv'
<1> USE DEF QueueTyped
<1>1. /\ state' = [state EXCEPT ![m] = "gone"] /\ trashing' = trashing \ {m}
      /\ UNCHANGED <<prep, job, nextId, accepted, pc, cur, inbox>>
  BY DEF Trash, loopVars
<1>3. FreshIds' /\ HandMatches' /\ OkAccepted' /\ DropFailed' /\ PrepPending'
  BY <1>1 DEF QueueInv, FreshIds, HandMatches, OkAccepted, DropFailed, PrepPending, InHand, Hand
<1>4. CopiesAccepted' /\ RowsStarted' /\ HandsStarted'
  BY <1>1 DEF QueueInv, CopiesAccepted, RowsStarted, HandsStarted, Started, Job, Hand
<1>5. PartsKept' /\ DeliveredAll' /\ DeliverKnows'
  <2>1. \A x \in Msgs : /\ AboutToFail(x)' <=> AboutToFail(x)
                        /\ AllAccepted(x)' <=> AllAccepted(x)
                        /\ \A p \in Parts : Queued(x, p)' <=> Queued(x, p)
    BY <1>1 DEF AboutToFail, Queued, AllAccepted
  <2>2. PartsKept' /\ DeliveredAll'
    BY <1>1, <2>1 DEF QueueInv, PartsKept, DeliveredAll
  <2>3. DeliverKnows'
    BY <1>1, <2>1 DEF QueueInv, DeliverKnows, InHand, Hand
  <2> QED BY <2>2, <2>3
<1>6. PendingIsQueued'
  BY <1>1 DEF QueueInv, PendingIsQueued, JobsOf, Rows
<1> QED BY <1>3, <1>4, <1>5, <1>6 DEF QueueInv

(* The jobs of a message are created, all of them with new ids. *)
LEMMA InsertQueue ==
  ASSUME TypeOK, IdsSuffice, PrepStarted, QueueTyped, QueueInv, NEW m \in Msgs,
         CreateJobs(m) \/ SendMsgSync(m)
  PROVE  QueueInv'
<1> USE DEF QueueTyped
<1> DEFINE New == nextId..(nextId + NParts - 1)
<1>1. /\ m \in prep /\ m \notin Recipientless /\ prep' = prep \ {m} /\ nextId' = nextId + NParts
      /\ job' = [i \in Ids |-> IF i \in New THEN [msg |-> m, part |-> i - nextId + 1, retries |-> 0]
                               ELSE job[i]]
      /\ UNCHANGED <<state, trashing, accepted, inbox, cur>>
  BY DEF CreateJobs, SendMsgSync, InsertJobs
<1>2. \A t \in Tasks : pc'[t] = pc[t] \/ (pc[t] \notin InHand /\ pc'[t] \notin InHand)
  BY DEF CreateJobs, SendMsgSync, InHand
<1>3. nextId \in Nat /\ NParts \in Nat \ {0} /\ nextId + NParts - 1 <= MaxJobs /\ Ids = 1..MaxJobs
      /\ MaxJobs \in Nat /\ nextId >= 1 /\ Parts = 1..NParts
  <2>1. nextId \in 1..(MaxJobs + 1) BY DEF TypeOK
  <2>2. NParts \in Nat \ {0} /\ MaxJobs \in Nat /\ Ids = 1..MaxJobs /\ Parts = 1..NParts BY Numbers
  <2>3. nextId + NParts - 1 <= MaxJobs BY <1>1, RowsFit
  <2> QED BY <2>1, <2>2, <2>3
<1>4. \A i \in Ids : /\ i < nextId => job'[i] = job[i]
                     /\ i \in New => job'[i].msg = m /\ job'[i] # None
                     /\ i >= nextId' => job'[i] = job[i]
                     /\ job'[i] # None => job'[i] = job[i] \/ (job'[i].msg = m /\ i < nextId')
  <2>1. \A i \in New : [msg |-> m, part |-> i - nextId + 1, retries |-> 0] \in Job
    BY <1>3 DEF Job
  <2>2. \A i \in Ids : i \in New <=> nextId <= i /\ i < nextId'
    BY <1>1, <1>3
  <2>3. \A i \in New \cap Ids : job'[i].msg = m /\ job'[i] # None
    BY <1>1, <2>1
  <2>4. \A i \in Ids \ New : job'[i] = job[i]
    BY <1>1
  <2>5. nextId' \in Nat
    BY <1>1, <1>3
  <2> HIDE DEF New
  <2>6. ASSUME NEW i \in Ids
        PROVE  /\ i < nextId => job'[i] = job[i]
               /\ i \in New => job'[i].msg = m /\ job'[i] # None
               /\ i >= nextId' => job'[i] = job[i]
               /\ job'[i] # None => job'[i] = job[i] \/ (job'[i].msg = m /\ i < nextId')
    <3>1. i \in Nat /\ nextId \in Nat
      BY <1>3
    <3>2. CASE i \in New
      BY <2>2, <2>3, <2>5, <3>1, <3>2
    <3>3. CASE i \notin New
      BY <2>4, <3>3
    <3> QED BY <3>2, <3>3
  <2> QED BY <2>6
<1>5. \A p \in Parts : Queued(m, p)'
  <2> SUFFICES ASSUME NEW p \in Parts PROVE Queued(m, p)'
    OBVIOUS
  <2>1. nextId + p - 1 \in New /\ nextId + p - 1 \in Ids /\ (nextId + p - 1) - nextId + 1 = p
    BY <1>3
  <2>2. job'[nextId + p - 1].part = p
    BY <1>1, <2>1
  <2> QED BY <1>4, <2>1, <2>2 DEF Queued
<1>6. \A i \in Ids : job[i] # None => i < nextId
  BY <1>3 DEF QueueInv, FreshIds
<1>7. \A x \in Msgs, p \in Parts : Queued(x, p) => Queued(x, p)'
  BY <1>4, <1>6 DEF Queued
<1>8. /\ \A x \in Msgs : Started(x) => Started(x)'
      /\ Started(m)'
      /\ \A x \in Msgs : AboutToFail(x) => AboutToFail(x)'
      /\ \A x \in Msgs : AllAccepted(x)' <=> AllAccepted(x)
  BY <1>1, <1>2 DEF Started, QueueInv, PrepPending, AboutToFail, AllAccepted, InHand
<1> HIDE DEF New
<1>9. FreshIds' /\ OkAccepted' /\ DropFailed' /\ PrepPending'
  <2>1. FreshIds'
    <3> SUFFICES ASSUME NEW i \in Ids, i >= nextId' PROVE job'[i] = None
      BY DEF FreshIds
    <3>1. i \in Nat /\ nextId' \in Nat /\ i >= nextId
      BY <1>1, <1>3
    <3> QED BY <1>4, <3>1 DEF QueueInv, FreshIds
  <2>2. OkAccepted' /\ DropFailed' /\ PrepPending'
    BY <1>1, <1>2 DEF QueueInv, OkAccepted, DropFailed, PrepPending, InHand
  <2> QED BY <2>1, <2>2
<1>10. HandMatches'
  BY <1>1, <1>2, <1>3, <1>4, SMTT(20) DEF QueueInv, HandMatches, Transfer, InHand
<1>11. CopiesAccepted' /\ RowsStarted' /\ HandsStarted'
  BY <1>1, <1>2, <1>4, <1>8 DEF QueueInv, CopiesAccepted, RowsStarted, HandsStarted, Job, Hand
<1>12. PartsKept' /\ DeliveredAll'
  BY <1>1, <1>5, <1>7, <1>8 DEF QueueInv, PartsKept, DeliveredAll
<1>13. DeliverKnows'
  BY <1>1, <1>2, <1>8 DEF QueueInv, DeliverKnows, InHand, Hand
<1>14. PendingIsQueued'
  <2>1. JobsOf(m)' # {}
    <3>1. nextId \in New /\ nextId \in Ids
      BY <1>3 DEF New
    <3> QED BY <1>4, <3>1 DEF JobsOf, Rows
  <2>2. \A x \in Msgs : JobsOf(x) # {} => JobsOf(x)' # {}
    BY <1>4, <1>6 DEF JobsOf, Rows
  <2> QED BY <1>1, <1>2, <2>1, <2>2 DEF QueueInv, PendingIsQueued, InHand
<1> QED BY <1>9, <1>10, <1>11, <1>12, <1>13, <1>14 DEF QueueInv

(* What the senders do. *)

(* A row is taken at hand; one that was tried too often is deleted. *)
LEMMA LoadQueue ==
  ASSUME TypeOK, QueueTyped, QueueInv, NEW s \in Senders, Load(s)
  PROVE  QueueInv'
<1> USE DEF QueueTyped
<1>a. Row(s) \in Ids /\ job[Row(s)] # None
  BY RowIsId DEF Load, TypeOK
<1>b. PICK r \in Ids : r = Row(s)
  BY <1>a
<1>c. PICK m \in Msgs : m = job[r].msg
  BY <1>a, <1>b DEF Job
<1>d. PICK q \in Parts : q = job[r].part
  BY <1>a, <1>b DEF Job
<1>1. job[r] # None /\ m = job[r].msg /\ q = job[r].part /\ r \in Nat
  BY <1>a, <1>b, <1>c, <1>d
<1>2. PICK place \in {"expired", "transmit"} :
         /\ pc' = [pc EXCEPT ![s] = place] /\ pc[s] = "load"
         /\ cur' = [cur EXCEPT ![s] = [id |-> r, msg |-> m, part |-> q]]
         /\ place = "expired" => job' = [job EXCEPT ![r] = None]
         /\ place = "transmit" => job' = job
         /\ UNCHANGED <<state, prep, trashing, nextId, accepted, inbox>>
  BY <1>b, <1>c, <1>d DEF Load, LoadedRow, Goto
<1>3. s \in Tasks /\ cur'[s].id = r /\ cur'[s].msg = m /\ cur'[s].part = q /\ pc'[s] = place
  BY <1>2
<1>4. \A u \in Tasks \ {s} : pc'[u] = pc[u] /\ cur'[u] = cur[u]
  BY <1>2
<1>5. \A i \in Ids : /\ job'[i] # None => job'[i] = job[i]
                     /\ i # r \/ place = "transmit" => job'[i] = job[i]
  BY <1>2
<1>6. r < nextId /\ Started(m)
  BY <1>1 DEF QueueInv, FreshIds, RowsStarted
<1>7. UNCHANGED <<state, prep, trashing, nextId, accepted, inbox>>
  BY <1>2
<1>8. /\ \A x \in Msgs : AboutToFail(x) => AboutToFail(x)'
      /\ place = "expired" => AboutToFail(m)'
      /\ \A x \in Msgs : AllAccepted(x)' <=> AllAccepted(x)
      /\ \A x \in Msgs : Started(x)' <=> Started(x)
  BY <1>2, <1>3, <1>4, <1>7 DEF AboutToFail, AllAccepted, Started
<1>9. \A x \in Msgs, p \in Parts : Queued(x, p) => Queued(x, p)' \/ (place = "expired" /\ x = m)
  BY <1>1, <1>5 DEF Queued
<1>m. pc[s] = "load" /\ pc'[s] \notin {"drop", "ok", "check", "deliver"} /\ place \in {"expired", "transmit"}
  BY <1>2, <1>3
<1>10. FreshIds' /\ OkAccepted' /\ DropFailed' /\ PrepPending'
  BY <1>4, <1>5, <1>7, <1>m DEF QueueInv, FreshIds, OkAccepted, DropFailed, PrepPending
<1>11. HandMatches'
  <2> SUFFICES ASSUME NEW u \in Senders, pc'[u] \in Transfer
               PROVE  /\ cur'[u].id \in Ids /\ cur'[u].id < nextId
                      /\ job'[cur'[u].id] # None =>
                            job'[cur'[u].id].msg = cur'[u].msg /\ job'[cur'[u].id].part = cur'[u].part
    BY <1>7 DEF HandMatches
  <2>1. CASE u = s
    BY <1>1, <1>3, <1>5, <1>6, <2>1
  <2>2. CASE u # s
    <3>1. pc[u] \in Transfer /\ cur'[u] = cur[u]
      BY <1>4, <2>2
    <3>2. /\ cur[u].id \in Ids /\ cur[u].id < nextId
          /\ job[cur[u].id] # None => job[cur[u].id].msg = cur[u].msg /\ job[cur[u].id].part = cur[u].part
      BY <3>1 DEF QueueInv, HandMatches
    <3>3. job'[cur[u].id] # None => job'[cur[u].id] = job[cur[u].id]
      BY <1>5, <3>2
    <3> QED BY <3>1, <3>2, <3>3
  <2> QED BY <2>1, <2>2
<1>12. CopiesAccepted' /\ RowsStarted' /\ HandsStarted'
  BY <1>3, <1>4, <1>5, <1>6, <1>7, <1>8 DEF QueueInv, CopiesAccepted, RowsStarted, HandsStarted, Job, Hand, InHand
<1>13. PartsKept' /\ DeliveredAll'
  BY <1>7, <1>8, <1>9 DEF QueueInv, PartsKept, DeliveredAll
<1>14. DeliverKnows'
  BY <1>4, <1>7, <1>8, <1>m DEF QueueInv, DeliverKnows, InHand, Hand
<1>15. PendingIsQueued'
  <2>1. \A x \in Msgs : JobsOf(x) # {} => JobsOf(x)' # {} \/ (place = "expired" /\ x = m)
    BY <1>1, <1>5 DEF JobsOf, Rows
  <2> SUFFICES ASSUME NEW x \in Msgs, state[x] = "OutPending", x \notin prep \cup trashing, JobsOf(x)' = {}
               PROVE  \E t \in Tasks : pc'[t] \in {"expired", "check", "deliver"} /\ cur'[t].msg = x
    BY <1>7 DEF PendingIsQueued
  <2>2. CASE place = "expired" /\ x = m
    BY <1>3, <2>2
  <2>3. CASE JobsOf(x) = {}
    <3>1. PICK t \in Tasks : pc[t] \in {"expired", "check", "deliver"} /\ cur[t].msg = x
      BY <2>3 DEF QueueInv, PendingIsQueued
    <3> QED BY <1>4, <1>m, <3>1
  <2> QED BY <2>1, <2>2, <2>3
<1> QED BY <1>10, <1>11, <1>12, <1>13, <1>14, <1>15 DEF QueueInv

(* A failure is recorded. *)
LEMMA FailQueue ==
  ASSUME QueueTyped, QueueInv, NEW s \in Senders, Expire(s) \/ MarkFailed(s)
  PROVE  QueueInv'
<1> USE DEF QueueTyped
<1>a. cur[s].msg \in Msgs
  BY DEF Expire, MarkFailed, Hand, InHand
<1>b. PICK m \in Msgs : m = cur[s].msg
  BY <1>a
<1>1. PICK place \in {"next", "drop"} :
         /\ pc' = [pc EXCEPT ![s] = place]
         /\ place = "next" => pc[s] = "expired"
         /\ place = "drop" => pc[s] = "rejected"
         /\ SetFailed(m)
         /\ UNCHANGED <<job, prep, trashing, nextId, accepted, inbox, cur>>
  BY <1>b DEF Expire, MarkFailed, NextRow, Goto
<1>2. m = cur[s].msg /\ s \in Tasks /\ pc[s] \in {"expired", "rejected"}
  BY <1>1, <1>b
<1>3. /\ state'[m] \in {"OutFailed", "gone"} /\ \A x \in Msgs \ {m} : state'[x] = state[x]
      /\ state[m] = "gone" => state'[m] = "gone"
      /\ \A x \in Msgs : state'[x] = state[x] \/ state'[x] = "OutFailed"
  BY <1>1, <1>2 DEF SetFailed
<1>4. /\ \A u \in Tasks \ {s} : pc'[u] = pc[u]
      /\ pc'[s] = place
      /\ UNCHANGED <<job, prep, trashing, nextId, accepted, inbox, cur>>
  BY <1>1
<1>5. m \notin prep
  BY <1>2 DEF QueueInv, HandsStarted, Started, InHand
<1>6. \A x \in Msgs : /\ AllAccepted(x)' <=> AllAccepted(x)
                      /\ Started(x) => Started(x)'
                      /\ x # m /\ AboutToFail(x) => AboutToFail(x)'
                      /\ \A p \in Parts : Queued(x, p)' <=> Queued(x, p)
                      /\ JobsOf(x)' = JobsOf(x)
  BY <1>2, <1>3, <1>4 DEF AllAccepted, Started, AboutToFail, Queued, JobsOf, Rows
<1>m. /\ place = "next" => pc[s] = "expired"
      /\ place = "drop" => pc[s] = "rejected"
      /\ place \in {"next", "drop"}
  BY <1>1
<1>7. FreshIds' /\ OkAccepted' /\ HandMatches'
  BY <1>4, <1>m DEF QueueInv, FreshIds, OkAccepted, HandMatches, Transfer
<1>8. DropFailed' /\ PrepPending'
  BY <1>2, <1>3, <1>4, <1>5 DEF QueueInv, DropFailed, PrepPending, Hand, InHand
<1>9. CopiesAccepted' /\ RowsStarted' /\ HandsStarted'
  BY <1>4, <1>6, <1>m DEF QueueInv, CopiesAccepted, RowsStarted, HandsStarted, Job, Hand, InHand
<1>10. PartsKept' /\ DeliveredAll'
  BY <1>2, <1>3, <1>4, <1>6 DEF QueueInv, PartsKept, DeliveredAll
<1>11. DeliverKnows'
  BY <1>2, <1>3, <1>4, <1>6, <1>m DEF QueueInv, DeliverKnows, InHand, Hand
<1>12. PendingIsQueued'
  <2> SUFFICES ASSUME NEW x \in Msgs, state'[x] = "OutPending", x \notin prep \cup trashing, JobsOf(x) = {}
               PROVE  \E t \in Tasks : pc'[t] \in {"expired", "check", "deliver"} /\ cur'[t].msg = x
    BY <1>4, <1>6 DEF PendingIsQueued
  <2>1. x # m /\ state[x] = "OutPending"
    BY <1>3
  <2>2. PICK t \in Tasks : pc[t] \in {"expired", "check", "deliver"} /\ cur[t].msg = x
    BY <2>1 DEF QueueInv, PendingIsQueued
  <2> QED BY <1>2, <1>4, <2>1, <2>2
<1> QED BY <1>7, <1>8, <1>9, <1>10, <1>11, <1>12 DEF QueueInv

(* The server takes a part, and the sender hears of it or does not, or refuses *)
(* it for good.                                                                *)
LEMMA AcceptQueue ==
  ASSUME QueueTyped, QueueInv, NEW s \in Senders, Accept(s) \/ AcceptUnheard(s) \/ Reject(s)
  PROVE  QueueInv'
<1> USE DEF QueueTyped
<1>a. cur[s].msg \in Msgs /\ cur[s].part \in Parts
  BY DEF Accept, AcceptUnheard, Reject, Hand, InHand
<1>b. PICK m \in Msgs : m = cur[s].msg
  BY <1>a
<1>c. PICK q \in Parts : q = cur[s].part
  BY <1>a
<1>1. PICK place \in {"ok", "rejected", "wait", "error"} :
         /\ pc[s] = "transmit" /\ pc' = [pc EXCEPT ![s] = place]
         /\ Take(s) \/ UNCHANGED <<accepted, inbox>>
         /\ place = "ok" => Take(s)
         /\ UNCHANGED <<state, prep, trashing, job, nextId, cur>>
  BY DEF Accept, AcceptUnheard, Reject, Abort, Goto, msgVars
<1>2. m = cur[s].msg /\ q = cur[s].part /\ s \in Tasks
  BY <1>b, <1>c
<1>3. /\ \A x \in Msgs, p \in Parts : accepted[x][p] >= 1 => accepted'[x][p] >= 1
      /\ place = "ok" => accepted'[m][q] >= 1
      /\ \A x \in inbox' : x \in inbox \/ (x = m /\ accepted'[m][SelfPart] >= 1)
  <2>1. CASE UNCHANGED <<accepted, inbox>> /\ place # "ok"
    BY <2>1
  <2>2. CASE Take(s)
    <3>1. /\ accepted' = [accepted EXCEPT ![m][q] = @ + 1]
          /\ inbox' = IF q = SelfPart THEN inbox \cup {m} ELSE inbox
      BY <1>2, <2>2 DEF Take
    <3> QED BY <3>1
  <2> QED BY <1>1, <2>1, <2>2
<1>4. /\ \A u \in Tasks \ {s} : pc'[u] = pc[u]
      /\ pc'[s] = place /\ pc[s] = "transmit" /\ place \in {"ok", "rejected", "wait", "error"}
      /\ UNCHANGED <<state, prep, trashing, job, nextId, cur>>
  BY <1>1
<1>5. Started(m)
  BY <1>2, <1>4 DEF QueueInv, HandsStarted, InHand
<1>6. \A x \in Msgs : /\ AllAccepted(x) => AllAccepted(x)'
                      /\ Started(x)' <=> Started(x)
                      /\ AboutToFail(x) => AboutToFail(x)'
                      /\ \A p \in Parts : Queued(x, p)' <=> Queued(x, p)
                      /\ JobsOf(x)' = JobsOf(x)
  BY <1>3, <1>4 DEF AllAccepted, Started, AboutToFail, Queued, JobsOf, Rows
<1>7. FreshIds' /\ HandMatches' /\ DropFailed' /\ PrepPending'
  BY <1>4 DEF QueueInv, FreshIds, DropFailed, PrepPending, HandMatches, Transfer
<1>8. OkAccepted'
  BY <1>2, <1>3, <1>4 DEF QueueInv, OkAccepted, Hand, InHand
<1>9. CopiesAccepted' /\ RowsStarted' /\ HandsStarted'
  BY <1>3, <1>4, <1>5, <1>6 DEF QueueInv, CopiesAccepted, RowsStarted, HandsStarted, Job, Hand, InHand
<1>10. PartsKept' /\ DeliveredAll'
  BY <1>3, <1>4, <1>6 DEF QueueInv, PartsKept, DeliveredAll
<1>11. DeliverKnows'
  BY <1>4, <1>6 DEF QueueInv, DeliverKnows, InHand, Hand
<1>12. PendingIsQueued'
  BY <1>4, <1>6 DEF QueueInv, PendingIsQueued
<1> QED BY <1>7, <1>8, <1>9, <1>10, <1>11, <1>12 DEF QueueInv

(* The row at hand is deleted: it was rejected and its message has failed, or  *)
(* it was taken.                                                               *)
LEMMA DeleteRowQueue ==
  ASSUME QueueTyped, QueueInv, NEW s \in Senders, DropRow(s) \/ DeleteSent(s)
  PROVE  QueueInv'
<1> USE DEF QueueTyped
<1>a. pc[s] \in {"drop", "ok"} /\ s \in Tasks
  BY DEF DropRow, DeleteSent
<1>b. cur[s].msg \in Msgs /\ cur[s].part \in Parts /\ cur[s].id \in Ids
  BY <1>a DEF Hand, InHand, Transfer, QueueInv, HandMatches
<1>c. PICK m \in Msgs, q \in Parts, r \in Ids : m = cur[s].msg /\ q = cur[s].part /\ r = cur[s].id
  BY <1>b
<1>1. PICK place \in {"wait", "error", "check"} :
         /\ pc' = [pc EXCEPT ![s] = place] /\ job' = [job EXCEPT ![r] = None]
         /\ place = "check" => pc[s] = "ok"
         /\ place # "check" => pc[s] = "drop"
         /\ UNCHANGED <<state, prep, trashing, nextId, accepted, inbox, cur>>
  BY <1>c DEF DropRow, DeleteSent, RowDeleted, Abort, Goto
<1>2. /\ \A u \in Tasks \ {s} : pc'[u] = pc[u]
      /\ pc'[s] = place /\ (place = "check" => pc[s] = "ok") /\ (place # "check" => pc[s] = "drop")
      /\ place \in {"wait", "error", "check"}
      /\ UNCHANGED <<state, prep, trashing, nextId, accepted, inbox, cur>>
  BY <1>1
<1>3. \A i \in Ids : (job'[i] # None => job'[i] = job[i]) /\ (i # r => job'[i] = job[i])
  BY <1>1
<1>4. job[r] # None => job[r].msg = m /\ job[r].part = q
  BY <1>a, <1>c DEF QueueInv, HandMatches, Transfer
<1>5. pc[s] = "ok" => accepted[m][q] >= 1
  BY <1>c DEF QueueInv, OkAccepted
<1>6. pc[s] = "drop" => state[m] \in {"OutFailed", "gone"}
  BY <1>c DEF QueueInv, DropFailed
<1>7. \A x \in Msgs : /\ AllAccepted(x)' <=> AllAccepted(x)
                      /\ Started(x)' <=> Started(x)
                      /\ AboutToFail(x) => AboutToFail(x)'
                      /\ \A p \in Parts : Queued(x, p) => Queued(x, p)' \/ (x = m /\ p = q)
                      /\ JobsOf(x) # {} => JobsOf(x)' # {} \/ x = m
  <2>1. \A x \in Msgs : AboutToFail(x) => AboutToFail(x)'
    BY <1>2 DEF AboutToFail
  <2>2. \A x \in Msgs, p \in Parts : Queued(x, p) => Queued(x, p)' \/ (x = m /\ p = q)
    BY <1>3, <1>4 DEF Queued
  <2>3. \A x \in Msgs : JobsOf(x) # {} => JobsOf(x)' # {} \/ x = m
    BY <1>3, <1>4 DEF JobsOf, Rows
  <2> QED BY <1>2, <2>1, <2>2, <2>3 DEF AllAccepted, Started
<1>8. FreshIds' /\ OkAccepted' /\ DropFailed' /\ PrepPending'
  BY <1>2, <1>3 DEF QueueInv, FreshIds, OkAccepted, DropFailed, PrepPending
<1>9. HandMatches'
  <2> SUFFICES ASSUME NEW u \in Senders, pc'[u] \in Transfer
               PROVE  /\ cur[u].id \in Ids /\ cur[u].id < nextId
                      /\ job'[cur[u].id] # None =>
                            job'[cur[u].id].msg = cur[u].msg /\ job'[cur[u].id].part = cur[u].part
    BY <1>2 DEF HandMatches
  <2>1. pc[u] \in Transfer
    BY <1>2 DEF Transfer
  <2>2. /\ cur[u].id \in Ids /\ cur[u].id < nextId
        /\ job[cur[u].id] # None => job[cur[u].id].msg = cur[u].msg /\ job[cur[u].id].part = cur[u].part
    BY <2>1 DEF QueueInv, HandMatches
  <2>3. job'[cur[u].id] # None => job'[cur[u].id] = job[cur[u].id]
    BY <1>3, <2>2
  <2> QED BY <2>2, <2>3
<1>10. CopiesAccepted' /\ RowsStarted' /\ HandsStarted'
  BY <1>2, <1>3, <1>7 DEF QueueInv, CopiesAccepted, RowsStarted, HandsStarted, Job, Hand, InHand
<1>11. PartsKept' /\ DeliveredAll'
  BY <1>2, <1>5, <1>6, <1>7 DEF QueueInv, PartsKept, DeliveredAll
<1>12. DeliverKnows'
  BY <1>2, <1>7 DEF QueueInv, DeliverKnows, InHand, Hand
<1>13. PendingIsQueued'
  <2> SUFFICES ASSUME NEW x \in Msgs, state[x] = "OutPending", x \notin prep \cup trashing, JobsOf(x)' = {}
               PROVE  \E t \in Tasks : pc'[t] \in {"expired", "check", "deliver"} /\ cur[t].msg = x
    BY <1>2 DEF PendingIsQueued
  <2>1. CASE x = m
    <3>1. pc[s] = "ok"
      BY <1>6, <1>a, <2>1
    <3> QED BY <1>2, <1>a, <1>c, <2>1, <3>1
  <2>2. CASE x # m
    <3>1. PICK t \in Tasks : pc[t] \in {"expired", "check", "deliver"} /\ cur[t].msg = x
      BY <1>7, <2>2 DEF QueueInv, PendingIsQueued
    <3> QED BY <1>2, <1>a, <3>1
  <2> QED BY <2>1, <2>2
<1> QED BY <1>8, <1>9, <1>10, <1>11, <1>12, <1>13 DEF QueueInv

(* The own copy on the IMAP server makes the last part's row superfluous. *)
LEMMA CopyQueue ==
  ASSUME QueueTyped, QueueInv, NEW m \in Msgs, ReceiveCopy(m)
  PROVE  QueueInv'
<1> USE DEF QueueTyped
<1>1. /\ pc[Imap] = "idle" /\ m \in inbox /\ pc' = [pc EXCEPT ![Imap] = "check"]
      /\ job' = [i \in Ids |-> IF i \in JobsOf(m) /\ job[i].part = SelfPart THEN None ELSE job[i]]
      /\ cur' = [cur EXCEPT ![Imap] = [id |-> None, msg |-> m, part |-> SelfPart]]
      /\ UNCHANGED <<state, prep, trashing, nextId, accepted, inbox>>
  BY DEF ReceiveCopy, Goto
<1>2. /\ \A u \in Tasks \ {Imap} : pc'[u] = pc[u] /\ cur'[u] = cur[u]
      /\ pc'[Imap] = "check" /\ cur'[Imap].msg = m /\ pc[Imap] = "idle"
      /\ UNCHANGED <<state, prep, trashing, nextId, accepted, inbox>>
  BY <1>1
<1>3. \A i \in Ids : /\ job'[i] # None => job'[i] = job[i]
                     /\ job[i] # None /\ ~(job[i].msg = m /\ job[i].part = SelfPart) => job'[i] = job[i]
  BY <1>1 DEF JobsOf, Rows
<1>4. Started(m) /\ accepted[m][SelfPart] >= 1
  BY <1>1 DEF QueueInv, CopiesAccepted
<1>5. \A x \in Msgs : /\ AllAccepted(x)' <=> AllAccepted(x)
                      /\ Started(x)' <=> Started(x)
                      /\ AboutToFail(x) => AboutToFail(x)'
                      /\ \A p \in Parts : Queued(x, p) => Queued(x, p)' \/ (x = m /\ p = SelfPart)
                      /\ JobsOf(x) # {} => JobsOf(x)' # {} \/ x = m
  <2>1. \A x \in Msgs : AboutToFail(x) => AboutToFail(x)'
    BY <1>2 DEF AboutToFail
  <2>2. \A x \in Msgs, p \in Parts : Queued(x, p) => Queued(x, p)' \/ (x = m /\ p = SelfPart)
    BY <1>3 DEF Queued
  <2>3. \A x \in Msgs : JobsOf(x) # {} => JobsOf(x)' # {} \/ x = m
    BY <1>3 DEF JobsOf, Rows
  <2> QED BY <1>2, <2>1, <2>2, <2>3 DEF AllAccepted, Started
<1>6. FreshIds' /\ OkAccepted' /\ DropFailed' /\ PrepPending'
  BY <1>2, <1>3 DEF QueueInv, FreshIds, OkAccepted, DropFailed, PrepPending
<1>7. HandMatches'
  <2> SUFFICES ASSUME NEW u \in Senders, pc[u] \in Transfer
               PROVE  /\ cur[u].id \in Ids /\ cur[u].id < nextId
                      /\ job'[cur[u].id] # None =>
                            job'[cur[u].id].msg = cur[u].msg /\ job'[cur[u].id].part = cur[u].part
    BY <1>2 DEF HandMatches
  <2>1. /\ cur[u].id \in Ids /\ cur[u].id < nextId
        /\ job[cur[u].id] # None => job[cur[u].id].msg = cur[u].msg /\ job[cur[u].id].part = cur[u].part
    BY DEF QueueInv, HandMatches
  <2> QED BY <1>3, <2>1
<1>8. CopiesAccepted' /\ RowsStarted' /\ HandsStarted'
  BY <1>2, <1>3, <1>4, <1>5 DEF QueueInv, CopiesAccepted, RowsStarted, HandsStarted, Job, Hand, InHand
<1>9. PartsKept' /\ DeliveredAll'
  BY <1>2, <1>4, <1>5 DEF QueueInv, PartsKept, DeliveredAll
<1>10. DeliverKnows'
  BY <1>2, <1>5 DEF QueueInv, DeliverKnows, InHand, Hand
<1>11. PendingIsQueued'
  <2> SUFFICES ASSUME NEW x \in Msgs, state[x] = "OutPending", x \notin prep \cup trashing, JobsOf(x)' = {}
               PROVE  \E t \in Tasks : pc'[t] \in {"expired", "check", "deliver"} /\ cur'[t].msg = x
    BY <1>2 DEF PendingIsQueued
  <2>1. CASE x = m
    BY <1>2, <2>1
  <2>2. CASE x # m
    <3>1. PICK t \in Tasks : pc[t] \in {"expired", "check", "deliver"} /\ cur[t].msg = x
      BY <1>5, <2>2 DEF QueueInv, PendingIsQueued
    <3> QED BY <1>2, <3>1
  <2> QED BY <2>1, <2>2
<1> QED BY <1>6, <1>7, <1>8, <1>9, <1>10, <1>11 DEF QueueInv

(* A task finds that a message has no other rows; then it is delivered. *)
LEMMA FinishQueue ==
  ASSUME QueueTyped, QueueInv, NEW t \in Tasks, FinishStep(t)
  PROVE  QueueInv'
<1> USE DEF QueueTyped
<1>a. pc[t] \in {"check", "deliver"} /\ cur[t].msg \in Msgs
  BY DEF FinishStep, CheckPending, Deliver, Hand, InHand
<1>b. PICK m \in Msgs : m = cur[t].msg
  BY <1>a
<1>c. Started(m)
  BY <1>a, <1>b DEF QueueInv, HandsStarted, InHand
<1>1. /\ UNCHANGED <<job, prep, trashing, nextId, accepted, cur>> /\ inbox' \subseteq inbox
      /\ \E place \in {"idle", "next", "deliver"} : pc' = [pc EXCEPT ![t] = place]
  BY DEF FinishStep, CheckPending, Deliver, Return, NextRow, Goto, msgVars
<1>2. /\ \A u \in Tasks \ {t} : pc'[u] = pc[u]
      /\ pc'[t] \in {"idle", "next", "deliver"}
      /\ pc'[t] = "deliver" => pc[t] = "check" /\ state' = state /\ JobsOf(m) = {}
      /\ pc'[t] # "deliver" /\ pc[t] = "check" => state' = state /\ JobsOf(m) # {}
      /\ pc[t] = "deliver" => SetDelivered(m) /\ pc'[t] # "deliver"
  BY <1>b DEF FinishStep, CheckPending, Deliver, Return, NextRow, Goto, msgVars, HasPending
<1>3. /\ \A x \in Msgs : state'[x] = state[x] \/ (x = m /\ state[m] = "OutPending" /\ state'[m] = "OutDelivered" /\ pc[t] = "deliver")
      /\ pc[t] = "deliver" => state'[m] # "OutPending"
  BY <1>2, <1>a DEF SetDelivered
<1>4. \A x \in Msgs : /\ AllAccepted(x)' <=> AllAccepted(x)
                      /\ Started(x)' <=> Started(x)
                      /\ AboutToFail(x)' <=> AboutToFail(x)
                      /\ \A p \in Parts : Queued(x, p)' <=> Queued(x, p)
                      /\ JobsOf(x)' = JobsOf(x)
  <2>1. \A x \in Msgs : AboutToFail(x)' <=> AboutToFail(x)
    BY <1>1, <1>2, <1>a DEF AboutToFail
  <2>2. \A x \in Msgs : Started(x)' <=> Started(x)
    BY <1>1, <1>3 DEF Started
  <2> QED BY <1>1, <2>1, <2>2 DEF AllAccepted, Queued, JobsOf, Rows
<1>5. FreshIds' /\ OkAccepted' /\ HandMatches'
  BY <1>1, <1>2 DEF QueueInv, FreshIds, OkAccepted, HandMatches, Transfer
<1>6. DropFailed' /\ PrepPending'
  BY <1>1, <1>2, <1>3, <1>c DEF QueueInv, DropFailed, PrepPending, Started, Hand, InHand
<1>7. CopiesAccepted' /\ RowsStarted' /\ HandsStarted'
  BY <1>1, <1>2, <1>4, <1>a DEF QueueInv, CopiesAccepted, RowsStarted, HandsStarted, Job, Hand, InHand
<1>8. PartsKept'
  BY <1>1, <1>3, <1>4 DEF QueueInv, PartsKept
<1>9. DeliveredAll'
  <2> SUFFICES ASSUME NEW x \in Msgs \ (trashing \cup Recipientless), state'[x] = "OutDelivered"
               PROVE  AboutToFail(x) \/ AllAccepted(x)
    BY <1>1, <1>4 DEF DeliveredAll
  <2>1. CASE state[x] = "OutDelivered"
    BY <2>1 DEF QueueInv, DeliveredAll
  <2>2. CASE x = m /\ state[m] = "OutPending" /\ pc[t] = "deliver"
    BY <1>b, <2>2 DEF QueueInv, DeliverKnows
  <2> QED BY <1>3, <2>1, <2>2
<1>10. DeliverKnows'
  <2> SUFFICES ASSUME NEW u \in Tasks, pc'[u] = "deliver", cur[u].msg \notin trashing,
                      state'[cur[u].msg] = "OutPending"
               PROVE  AboutToFail(cur[u].msg) \/ AllAccepted(cur[u].msg)
    <3>1. \A u \in Tasks : pc'[u] = "deliver" => cur[u].msg \in Msgs
      BY <1>2, <1>a DEF Hand, InHand
    <3> QED BY <1>1, <1>4, <3>1 DEF DeliverKnows
  <2>1. CASE u = t
    <3>1. JobsOf(m) = {} /\ state[m] = "OutPending" /\ m \notin trashing
      BY <1>2, <1>b, <2>1
    <3>2. \A p \in Parts : ~Queued(m, p)
      BY <3>1 DEF Queued, JobsOf, Rows
    <3>3. AboutToFail(m) \/ AllAccepted(m)
      BY <1>c, <3>1, <3>2 DEF QueueInv, PartsKept, AllAccepted, Started
    <3> QED BY <1>b, <2>1, <3>3
  <2>2. CASE u # t
    <3>1. pc[u] = "deliver" /\ cur[u].msg \in Msgs
      BY <1>2, <2>2 DEF Hand, InHand
    <3>2. state[cur[u].msg] = "OutPending"
      BY <1>3, <3>1
    <3> QED BY <3>1, <3>2 DEF QueueInv, DeliverKnows
  <2> QED BY <2>1, <2>2
<1>11. PendingIsQueued'
  <2> SUFFICES ASSUME NEW x \in Msgs, state'[x] = "OutPending", x \notin prep \cup trashing, JobsOf(x) = {}
               PROVE  \E u \in Tasks : pc'[u] \in {"expired", "check", "deliver"} /\ cur[u].msg = x
    BY <1>1, <1>4 DEF PendingIsQueued
  <2>1. PICK u \in Tasks : pc[u] \in {"expired", "check", "deliver"} /\ cur[u].msg = x
    BY <1>3 DEF QueueInv, PendingIsQueued
  <2>2. CASE u = t
    <3>1. pc[t] = "check"
      BY <1>3, <1>a, <1>b, <2>1, <2>2
    <3>2. pc'[t] = "deliver"
      BY <1>2, <1>b, <2>1, <2>2, <3>1
    <3> QED BY <2>1, <2>2, <3>2
  <2>3. CASE u # t
    BY <1>2, <2>1, <2>3
  <2> QED BY <2>2, <2>3
<1> QED BY <1>5, <1>6, <1>7, <1>8, <1>9, <1>10, <1>11 DEF QueueInv

LEMMA QueueStep ==
  ASSUME Undisturbed, TypeOK, IdsSuffice, PrepStarted, QueueInv, Next
  PROVE  QueueInv'
<1>1. QueueTyped
  BY TypesForQueue
<1>2. CASE \E m \in Msgs : UserStep(m) \/ Resend(m) \/ SendMsgSync(m) \/ ReceiveCopy(m)
  <2>1. \A m \in Msgs : ~Resend(m)
    BY DEF Undisturbed, Resend, Fault
  <2> QED BY <1>1, <1>2, <2>1, SendMsgQueue, NoJobsQueue, DeleteQueue, TrashQueue, InsertQueue, CopyQueue
          DEF UserStep
<1>3. CASE \E s \in Senders : Connect(s) \/ ConnectFails(s) \/ SendStep(s) \/ AcceptUnheard(s)
  <2>1. PICK s \in Senders : Connect(s) \/ ConnectFails(s) \/ SendStep(s) \/ AcceptUnheard(s)
    BY <1>3
  <2>2. CASE Connect(s)
    <3>1. Row(s) \in Ids
      BY <2>2, RowIsId DEF Connect
    <3>2. \A i \in Ids : /\ job'[i] = None <=> job[i] = None
                         /\ job[i] # None => job'[i].msg = job[i].msg /\ job'[i].part = job[i].part
      BY <1>1, <2>2, <3>1 DEF Connect, Counted, QueueTyped, Job
    <3>3. Quiet
      BY <1>1, <2>2, <3>2 DEF Connect, Quiet, Goto, InHand, QueueTyped
    <3> QED BY <1>1, <3>3, QuietStep
  <2>3. CASE ConnectFails(s) \/ EndPass(s) \/ Skip(s) \/ Refuse(s)
    <3>1. PICK place \in Pcs \ InHand : pc' = [pc EXCEPT ![s] = place]
      <4>1. PICK place \in {"wait", "error", "returned", "idle", "limited", "mdns", "next"} :
               pc' = [pc EXCEPT ![s] = place]
        BY <2>3, TaskNames DEF ConnectFails, EndPass, Skip, Refuse, Abort, NextRow, Finish, Goto
      <4> QED BY <4>1 DEF Pcs, InHand
    <3>2. pc[s] \in {"next", "load", "transmit"} /\ UNCHANGED <<msgVars, inbox, cur>>
      BY <2>3 DEF ConnectFails, EndPass, Skip, Refuse
    <3>3. Quiet
      BY <1>1, <3>1, <3>2 DEF Quiet, msgVars, QueueTyped
    <3> QED BY <1>1, <3>3, QuietStep
  <2> QED BY <1>1, <2>1, <2>2, <2>3, LoadQueue, FailQueue, AcceptQueue, DeleteRowQueue DEF SendStep
<1>4. CASE \E t \in Tasks : FinishStep(t)
  BY <1>1, <1>4, FinishQueue
<1>5. CASE StartPass \/ LimitPassed \/ ReceiptStep \/ Decay \/ \E x \in Receipts : QueueReceipt(x)
  <2>1. UNCHANGED <<msgVars, inbox, cur>>
    BY <1>5 DEF StartPass, LimitPassed, ReceiptStep, Decay, QueueReceipt, MdnsLimited, MdnsOff, MdnsDone,
       PickReceipt, ReportAccepted, ReportRefused, ReportFails
  <2>2. \/ pc' = pc
        \/ /\ pc[Loop] \in {"wait", "idle", "limited", "mdns", "mdn_send"}
           /\ \E place \in {"wait", "idle", "limited", "mdns", "mdn_send", "next"} :
                 pc' = [pc EXCEPT ![Loop] = place]
    <3>1. CASE StartPass \/ LimitPassed
      BY <3>1 DEF StartPass, LimitPassed, Begin, Goto
    <3>2. CASE MdnsLimited \/ MdnsOff \/ MdnsDone \/ \E x \in Receipts : PickReceipt(x)
      BY <3>2 DEF MdnsLimited, MdnsOff, MdnsDone, PickReceipt, Finish, Goto
    <3>3. CASE ReportAccepted \/ ReportRefused \/ ReportFails
      BY <3>3 DEF ReportAccepted, ReportRefused, ReportFails, Abort, Goto
    <3>4. CASE Decay \/ \E x \in Receipts : QueueReceipt(x)
      BY <3>4 DEF Decay, QueueReceipt
    <3> QED BY <1>5, <3>1, <3>2, <3>3, <3>4 DEF ReceiptStep
  <2>3. Quiet
    BY <1>1, <2>1, <2>2, TaskNames DEF Quiet, msgVars, QueueTyped, InHand
  <2> QED BY <1>1, <2>3, QuietStep
<1>6. ~SwitchTransport /\ ~Crash
  BY DEF Undisturbed, SwitchTransport, Crash, Fault
<1> QED BY <1>2, <1>3, <1>4, <1>5, <1>6 DEF Next

SendInv == TypeOK /\ IdsSuffice /\ PrepStarted /\ QueueInv

LEMMA SendInvHolds ==
  ASSUME Undisturbed
  PROVE  Spec => []SendInv
<1>1. Init => SendInv
  BY InitType, InitQueue DEF SendInv
<1>2. SendInv /\ [Next]_vars => SendInv'
  <2> SUFFICES ASSUME SendInv, [Next]_vars PROVE SendInv'
    OBVIOUS
  <2>1. CASE Next
    BY <2>1, StepTypes, QueueStep DEF SendInv
  <2>2. CASE UNCHANGED vars
    <3>1. QueueTyped /\ Quiet
      BY <2>2, TypesForQueue DEF SendInv, Quiet, vars, msgVars, loopVars
    <3> QED BY <2>2, <3>1, StutterTypes, QuietStep DEF SendInv
  <2> QED BY <2>1, <2>2
<1> QED BY <1>1, <1>2, PTL DEF Spec

(* The checkmark of a message means that the server took every part of it,    *)
(* with lost answers and deletions at any moment, for any number of messages, *)
(* parts and tries, whether or not send_msg_sync works on the same rows.      *)
THEOREM CheckmarkIsTrue ==
  ASSUME Undisturbed
  PROVE  Spec => []DeliveredMeansAccepted
<1>1. SendInv => DeliveredMeansAccepted
  BY DEF SendInv, QueueInv, DeliveredAll, DeliveredMeansAccepted, AllAccepted
<1> QED BY <1>1, SendInvHolds, PTL

(* A message shown as pending really is on its way: no interleaving of the    *)
(* senders, the IMAP loop and the user leaves one without jobs and without    *)
(* anybody who is about to record what became of it.                          *)
THEOREM PendingIsOnItsWay ==
  ASSUME Undisturbed
  PROVE  Spec => []PendingIsQueued
<1>1. SendInv => PendingIsQueued
  BY DEF SendInv, QueueInv
<1> QED BY <1>1, SendInvHolds, PTL

-----------------------------------------------------------------------------
(* Nothing is sent twice without a reason.                                    *)

(* The row i may still bring the part p of m to the server: it is queued and  *)
(* was not just taken, or the loop is sending it, queued or not.              *)
MayBring(i, m, p) ==
  \/ /\ job[i] # None /\ job[i].msg = m /\ job[i].part = p
     /\ ~(pc[Loop] = "ok" /\ cur[Loop].id = i)
  \/ pc[Loop] = "transmit" /\ cur[Loop].id = i /\ cur[Loop].msg = m /\ cur[Loop].part = p

(* How often the part may yet be taken, without another fault: once for each  *)
(* such row, and once (0) if its row is still to be created.                  *)
Chances(m, p) == {i \in Ids : MayBring(i, m, p)} \cup (IF m \in Unsent THEN {0} ELSE {})
RowAtHand == pc[Loop] = "transmit" => cur[Loop].id \in Ids
Once == \A m \in Msgs, p \in Parts : accepted[m][p] + Cardinality(Chances(m, p)) <= 1 + faults

LEMMA SomeIds ==
  ASSUME NEW S \in SUBSET (0 .. MaxJobs)
  PROVE  IsFiniteSet(S) /\ Cardinality(S) \in Nat
<1>1. IsFiniteSet(0 .. MaxJobs) BY Numbers, FS_Interval
<1>2. IsFiniteSet(S) BY <1>1, FS_Subset
<1> QED BY <1>2, FS_CardinalityType

(* The ways in which the balance of a part changes. *)
LEMMA BalanceKept ==
  ASSUME NEW S \in SUBSET (0 .. MaxJobs), NEW T \in SUBSET (0 .. MaxJobs),
         NEW a \in Nat, NEW b \in Nat, NEW f \in Nat, NEW g \in Nat, a + Cardinality(S) <= 1 + f,
         \/ T \subseteq S /\ b = a /\ g >= f
         \/ \E x : T \subseteq S \cup {x} /\ b = a /\ g = f + 1
         \/ \E x \in S : \E y : T \subseteq (S \ {x}) \cup {y} /\ b = a /\ g = f
         \/ \E x \in S : T \subseteq S \ {x} /\ b = a + 1 /\ g = f
         \/ T \subseteq S /\ b = a + 1 /\ g = f + 1
  PROVE  b + Cardinality(T) <= 1 + g
<1>1. /\ IsFiniteSet(S) /\ Cardinality(S) \in Nat /\ IsFiniteSet(T) /\ Cardinality(T) \in Nat
  BY SomeIds
<1>2. ASSUME T \subseteq S, b - a <= g - f PROVE b + Cardinality(T) <= 1 + g
  <2>1. Cardinality(T) <= Cardinality(S) BY <1>1, <1>2, FS_Subset
  <2> QED BY <1>1, <1>2, <2>1
<1>3. ASSUME NEW x \in S, T \subseteq S \ {x}, b = a + 1, g = f PROVE b + Cardinality(T) <= 1 + g
  <2>1. IsFiniteSet(S \ {x}) /\ Cardinality(S \ {x}) = Cardinality(S) - 1
    BY <1>1, FS_RemoveElement
  <2>2. Cardinality(T) <= Cardinality(S \ {x}) BY <1>3, <2>1, FS_Subset
  <2> QED BY <1>1, <1>3, <2>1, <2>2
<1>4. ASSUME NEW x, T \subseteq S \cup {x}, b = a, g = f + 1 PROVE b + Cardinality(T) <= 1 + g
  <2>0. IsFiniteSet(S \cup {x}) BY <1>1, FS_AddElement
  <2>1. IsFiniteSet(S \cup {x}) /\ Cardinality(S \cup {x}) <= Cardinality(S) + 1
    <3>1. Cardinality(S \cup {x}) = Cardinality(S) \/ Cardinality(S \cup {x}) = Cardinality(S) + 1
      BY <1>1, FS_AddElement
    <3> QED BY <1>1, <2>0, <3>1
  <2>2. Cardinality(T) <= Cardinality(S \cup {x}) /\ Cardinality(S \cup {x}) \in Nat
    BY <1>4, <2>1, FS_Subset, FS_CardinalityType
  <2> QED BY <1>1, <1>4, <2>1, <2>2
<1>5. ASSUME NEW x \in S, NEW y, T \subseteq (S \ {x}) \cup {y}, b = a, g = f
      PROVE  b + Cardinality(T) <= 1 + g
  <2>1. IsFiniteSet(S \ {x}) /\ Cardinality(S \ {x}) = Cardinality(S) - 1
    BY <1>1, FS_RemoveElement
  <2>2. PICK R : R = S \ {x} OBVIOUS
  <2>3. IsFiniteSet(R) /\ Cardinality(R) = Cardinality(S) - 1 /\ Cardinality(R) \in Nat
    BY <2>1, <2>2, FS_CardinalityType
  <2>4. IsFiniteSet(R \cup {y}) /\ Cardinality(R \cup {y}) <= Cardinality(R) + 1
    <3>1. IsFiniteSet(R) BY <2>3
    <3>2. /\ IsFiniteSet(R \cup {y})
          /\ Cardinality(R \cup {y}) = IF y \in R THEN Cardinality(R) ELSE Cardinality(R) + 1
      BY ONLY <3>1, FS_AddElement
    <3>3. PICK k : k = Cardinality(R) OBVIOUS
    <3>4. k \in Nat /\ Cardinality(R \cup {y}) \in {k, k + 1} BY <2>3, <3>2, <3>3
    <3> QED BY <3>2, <3>3, <3>4
  <2>5. Cardinality(T) <= Cardinality(R \cup {y}) /\ Cardinality(R \cup {y}) \in Nat
    BY <1>5, <2>2, <2>4, FS_Subset, FS_CardinalityType
  <2> QED BY <1>1, <1>5, <2>3, <2>4, <2>5
<1>6. CASE T \subseteq S /\ ((b = a /\ g >= f) \/ (b = a + 1 /\ g = f + 1)) BY <1>2, <1>6
<1> QED BY <1>4, <1>5, <1>3, <1>6

(* The same for the parts of the queue. *)
LEMMA OnceKept ==
  ASSUME TypeOK, TypeOK', Once,
         \A m \in Msgs, p \in Parts :
           \/ Chances(m, p)' \subseteq Chances(m, p) /\ accepted'[m][p] = accepted[m][p] /\ faults' >= faults
           \/ \E x : /\ Chances(m, p)' \subseteq Chances(m, p) \cup {x}
                     /\ accepted'[m][p] = accepted[m][p] /\ faults' = faults + 1
           \/ \E x \in Chances(m, p) : \E y :
                /\ Chances(m, p)' \subseteq (Chances(m, p) \ {x}) \cup {y}
                /\ accepted'[m][p] = accepted[m][p] /\ faults' = faults
           \/ \E x \in Chances(m, p) :
                /\ Chances(m, p)' \subseteq Chances(m, p) \ {x}
                /\ accepted'[m][p] = accepted[m][p] + 1 /\ faults' = faults
           \/ /\ Chances(m, p)' \subseteq Chances(m, p)
              /\ accepted'[m][p] = accepted[m][p] + 1 /\ faults' = faults + 1
  PROVE  Once'
<1> SUFFICES ASSUME NEW m \in Msgs, NEW p \in Parts
             PROVE  accepted'[m][p] + Cardinality(Chances(m, p)') <= 1 + faults'
  BY DEF Once
<1>1. PICK S, T : S = Chances(m, p) /\ T = Chances(m, p)' OBVIOUS
<1>2. S \in SUBSET (0 .. MaxJobs) /\ T \in SUBSET (0 .. MaxJobs)
  BY <1>1, Numbers DEF Chances
<1>3. PICK a, b, f, g : a = accepted[m][p] /\ b = accepted'[m][p] /\ f = faults /\ g = faults' OBVIOUS
<1>4. a \in Nat /\ b \in Nat /\ f \in Nat /\ g \in Nat BY <1>3, Numbers DEF TypeOK
<1>5. a + Cardinality(S) <= 1 + f BY <1>1, <1>3 DEF Once
<1>6. \/ T \subseteq S /\ b = a /\ g >= f
      \/ \E x : T \subseteq S \cup {x} /\ b = a /\ g = f + 1
      \/ \E x \in S : \E y : T \subseteq (S \ {x}) \cup {y} /\ b = a /\ g = f
      \/ \E x \in S : T \subseteq S \ {x} /\ b = a + 1 /\ g = f
      \/ T \subseteq S /\ b = a + 1 /\ g = f + 1
  BY <1>1, <1>3
<1>7. b + Cardinality(T) <= 1 + g BY <1>2, <1>4, <1>5, <1>6, BalanceKept
<1> QED BY <1>1, <1>3, <1>7

LEMMA InitOnce == Init => Once
<1> SUFFICES ASSUME Init, NEW m \in Msgs, NEW p \in Parts
             PROVE  accepted[m][p] + Cardinality(Chances(m, p)) <= 1 + faults
  BY DEF Once
<1> USE DEF Init
<1>1. Chances(m, p) = {0} BY TaskNames DEF Chances, MayBring, Unsent
<1>2. Cardinality({0}) = 1 BY FS_Singleton
<1>3. accepted[m][p] = 0 /\ faults = 0 OBVIOUS
<1> QED BY <1>1, <1>2, <1>3

(* What neither creates rows nor brings a message back only takes chances     *)
(* away.                                                                      *)
LEMMA ChancesFewer ==
  ASSUME TypeOK, TypeOK', Once, Unsent' \subseteq Unsent, accepted' = accepted, faults' >= faults,
         \A i \in Ids, m \in Msgs, p \in Parts : MayBring(i, m, p)' => MayBring(i, m, p)
  PROVE  Once'
<1>1. \A m \in Msgs, p \in Parts : Chances(m, p)' \subseteq Chances(m, p) BY DEF Chances
<1> QED BY <1>1, OnceKept

(* The loop with its rows, when it is the only sender. *)
LEMMA LoopOnce ==
  ASSUME TypeOK, TypeOK', Once, ~SyncSender, NEW s \in Senders,
         \/ Connect(s) \/ ConnectFails(s) \/ EndPass(s) \/ Skip(s) \/ Load(s) \/ Expire(s)
         \/ Refuse(s) \/ Reject(s) \/ MarkFailed(s) \/ DropRow(s) \/ DeleteSent(s)
  PROVE  Once' /\ (RowAtHand => RowAtHand')
<1>0. s = Loop /\ s \in Tasks BY DEF Senders, Tasks
<1>1. /\ job \in [Ids -> Job \cup {None}] /\ pc \in [Tasks -> Pcs] /\ cur \in [Tasks -> Hand \cup {None}]
      /\ state \in [Msgs -> States] /\ prep \subseteq Msgs /\ faults \in Nat
  BY Numbers DEF TypeOK
<1>2. faults' = faults /\ accepted' = accepted /\ prep' = prep /\ \A m \in Msgs : state'[m] = "none" => state[m] = "none"
  BY <1>1 DEF Connect, ConnectFails, EndPass, Skip, Load, Expire, Refuse, Reject, MarkFailed, DropRow,
     DeleteSent, msgVars, SetFailed
<1>3. Unsent' \subseteq Unsent BY <1>2 DEF Unsent
<1>4. ASSUME NEW i \in Ids, NEW m \in Msgs, NEW p \in Parts, MayBring(i, m, p)' PROVE MayBring(i, m, p)
  <2> USE <1>0, <1>1, <1>4 DEF MayBring, Goto
  <2>1. CASE Connect(s)
    <3>1. pc[Loop] = "next" /\ pc'[Loop] = "load" BY <2>1 DEF Connect
    <3>2. job'[i] # None => job[i] # None /\ job'[i].msg = job[i].msg /\ job'[i].part = job[i].part
      BY <2>1 DEF Connect, Counted, Job
    <3> QED BY <3>1, <3>2
  <2>2. CASE ConnectFails(s) \/ EndPass(s) \/ Skip(s)
    BY <2>2 DEF ConnectFails, EndPass, Skip, Abort, NextRow, Finish, msgVars
  <2>3. CASE Load(s)
    <3>0. todo[s] # {} BY <2>3 DEF Load, TypeOK
    <3>1. Row(s) \in Ids BY <3>0, RowIsId
    <3>2. pc[Loop] = "load" /\ cur' = [cur EXCEPT ![Loop] = LoadedRow(Loop)] BY <2>3 DEF Load
    <3>3. cur'[Loop] = LoadedRow(Loop) BY <3>2
    <3>4. job'[i] # None => job'[i] = job[i] BY <2>3, <3>1 DEF Load
    <3>5. job[Row(s)] # None BY <2>3 DEF Load
    <3> QED BY <3>1, <3>2, <3>3, <3>4, <3>5 DEF LoadedRow
  <2>4. CASE Expire(s) \/ Refuse(s) \/ Reject(s) \/ MarkFailed(s)
    BY <2>4 DEF Expire, Refuse, Reject, MarkFailed, Abort, NextRow, msgVars
  <2>5. CASE DropRow(s) BY <2>5 DEF DropRow, Abort
  <2>6. CASE DeleteSent(s) BY <2>6 DEF DeleteSent, RowDeleted
  <2> QED BY <2>1, <2>2, <2>3, <2>4, <2>5, <2>6
<1>5. pc'[Loop] = "transmit" => cur'[Loop].id \in Ids
  <2> USE <1>0, <1>1 DEF Goto
  <2>1. CASE Load(s)
    <3>1. todo[s] # {} /\ cur' = [cur EXCEPT ![Loop] = LoadedRow(Loop)] BY <2>1 DEF Load, TypeOK
    <3> QED BY <3>1, RowIsId DEF LoadedRow
  <2>2. CASE ~Load(s)
    <3>1. \E l \in Pcs \ {"transmit"} : pc' = [pc EXCEPT ![Loop] = l]
      BY <2>2 DEF Connect, ConnectFails, EndPass, Skip, Expire, Refuse, Reject, MarkFailed, DropRow,
         DeleteSent, Abort, NextRow, Finish, Pcs, InHand
    <3> QED BY <3>1
  <2> QED BY <2>1, <2>2
<1>6. RowAtHand' BY <1>5 DEF RowAtHand
<1> QED BY <1>1, <1>2, <1>3, <1>4, <1>6, ChancesFewer

(* The server takes the part: this row has had its chance. *)
LEMMA AcceptOnce ==
  ASSUME TypeOK, TypeOK', Once, RowAtHand, ~SyncSender, NEW s \in Senders,
         Accept(s) \/ AcceptUnheard(s)
  PROVE  Once' /\ RowAtHand'
<1>0. s = Loop /\ s \in Tasks /\ Loop \in Tasks BY DEF Senders, Tasks
<1>1. /\ job \in [Ids -> Job \cup {None}] /\ pc \in [Tasks -> Pcs] /\ cur \in [Tasks -> Hand \cup {None}]
      /\ accepted \in [Msgs -> [Parts -> Nat]]
  BY DEF TypeOK
<1>2. /\ pc[Loop] = "transmit" /\ job' = job /\ cur' = cur /\ Unsent' = Unsent
      /\ accepted' = [accepted EXCEPT ![cur[Loop].msg][cur[Loop].part] = @ + 1]
  BY <1>0 DEF Accept, AcceptUnheard, Take, Unsent
<1>3. PICK c : c = cur[Loop] OBVIOUS
<1>4. c \in Hand BY <1>0, <1>1, <1>2, <1>3 DEF TypeOK, InHand
<1>5. c.msg \in Msgs /\ c.part \in Parts /\ c.id \in Ids \cup {None} BY <1>4 DEF Hand
<1>6. c.id \in Ids BY <1>2, <1>3 DEF RowAtHand
<1>7. accepted' = [accepted EXCEPT ![c.msg][c.part] = @ + 1] /\ faults \in Nat
  BY <1>2, <1>3, Numbers DEF TypeOK
<1>8. \A m \in Msgs, p \in Parts :
        accepted'[m][p] = IF m = c.msg /\ p = c.part THEN accepted[m][p] + 1 ELSE accepted[m][p]
  BY <1>1, <1>5, <1>7
<1>9. pc'[Loop] # "transmit" /\ RowAtHand'
  BY <1>0, <1>1 DEF Accept, AcceptUnheard, Abort, Goto, RowAtHand
<1>10. \A i \in Ids, m \in Msgs, p \in Parts : MayBring(i, m, p)' => MayBring(i, m, p)
  BY <1>2, <1>9 DEF MayBring
<1>11. \A m \in Msgs, p \in Parts : Chances(m, p)' \subseteq Chances(m, p) BY <1>2, <1>10 DEF Chances
<1>12. CASE Accept(s)
  <2>1. pc'[Loop] = "ok" /\ faults' = faults BY <1>0, <1>1, <1>12 DEF Accept, Goto
  <2>2. c.id \in Chances(c.msg, c.part) BY <1>2, <1>3, <1>6 DEF Chances, MayBring
  <2>3. c.id \notin Chances(c.msg, c.part)'
    <3>1. c.id # 0 BY <1>6, Numbers
    <3>2. ~MayBring(c.id, c.msg, c.part)' BY <1>2, <1>3, <2>1 DEF MayBring
    <3> QED BY <3>1, <3>2 DEF Chances
  <2>4. Chances(c.msg, c.part)' \subseteq Chances(c.msg, c.part) \ {c.id} BY <1>5, <1>11, <2>3
  <2> QED BY <1>7, <1>8, <1>9, <1>11, <2>1, <2>2, <2>4, OnceKept
<1>13. CASE AcceptUnheard(s)
  <2>1. faults' = faults + 1 BY <1>13 DEF AcceptUnheard, Fault
  <2> QED BY <1>7, <1>8, <1>9, <1>11, <2>1, OnceKept
<1> QED BY <1>12, <1>13

(* The rows of a message: one for each part, and then none is to be created.  *)
LEMMA InsertOnce ==
  ASSUME TypeOK, TypeOK', PrepStarted, Once, NEW n \in Msgs, CreateJobs(n)
  PROVE  Once' /\ (RowAtHand => RowAtHand')
<1>1. /\ n \in prep /\ state[n] # "none" /\ prep' = prep \ {n} /\ state' = state /\ accepted' = accepted
      /\ faults' = faults /\ pc' = pc /\ cur' = cur /\ faults \in Nat
  BY Numbers DEF CreateJobs, InsertJobs, PrepStarted, TypeOK
<1>2. job' = [i \in Ids |-> IF i \in nextId .. (nextId + NParts - 1)
                            THEN [msg |-> n, part |-> i - nextId + 1, retries |-> 0]
                            ELSE job[i]]
  BY DEF CreateJobs, InsertJobs
<1>3. nextId \in Nat BY Numbers DEF TypeOK
<1>4. ASSUME NEW m \in Msgs, NEW p \in Parts
      PROVE  \/ Chances(m, p)' \subseteq Chances(m, p)
             \/ \E x \in Chances(m, p) : \E y : Chances(m, p)' \subseteq (Chances(m, p) \ {x}) \cup {y}
  <2>1. CASE m # n
    <3>1. \A i \in Ids : MayBring(i, m, p)' => MayBring(i, m, p)
      BY <1>1, <1>2, <2>1 DEF MayBring
    <3> QED BY <1>1, <2>1, <3>1 DEF Chances, Unsent
  <2>2. CASE m = n
    <3>1. 0 \in Chances(m, p) BY <1>1, <2>2 DEF Chances, Unsent
    <3>2. m \notin Unsent' BY <1>1, <2>2 DEF Unsent
    <3>3. PICK y : y = nextId + p - 1 OBVIOUS
    <3>4. ASSUME NEW i \in Ids, MayBring(i, m, p)' PROVE i = y \/ MayBring(i, m, p)
      <4>1. i \in Nat /\ p \in Nat /\ NParts \in Nat BY Numbers
      <4>2. CASE i \notin nextId .. (nextId + NParts - 1)
        BY <1>1, <1>2, <3>4, <4>2 DEF MayBring
      <4>3. CASE i \in nextId .. (nextId + NParts - 1)
        <5>1. job'[i] = [msg |-> n, part |-> i - nextId + 1, retries |-> 0] BY <1>2, <4>3
        <5>2. job'[i].part = i - nextId + 1 BY <5>1
        <5>3. CASE job'[i].part = p BY <1>3, <3>3, <4>1, <5>2, <5>3
        <5>4. CASE job'[i].part # p BY <1>1, <3>4, <5>4 DEF MayBring
        <5> QED BY <5>3, <5>4
      <4> QED BY <4>2, <4>3
    <3>5. 0 \notin Ids BY Numbers
    <3>6. Chances(m, p)' \subseteq (Chances(m, p) \ {0}) \cup {y} BY <3>2, <3>4, <3>5 DEF Chances
    <3> QED BY <3>1, <3>6
  <2> QED BY <2>1, <2>2
<1>5. \A m \in Msgs, p \in Parts : accepted'[m][p] = accepted[m][p] BY <1>1
<1>6. RowAtHand => RowAtHand' BY <1>1 DEF RowAtHand
<1> QED BY <1>1, <1>4, <1>5, <1>6, OnceKept

(* The other steps of the user. *)
LEMMA UserOnce ==
  ASSUME TypeOK, TypeOK', PrepStarted, Once, NEW n \in Msgs,
         \/ SendMsg(n) \/ NothingToSend(n) \/ CannotRender(n) \/ DeleteMsg(n) \/ Trash(n) \/ Resend(n)
  PROVE  Once' /\ (RowAtHand => RowAtHand')
<1>0. /\ state \in [Msgs -> States] /\ job \in [Ids -> Job \cup {None}] /\ faults \in Nat /\ prep \subseteq Msgs
  BY Numbers, SMTT(20) DEF TypeOK
<1>1. /\ accepted' = accepted /\ pc' = pc /\ cur' = cur
      /\ \A i \in Ids : job'[i] # None => job'[i] = job[i]
  BY <1>0 DEF SendMsg, NothingToSend, CannotRender, DeleteMsg, Trash, Resend, loopVars
<1>2. \A i \in Ids, m \in Msgs, p \in Parts : MayBring(i, m, p)' => MayBring(i, m, p)
  BY <1>1 DEF MayBring
<1>3. RowAtHand => RowAtHand' BY <1>1 DEF RowAtHand
<1>4. CASE SendMsg(n) \/ NothingToSend(n) \/ CannotRender(n) \/ DeleteMsg(n) \/ Trash(n)
  <2>1. Unsent' \subseteq Unsent
    <3>1. CASE SendMsg(n) BY <1>0, <3>1 DEF SendMsg, Unsent
    <3>2. CASE NothingToSend(n) BY <1>0, <3>2 DEF NothingToSend, Unsent, SetDelivered
    <3>3. CASE CannotRender(n) BY <1>0, <3>3 DEF CannotRender, Unsent, SetFailed
    <3>4. CASE DeleteMsg(n) BY <3>4 DEF DeleteMsg, Unsent
    <3>5. CASE Trash(n) BY <1>0, <3>5 DEF Trash, Unsent
    <3> QED BY <1>4, <3>1, <3>2, <3>3, <3>4, <3>5
  <2>2. faults' >= faults
    BY <1>0, <1>4 DEF SendMsg, NothingToSend, CannotRender, DeleteMsg, Trash, Fault
  <2> QED BY <1>1, <1>2, <1>3, <2>1, <2>2, ChancesFewer
<1>5. CASE Resend(n)
  <2>1. Unsent' \subseteq Unsent \cup {n} BY <1>0, <1>5 DEF Resend, Unsent
  <2>2. faults' = faults + 1 BY <1>5 DEF Resend, Fault
  <2>3. \A m \in Msgs, p \in Parts : Chances(m, p)' \subseteq Chances(m, p) \cup {0}
    BY <1>2 DEF Chances
  <2> QED BY <1>1, <1>3, <2>2, <2>3, OnceKept
<1> QED BY <1>4, <1>5

(* A crash, after which the row that was just taken is sent again. *)
LEMMA CrashOnce ==
  ASSUME TypeOK, TypeOK', Once, Crash
  PROVE  Once' /\ RowAtHand'
<1>1. /\ state' = state /\ prep' = {} /\ job' = job /\ accepted' = accepted /\ faults' = faults + 1
      /\ pc'[Loop] = "wait" /\ cur' = cur
  BY TaskNames DEF Crash, Fault
<1>2. PICK x : x = cur[Loop].id OBVIOUS
<1>3. \A m \in Msgs, p \in Parts : Chances(m, p)' \subseteq Chances(m, p) \cup {x}
  <2>1. \A i \in Ids, m \in Msgs, p \in Parts : MayBring(i, m, p)' => MayBring(i, m, p) \/ i = x
    BY <1>1, <1>2 DEF MayBring
  <2>2. Unsent' \subseteq Unsent BY <1>1 DEF Unsent
  <2> QED BY <2>1, <2>2 DEF Chances
<1> QED BY <1>1, <1>3, OnceKept DEF RowAtHand

(* Steps of others, and of the loop between two passes. *)
LEMMA ElseOnce ==
  ASSUME TypeOK, TypeOK', Once, ~SyncSender,
         \/ \E m \in Msgs : ReceiveCopy(m)
         \/ \E x \in Receipts : QueueReceipt(x)
         \/ \E t \in Tasks : FinishStep(t)
         \/ StartPass \/ LimitPassed \/ ReceiptStep \/ SwitchTransport \/ Decay \/ UNCHANGED vars
  PROVE  Once' /\ (RowAtHand => RowAtHand')
<1>0. /\ state \in [Msgs -> States] /\ job \in [Ids -> Job \cup {None}] /\ faults \in Nat
      /\ pc \in [Tasks -> Pcs] /\ cur \in [Tasks -> Hand \cup {None}]
      /\ Loop \in Tasks /\ Imap \in Tasks /\ Loop # Imap
  BY Numbers, TaskNames, SMTT(20) DEF TypeOK
<1>1. /\ accepted' = accepted /\ prep' = prep /\ faults' >= faults
      /\ \A m \in Msgs : state'[m] = "none" => state[m] = "none"
      /\ \A i \in Ids : job'[i] # None => job'[i] = job[i]
      /\ cur'[Loop] = cur[Loop] /\ (pc'[Loop] # "transmit" \/ pc'[Loop] = pc[Loop])
      /\ pc'[Loop] = pc[Loop] \/ pc[Loop] # "ok"
  <2>1. CASE \E m \in Msgs : ReceiveCopy(m) BY <1>0, <2>1 DEF ReceiveCopy, Goto
  <2>2. CASE \E t \in Tasks : FinishStep(t)
    <3>1. PICK t \in Tasks : FinishStep(t) BY <2>2
    <3>2. /\ accepted' = accepted /\ prep' = prep /\ faults' = faults /\ job' = job /\ cur' = cur
          /\ \A m \in Msgs : state'[m] = "none" => state[m] = "none"
      BY <1>0, <3>1 DEF FinishStep, CheckPending, Deliver, SetDelivered, msgVars
    <3>3. pc[t] \in {"check", "deliver"} /\ \E l \in {"deliver", "next", "idle"} : pc' = [pc EXCEPT ![t] = l]
      BY <3>1 DEF FinishStep, CheckPending, Deliver, Return, NextRow, Goto
    <3> QED BY <1>0, <3>2, <3>3
  <2>3. CASE \/ \E x \in Receipts : QueueReceipt(x)
             \/ SwitchTransport \/ Decay \/ UNCHANGED vars
    BY <1>0, <2>3 DEF QueueReceipt, SwitchTransport, Decay, vars, msgVars, loopVars, Fault
  <2>4. CASE StartPass \/ LimitPassed
    BY <1>0, <2>4 DEF StartPass, LimitPassed, Begin, Goto, msgVars
  <2>5. CASE ReceiptStep
    <3>1. /\ UNCHANGED <<msgVars, faults, cur>> /\ pc[Loop] \in {"mdns", "mdn_send"}
      BY <2>5 DEF ReceiptStep, MdnsLimited, MdnsOff, MdnsDone, PickReceipt, ReportAccepted, ReportRefused,
         ReportFails
    <3>2. \E l \in {"idle", "limited", "mdn_send", "mdns", "wait"} : pc' = [pc EXCEPT ![Loop] = l]
      BY <2>5 DEF ReceiptStep, MdnsLimited, MdnsOff, MdnsDone, PickReceipt, ReportAccepted, ReportRefused,
         ReportFails, Finish, Abort, Goto
    <3> QED BY <1>0, <3>1, <3>2 DEF msgVars
  <2> QED BY <2>1, <2>2, <2>3, <2>4, <2>5
<1>2. Unsent' \subseteq Unsent BY <1>1 DEF Unsent
<1>3. \A i \in Ids, m \in Msgs, p \in Parts : MayBring(i, m, p)' => MayBring(i, m, p)
  BY <1>1 DEF MayBring
<1>4. RowAtHand => RowAtHand' BY <1>1 DEF RowAtHand
<1> QED BY <1>1, <1>2, <1>3, <1>4, ChancesFewer

(* A part of a message is taken by the server once, and once more for every   *)
(* fault at most: a lost answer, a crash or a resend.  Refusals, rows that    *)
(* are deleted while they are being sent and the own copy seen on IMAP do not *)
(* make the loop send a part again.                                           *)
THEOREM SentOnce ==
  ASSUME ~SyncSender
  PROVE  Spec => []NoDuplicates
<1> DEFINE Inv == TypeOK /\ IdsSuffice /\ PrepStarted /\ Once /\ RowAtHand
<1>1. Init => Inv
  <2>1. Init => RowAtHand BY TaskNames DEF Init, RowAtHand
  <2> QED BY <2>1, InitType, InitOnce
<1>2. Inv /\ [Next]_vars => Inv'
  <2> SUFFICES ASSUME Inv, [Next]_vars PROVE Inv'
    OBVIOUS
  <2>1. TypeOK' /\ IdsSuffice' /\ PrepStarted'
    BY StepTypes, StutterTypes
  <2>2. ASSUME NEW m \in Msgs, UserStep(m) \/ Resend(m) \/ SendMsgSync(m)
        PROVE  Once' /\ RowAtHand'
    BY <2>1, <2>2, InsertOnce, UserOnce DEF UserStep, SendMsgSync
  <2>3. ASSUME NEW s \in Senders, Connect(s) \/ ConnectFails(s) \/ SendStep(s) \/ AcceptUnheard(s)
        PROVE  Once' /\ RowAtHand'
    BY <2>1, <2>3, LoopOnce, AcceptOnce DEF SendStep
  <2>4. CASE Crash BY <2>1, <2>4, CrashOnce
  <2>5. CASE \/ \E m \in Msgs : ReceiveCopy(m)
             \/ \E x \in Receipts : QueueReceipt(x)
             \/ \E t \in Tasks : FinishStep(t)
             \/ StartPass \/ LimitPassed \/ ReceiptStep \/ SwitchTransport \/ Decay \/ UNCHANGED vars
    BY <2>1, <2>5, ElseOnce
  <2> QED BY <2>1, <2>2, <2>3, <2>4, <2>5 DEF Next
<1>3. Inv => NoDuplicates
  <2> SUFFICES ASSUME Inv, NEW m \in Msgs, NEW p \in Parts PROVE accepted[m][p] <= 1 + faults
    BY DEF NoDuplicates
  <2>1. PICK S : S = Chances(m, p) OBVIOUS
  <2>2. Cardinality(S) \in Nat BY <2>1, SomeIds, Numbers DEF Chances
  <2>3. accepted[m][p] \in Nat /\ faults \in Nat BY Numbers DEF TypeOK
  <2>4. accepted[m][p] + Cardinality(S) <= 1 + faults BY <2>1 DEF Once
  <2> QED BY <2>2, <2>3, <2>4
<1> QED BY <1>1, <1>2, <1>3, PTL DEF Spec
=============================================================================

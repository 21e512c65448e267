----------------------------- MODULE LoopsProofs -----------------------------
(***************************************************************************)
(* Proofs about the loops the scheduler runs: the mail of the inbox        *)
(* (Mailbox), the timers of disappearing messages (Ephemeral) and the      *)
(* contacts that were seen recently (LastSeen); and what they, and the     *)
(* proofs of Scheduler and SmtpQueue, say of the instances in MCLoops.     *)
(***************************************************************************)
EXTENDS MCLoops, Sequences, SequenceTheorems, WellFoundedInduction, TLAPS

(* A set of numbers has a least one. *)
LEMMA Least == ASSUME NEW S \in SUBSET Nat, S # {} PROVE \E n \in S : \A k \in S : n <= k
<1> DEFINE R == OpToRel(<, Nat)
<1>1. IsWellFoundedOn(R, Nat) BY NatLessThanWellFounded
<1>2. \A a, b \in Nat : <<a, b>> \in R <=> a < b BY DEF OpToRel
<1> HIDE DEF R
<1>3. PICK n \in S : \A k \in S : ~ (<<k, n>> \in R) BY <1>1, WFMin
<1>4. ASSUME NEW k \in S PROVE n <= k
  <2>1. n \in Nat /\ k \in Nat OBVIOUS
  <2>2. ~ (k < n) BY <1>2, <1>3, <2>1
  <2> QED BY <2>1, <2>2
<1> QED BY <1>4

-----------------------------------------------------------------------------
(* Contacts seen recently. *)

(* The channel of the loop has room for one interrupt. *)
SeenTypes ==
    /\ hour \in Nat /\ seen \in [People -> Nat]
    /\ \A m \in chan : m = <<m[1], m[2]>> /\ m[2] \in Nat
    /\ \A m, n \in chan : m = n
SeenInv == SeenTypes /\ RecentlySeen!SeenIsQueued

LEMMA SeenStep == ASSUME Clocks, SeenInv PROVE [RecentlySeen!Next]_(RecentlySeen!vars) => SeenInv'
<1>1. hour \in Nat /\ seen \in [People -> Nat] /\ Window \in Nat BY DEF Clocks, SeenInv, SeenTypes
<1>2. ASSUME NEW c \in People, NEW t \in 1 .. hour, RecentlySeen!UpdateLastSeen(c, t) PROVE SeenInv'
  <2>1. /\ seen' = [seen EXCEPT ![c] = t] /\ hour' = hour /\ heap' = heap /\ running' = running
        /\ t \in Nat
    BY <1>1, <1>2 DEF RecentlySeen!UpdateLastSeen
  <2>2. /\ chan' = chan \/ chan' = {<<c, t>>}
        /\ t + Window > hour /\ running => <<c, t>> \in chan' \/ c \in missed'
        /\ chan # {} => chan' = chan
        /\ missed \subseteq missed' \cup {c}
    BY <1>2 DEF RecentlySeen!UpdateLastSeen
  <2>3. SeenTypes' BY <1>1, <2>1, <2>2 DEF SeenInv, SeenTypes
  <2>4. RecentlySeen!SeenIsQueued'
    <3> SUFFICES ASSUME running, NEW d \in People, seen'[d] + Window > hour
                 PROVE  <<seen'[d] + Window, d>> \in heap \/ <<d, seen'[d]>> \in chan' \/ d \in missed'
      BY <2>1 DEF RecentlySeen!SeenIsQueued, RecentlySeen!RecentlySeen
    <3>1. CASE d = c
      <4>1. seen'[d] = t BY <1>1, <2>1, <3>1
      <4> QED BY <2>2, <3>1, <4>1
    <3>2. CASE d # c
      <4>1. seen'[d] = seen[d] BY <1>1, <2>1, <3>2
      <4>2. <<seen[d] + Window, d>> \in heap \/ <<d, seen[d]>> \in chan \/ d \in missed
        BY <4>1 DEF SeenInv, RecentlySeen!SeenIsQueued, RecentlySeen!RecentlySeen
      <4> QED BY <2>2, <3>2, <4>1, <4>2
    <3> QED BY <3>1, <3>2
  <2> QED BY <2>3, <2>4 DEF SeenInv
<1>3. ASSUME RecentlySeen!StartLoop PROVE SeenInv'
  <2>1. /\ heap' = {<<seen[c] + Window, c>> : c \in {d \in People : RecentlySeen!RecentlySeen(d)}}
        /\ chan' = {} /\ hour' = hour /\ seen' = seen
    BY <1>3 DEF RecentlySeen!StartLoop
  <2>2. SeenTypes' BY <1>1, <2>1 DEF SeenTypes
  <2>3. RecentlySeen!SeenIsQueued' BY <2>1 DEF RecentlySeen!SeenIsQueued, RecentlySeen!RecentlySeen
  <2> QED BY <2>2, <2>3 DEF SeenInv
<1>4. ASSUME RecentlySeen!AbortLoop PROVE SeenInv'
  BY <1>1, <1>4 DEF RecentlySeen!AbortLoop, SeenInv, SeenTypes, RecentlySeen!SeenIsQueued
<1>5. ASSUME RecentlySeen!LoopInterrupted PROVE SeenInv'
  <2>1. PICK m \in chan : heap' = heap \cup {<<m[2] + Window, m[1]>>}
    BY <1>5 DEF RecentlySeen!LoopInterrupted
  <2>2. chan' = {} /\ hour' = hour /\ seen' = seen /\ missed' = missed /\ running' = running
    BY <1>5 DEF RecentlySeen!LoopInterrupted
  <2>3. SeenTypes' BY <1>1, <2>2 DEF SeenTypes
  <2>4. RecentlySeen!SeenIsQueued'
    <3> SUFFICES ASSUME running, NEW d \in People, seen[d] + Window > hour
                 PROVE  <<seen[d] + Window, d>> \in heap' \/ d \in missed
      BY <2>2 DEF RecentlySeen!SeenIsQueued, RecentlySeen!RecentlySeen
    <3>1. <<seen[d] + Window, d>> \in heap \/ <<d, seen[d]>> \in chan \/ d \in missed
      BY DEF SeenInv, RecentlySeen!SeenIsQueued, RecentlySeen!RecentlySeen
    <3>2. <<d, seen[d]>> \in chan => m = <<d, seen[d]>> BY DEF SeenInv, SeenTypes
    <3> QED BY <2>1, <3>1, <3>2
  <2> QED BY <2>3, <2>4 DEF SeenInv
<1>6. ASSUME RecentlySeen!LoopNotifies PROVE SeenInv'
  <2>1. PICK e \in heap : hour >= e[1] + 1 /\ heap' = heap \ {e}
    BY <1>6 DEF RecentlySeen!LoopNotifies, RecentlySeen!Due
  <2>2. chan' = chan /\ hour' = hour /\ seen' = seen /\ missed' = missed /\ running' = running
    BY <1>6 DEF RecentlySeen!LoopNotifies
  <2>3. SeenTypes' BY <2>2 DEF SeenInv, SeenTypes
  <2>4. RecentlySeen!SeenIsQueued'
    <3> SUFFICES ASSUME running, NEW d \in People, seen[d] + Window > hour
                 PROVE  <<seen[d] + Window, d>> \in heap' \/ <<d, seen[d]>> \in chan \/ d \in missed
      BY <2>2 DEF RecentlySeen!SeenIsQueued, RecentlySeen!RecentlySeen
    <3>1. <<seen[d] + Window, d>> \in heap \/ <<d, seen[d]>> \in chan \/ d \in missed
      BY DEF SeenInv, RecentlySeen!SeenIsQueued, RecentlySeen!RecentlySeen
    <3>2. seen[d] + Window \in Nat BY <1>1
    <3>3. e # <<seen[d] + Window, d>>
      <4> SUFFICES ASSUME e = <<seen[d] + Window, d>> PROVE FALSE OBVIOUS
      <4>1. e[1] = seen[d] + Window OBVIOUS
      <4> QED BY <1>1, <2>1, <3>2, <4>1
    <3> QED BY <2>1, <3>1, <3>3
  <2> QED BY <2>3, <2>4 DEF SeenInv
<1>7. ASSUME RecentlySeen!Tick PROVE SeenInv'
  <2>1. /\ hour' = hour + 1 /\ seen' = seen /\ heap' = heap /\ chan' = chan /\ missed' = missed
        /\ running' = running
    BY <1>7 DEF RecentlySeen!Tick
  <2>2. SeenTypes' BY <1>1, <2>1 DEF SeenInv, SeenTypes
  <2>3. \A d \in People : seen[d] + Window > hour + 1 => seen[d] + Window > hour BY <1>1
  <2>4. RecentlySeen!SeenIsQueued' BY <2>1, <2>3 DEF SeenInv, RecentlySeen!SeenIsQueued, RecentlySeen!RecentlySeen
  <2> QED BY <2>2, <2>4 DEF SeenInv
<1>8. ASSUME UNCHANGED RecentlySeen!vars PROVE SeenInv'
  BY <1>8 DEF RecentlySeen!vars, SeenInv, SeenTypes, RecentlySeen!SeenIsQueued, RecentlySeen!RecentlySeen
<1> QED BY ONLY <1>2, <1>3, <1>4, <1>5, <1>6, <1>7, <1>8 DEF RecentlySeen!Next

(* SeenIsQueued of RecentlySeenLoop (src/src/contact.rs) for any contacts and *)
(* window: as long as the loop runs it will tell the UI about every contact   *)
(* that stops being recently seen, save those whose interrupt found the       *)
(* channel full.                                                              *)
THEOREM NobodyIsForgotten == ASSUME Clocks PROVE RecentlySeen!Spec => []RecentlySeen!SeenIsQueued
<1>1. RecentlySeen!Init => SeenInv
  BY DEF RecentlySeen!Init, Clocks, SeenInv, SeenTypes, RecentlySeen!SeenIsQueued
<1>2. SeenInv => RecentlySeen!SeenIsQueued BY DEF SeenInv
<1> QED BY <1>1, <1>2, SeenStep, PTL DEF RecentlySeen!Spec

-----------------------------------------------------------------------------
(* Disappearing messages. *)

MsgRow == [place : {"none", "chat", "trash"}, fresh : BOOLEAN, timer : Nat, at : Nat, stamp : Nat]

(* A message r that was first seen at time s, and the clock c: its timer runs *)
(* since it was seen, and it was not deleted before the timer ran out.        *)
OnTime(r, s, c) ==
    /\ r \in MsgRow /\ s \in Nat /\ s <= c
    /\ r.place = "none" => s = 0
    /\ r.place = "chat" => /\ r.at # 0 <=> s # 0 /\ r.timer > 0
                           /\ r.at # 0 => r.at = s + r.timer
    /\ r.place = "trash" /\ DeviceAfter = 0 => r.timer > 0 /\ s # 0 /\ c >= s + r.timer

TimerTypes ==
    /\ clock \in Nat \ {0} /\ signal \in BOOLEAN /\ quiet \subseteq Fleeting
    /\ DOMAIN msg = Fleeting /\ msg = [m \in Fleeting |-> msg[m]]
    /\ DOMAIN read = Fleeting /\ read = [m \in Fleeting |-> read[m]]
TimersRun == \A m \in Fleeting : OnTime(msg[m], read[m], clock)

TimerInv == TimerTypes /\ TimersRun /\ Disappearing!WakesInTime

(* A message that comes in or goes out. *)
LEMMA NewRow ==
    ASSUME Seconds, NEW c \in Nat \ {0}, NEW t \in Durations, NEW f \in BOOLEAN, NEW r,
           r = [place |-> "chat", fresh |-> f, timer |-> t,
                at |-> IF f \/ t = 0 THEN 0 ELSE c + t, stamp |-> c]
    PROVE  OnTime(r, IF f THEN 0 ELSE c, c)
<1>1. t \in Nat BY DEF Seconds
<1>2. r \in MsgRow BY <1>1 DEF MsgRow
<1>3. r.place = "chat" /\ r.timer = t /\ r.at = IF f \/ t = 0 THEN 0 ELSE c + t OBVIOUS
<1> QED BY <1>1, <1>2, <1>3 DEF OnTime

(* Starting the timer of a message, by seeing it or in the housekeeping.  The *)
(* timer that runs is not prolonged nor cut short.                            *)
LEMMA StartedRow ==
    ASSUME NEW r, NEW s, NEW c \in Nat \ {0}, OnTime(r, s, c), r.place = "chat"
    PROVE  /\ OnTime([r EXCEPT !.fresh = FALSE], s, c)
           /\ r.at = 0 /\ r.timer > 0 =>
                OnTime([r EXCEPT !.at = c + r.timer], IF s = 0 THEN c ELSE s, c)
           /\ ~ (r.at > c + r.timer)
<1>0. r = [place |-> r.place, fresh |-> r.fresh, timer |-> r.timer, at |-> r.at, stamp |-> r.stamp]
  BY DEF OnTime, MsgRow
<1>1. /\ r.timer \in Nat /\ r.at \in Nat /\ r.stamp \in Nat /\ s \in Nat /\ s <= c
      /\ r.fresh \in BOOLEAN
  BY DEF OnTime, MsgRow
<1>2. PICK q : q = [place |-> r.place, fresh |-> FALSE, timer |-> r.timer, at |-> r.at, stamp |-> r.stamp]
  OBVIOUS
<1>3. q = [r EXCEPT !.fresh = FALSE]
  <2>1. ASSUME NEW b
        PROVE  [r EXCEPT !.fresh = b]
                 = [place |-> r.place, fresh |-> b, timer |-> r.timer, at |-> r.at, stamp |-> r.stamp]
    BY ONLY <1>0
  <2> QED BY <1>2, <2>1, Zenon
<1>4. q \in MsgRow BY <1>1, <1>2 DEF MsgRow
<1>5. OnTime(q, s, c) BY <1>2, <1>4 DEF OnTime
<1>6. ASSUME r.at = 0, r.timer > 0
      PROVE  OnTime([r EXCEPT !.at = c + r.timer], IF s = 0 THEN c ELSE s, c)
  <2>1. s = 0 BY <1>1, <1>6 DEF OnTime
  <2>2. PICK v : v = [place |-> r.place, fresh |-> r.fresh, timer |-> r.timer, at |-> c + r.timer,
                      stamp |-> r.stamp]
    OBVIOUS
  <2>3. v = [r EXCEPT !.at = c + r.timer] BY ONLY <1>0, <2>2
  <2>4. c + r.timer \in Nat BY <1>1
  <2>5. v \in MsgRow BY <1>1, <2>2, <2>4 DEF MsgRow
  <2>6. v.place = "chat" /\ v.timer = r.timer /\ v.at = c + r.timer BY <2>2
  <2>7. OnTime(v, c, c) BY <1>1, <1>6, <2>4, <2>5, <2>6 DEF OnTime
  <2> QED BY <2>1, <2>3, <2>7
<1>7. ~ (r.at > c + r.timer)
  <2>1. r.at = 0 \/ r.at = s + r.timer BY DEF OnTime
  <2> QED BY <1>1, <2>1
<1> QED BY <1>3, <1>5, <1>6, <1>7

LEMMA TimerInit == ASSUME Seconds PROVE Disappearing!Init => TimerInv
<1> SUFFICES ASSUME Disappearing!Init PROVE TimerInv OBVIOUS
<1>1. TimerTypes
  <2>1. DOMAIN msg = Fleeting /\ msg = [m \in Fleeting |-> msg[m]] BY DEF Disappearing!Init
  <2>2. DOMAIN read = Fleeting /\ read = [m \in Fleeting |-> read[m]] BY DEF Disappearing!Init
  <2>3. clock \in Nat \ {0} /\ quiet \subseteq Fleeting BY DEF Disappearing!Init
  <2>4. signal \in BOOLEAN BY DEF Disappearing!Init
  <2> QED BY <2>1, <2>2, <2>3, <2>4 DEF TimerTypes
<1>2. TimersRun BY DEF Disappearing!Init, Disappearing!NoMsg, TimersRun, OnTime, MsgRow
<1>3. Disappearing!WakesInTime BY DEF Disappearing!Init, Disappearing!WakesInTime
<1> QED BY <1>1, <1>2, <1>3 DEF TimerInv

(* interrupt_ephemeral_task wakes the loop if it sleeps. *)
LEMMA Awake ==
    ASSUME Disappearing!Interrupt PROVE phase = "wait" => signal'
BY DEF Disappearing!Interrupt

(* The steps that change messages. *)
LEMMA ReceiveOK ==
    ASSUME Seconds, TimerInv, NEW m \in Fleeting, NEW t \in Durations, NEW f \in BOOLEAN,
           Disappearing!Receive(m, t, f)
    PROVE  TimerInv'
<1>1. PICK r : r = [place |-> "chat", fresh |-> f, timer |-> t,
                    at |-> IF f \/ t = 0 THEN 0 ELSE clock + t, stamp |-> clock]
  OBVIOUS
<1>2. /\ msg' = [msg EXCEPT ![m] = r] /\ clock' = clock /\ phase' = phase /\ until' = until
      /\ read' = IF f THEN read ELSE [read EXCEPT ![m] = clock]
      /\ msg[m].place = "none"
  BY <1>1 DEF Disappearing!Receive
<1>3. read[m] = 0 /\ clock \in Nat \ {0} BY <1>2 DEF TimerInv, TimerTypes, TimersRun, OnTime
<1>4. /\ DOMAIN msg' = Fleeting /\ msg' = [n \in Fleeting |-> msg'[n]]
      /\ DOMAIN read' = Fleeting /\ read' = [n \in Fleeting |-> read'[n]]
      /\ msg'[m] = r /\ read'[m] = (IF f THEN 0 ELSE clock)
      /\ \A n \in Fleeting \ {m} : msg'[n] = msg[n] /\ read'[n] = read[n]
  BY <1>2, <1>3 DEF TimerInv, TimerTypes
<1>5. signal' \in BOOLEAN /\ quiet' \subseteq Fleeting
  BY DEF Disappearing!Receive, Disappearing!Interrupt, TimerInv, TimerTypes
<1>6. TimerTypes' BY <1>2, <1>3, <1>4, <1>5 DEF TimerTypes
<1>7. TimersRun'
  <2>1. OnTime(r, IF f THEN 0 ELSE clock, clock) BY <1>1, <1>3, NewRow
  <2> QED BY <1>2, <1>4, <2>1 DEF TimerInv, TimersRun
<1>8. Disappearing!WakesInTime'
  <2>1. SUFFICES ASSUME phase = "wait", ~signal', NEW n \in Fleeting \ quiet', msg'[n].place = "chat",
                        msg'[n].at # 0
                 PROVE  until <= msg'[n].at + 1
    BY <1>2 DEF Disappearing!WakesInTime, Disappearing!InChat
  <2>2. CASE n = m
    <3>1. ~f BY <1>1, <1>4, <2>1, <2>2
    <3>2. CASE DeviceAfter > 0 BY <2>1, <3>2, Awake DEF Disappearing!Receive
    <3>3. CASE ~ (DeviceAfter > 0) BY <2>1, <2>2, <3>1, <3>3 DEF Disappearing!Receive
    <3> QED BY <3>2, <3>3
  <2>3. CASE n # m
    <3>1. msg'[n] = msg[n] /\ n \notin quiet
      BY <1>4, <2>1, <2>3 DEF Disappearing!Receive
    <3>2. ~signal
      BY <2>1 DEF Disappearing!Receive, Disappearing!Interrupt
    <3> QED BY <2>1, <3>1, <3>2 DEF TimerInv, Disappearing!WakesInTime, Disappearing!InChat
  <2> QED BY <2>2, <2>3
<1> QED BY <1>6, <1>7, <1>8 DEF TimerInv

LEMMA SendOK ==
    ASSUME Seconds, TimerInv, NEW m \in Fleeting, NEW t \in Durations, Disappearing!Send(m, t)
    PROVE  TimerInv'
<1>1. PICK r : r = [place |-> "chat", fresh |-> FALSE, timer |-> t,
                    at |-> IF FALSE \/ t = 0 THEN 0 ELSE clock + t, stamp |-> clock]
  OBVIOUS
<1>2. /\ msg' = [msg EXCEPT ![m] = r] /\ clock' = clock /\ phase' = phase /\ until' = until
      /\ read' = [read EXCEPT ![m] = clock]
  BY <1>1 DEF Disappearing!Send
<1>3. clock \in Nat \ {0} BY DEF TimerInv, TimerTypes
<1>4. /\ DOMAIN msg' = Fleeting /\ msg' = [n \in Fleeting |-> msg'[n]]
      /\ DOMAIN read' = Fleeting /\ read' = [n \in Fleeting |-> read'[n]]
      /\ msg'[m] = r /\ read'[m] = clock
      /\ \A n \in Fleeting \ {m} : msg'[n] = msg[n] /\ read'[n] = read[n]
  BY <1>2, <1>3 DEF TimerInv, TimerTypes
<1>5. signal' \in BOOLEAN /\ quiet' = quiet
  BY DEF Disappearing!Send, Disappearing!Interrupt, TimerInv, TimerTypes
<1>6. TimerTypes' BY <1>2, <1>3, <1>4, <1>5 DEF TimerInv, TimerTypes
<1>7. TimersRun'
  <2>1. OnTime(r, IF FALSE THEN 0 ELSE clock, clock) BY <1>1, <1>3, NewRow
  <2> QED BY <1>2, <1>4, <2>1 DEF TimerInv, TimersRun
<1>8. Disappearing!WakesInTime' BY <1>2, Awake DEF Disappearing!WakesInTime, Disappearing!Send
<1> QED BY <1>6, <1>7, <1>8 DEF TimerInv

LEMMA MarkSeenOK ==
    ASSUME Seconds, TimerInv, NEW S \in SUBSET Fleeting, Disappearing!MarkSeen(S)
    PROVE  TimerInv'
<1>1. PICK seenNow : seenNow = {m \in S : Disappearing!InChat(m)} OBVIOUS
<1>2. /\ msg' = [m \in Fleeting |-> IF m \in seenNow THEN [Disappearing!Started(msg[m]) EXCEPT !.fresh = FALSE]
                                ELSE msg[m]]
      /\ read' = [m \in Fleeting |-> IF m \in seenNow /\ read[m] = 0 THEN clock ELSE read[m]]
      /\ IF \E m \in seenNow : Disappearing!Started(msg[m]) # msg[m] THEN Disappearing!Interrupt ELSE UNCHANGED signal
      /\ clock' = clock /\ phase' = phase /\ until' = until /\ quiet' = quiet
  BY <1>1 DEF Disappearing!MarkSeen
<1>3. clock \in Nat \ {0} BY DEF TimerInv, TimerTypes
<1>4. /\ DOMAIN msg' = Fleeting /\ msg' = [n \in Fleeting |-> msg'[n]]
      /\ DOMAIN read' = Fleeting /\ read' = [n \in Fleeting |-> read'[n]]
  BY <1>2
<1>5. signal' \in BOOLEAN BY <1>2 DEF Disappearing!Interrupt, TimerInv, TimerTypes
<1>6. TimerTypes' BY <1>2, <1>3, <1>4, <1>5 DEF TimerInv, TimerTypes
<1>7. ASSUME NEW m \in seenNow
      PROVE  /\ m \in Fleeting /\ OnTime(msg'[m], read'[m], clock)
             /\ Disappearing!Started(msg[m]) = msg[m] => msg'[m].at = msg[m].at
  <2>1. m \in Fleeting /\ msg[m].place = "chat" BY <1>1 DEF Disappearing!InChat
  <2>2. PICK r, s : r = msg[m] /\ s = read[m] OBVIOUS
  <2>3. OnTime(r, s, clock) /\ r.place = "chat" BY <2>1, <2>2 DEF TimerInv, TimersRun
  <2>4. ~ (r.at > clock + r.timer) BY <1>3, <2>3, StartedRow
  <2>5. msg'[m] = [Disappearing!Started(r) EXCEPT !.fresh = FALSE]
        /\ read'[m] = (IF s = 0 THEN clock ELSE s)
    BY <1>2, <1>7, <2>1, <2>2
  <2>6. CASE r.timer > 0 /\ r.at = 0
    <3>1. PICK v : v = [r EXCEPT !.at = clock + r.timer] OBVIOUS
    <3>2. Disappearing!Started(r) = v BY <2>6, <3>1 DEF Disappearing!Started
    <3>3. OnTime(v, IF s = 0 THEN clock ELSE s, clock) BY <1>3, <2>3, <2>6, <3>1, StartedRow
    <3>4. v.place = "chat" /\ v.at = clock + r.timer BY <2>3, <3>1 DEF OnTime, MsgRow
    <3>5. OnTime([v EXCEPT !.fresh = FALSE], IF s = 0 THEN clock ELSE s, clock)
      BY <1>3, <3>3, <3>4, StartedRow
    <3>6. v # r
      <4>1. r.timer \in Nat BY <2>3 DEF OnTime, MsgRow
      <4>2. v.at # r.at BY <1>3, <2>6, <3>4, <4>1
      <4> QED BY <4>2
    <3> QED BY <2>1, <2>2, <2>5, <3>2, <3>5, <3>6
  <2>7. CASE ~ (r.timer > 0 /\ r.at = 0)
    <3>1. Disappearing!Started(r) = r BY <2>4, <2>7 DEF Disappearing!Started
    <3>2. OnTime([r EXCEPT !.fresh = FALSE], s, clock) BY <1>3, <2>3, StartedRow
    <3>3. [r EXCEPT !.fresh = FALSE].at = r.at BY <2>3 DEF OnTime, MsgRow
    <3>4. CASE s # 0 BY <2>1, <2>2, <2>5, <3>1, <3>2, <3>3, <3>4
    <3>5. CASE s = 0
      <4>1. r.at = 0 BY <2>3, <3>5 DEF OnTime
      <4>2. r.timer \in Nat BY <2>3 DEF OnTime, MsgRow
      <4>3. r.timer = 0 BY <2>7, <4>1, <4>2
      <4>4. PICK q : q = [r EXCEPT !.fresh = FALSE] OBVIOUS
      <4>5. OnTime(q, 0, clock) /\ q.timer = 0 /\ q.place = "chat"
        BY <2>3, <3>2, <3>5, <4>3, <4>4 DEF OnTime, MsgRow
      <4>6. OnTime(q, clock, clock) BY <1>3, <4>5 DEF OnTime
      <4> QED BY <2>1, <2>2, <2>5, <3>1, <3>3, <3>5, <4>4, <4>6
    <3> QED BY <3>4, <3>5
  <2> QED BY <2>6, <2>7
<1>8. ASSUME NEW m \in Fleeting, m \notin seenNow PROVE msg'[m] = msg[m] /\ read'[m] = read[m]
  BY <1>2, <1>8
<1>9. TimersRun' BY <1>2, <1>7, <1>8 DEF TimerInv, TimersRun
<1>10. Disappearing!WakesInTime'
  <2>1. SUFFICES ASSUME phase = "wait", ~signal', NEW n \in Fleeting \ quiet, msg'[n].place = "chat",
                        msg'[n].at # 0
                 PROVE  until <= msg'[n].at + 1
    BY <1>2 DEF Disappearing!WakesInTime, Disappearing!InChat
  <2>2. (\A m \in seenNow : Disappearing!Started(msg[m]) = msg[m]) /\ ~signal
    BY <1>2, <2>1, Awake
  <2>3. msg'[n].at = msg[n].at BY <1>7, <1>8, <2>2
  <2>4. msg[n].place = "chat" BY <1>1, <1>8, <2>1 DEF Disappearing!InChat
  <2> QED BY <2>1, <2>2, <2>3, <2>4 DEF TimerInv, Disappearing!WakesInTime, Disappearing!InChat
<1> QED BY <1>6, <1>9, <1>10 DEF TimerInv

(* Steps of the loop and of the clock that leave the messages alone. *)
LEMMA MessagesStay ==
    ASSUME TimerInv, msg' = msg, read' = read, clock' \in Nat, clock <= clock',
           signal' \in BOOLEAN, quiet' \subseteq Fleeting
    PROVE  TimerTypes' /\ TimersRun'
<1>1. clock \in Nat \ {0} BY DEF TimerInv, TimerTypes
<1>2. TimerTypes' BY <1>1 DEF TimerInv, TimerTypes
<1>3. ASSUME NEW m \in Fleeting PROVE OnTime(msg[m], read[m], clock')
  <2>1. PICK r, s : r = msg[m] /\ s = read[m] OBVIOUS
  <2>2. OnTime(r, s, clock) BY <2>1 DEF TimerInv, TimersRun
  <2>3. r.timer \in Nat /\ s \in Nat BY <2>2 DEF OnTime, MsgRow
  <2> QED BY <1>1, <2>1, <2>2, <2>3 DEF OnTime
<1> QED BY <1>2, <1>3 DEF TimersRun

LEMMA SeenWithoutTimerOK ==
    ASSUME Seconds, TimerInv, NEW m \in Fleeting, Disappearing!SeenWithoutTimer(m) PROVE TimerInv'
<1>1. PICK r, q : r = msg[m] /\ q = [r EXCEPT !.fresh = FALSE] OBVIOUS
<1>2. /\ msg' = [msg EXCEPT ![m] = q] /\ clock' = clock /\ phase' = phase /\ until' = until
      /\ read' = read /\ signal' = signal /\ quiet' = quiet /\ r.place = "chat"
  BY <1>1 DEF Disappearing!SeenWithoutTimer, Disappearing!InChat
<1>3. clock \in Nat \ {0} /\ OnTime(r, read[m], clock) BY <1>1 DEF TimerInv, TimerTypes, TimersRun
<1>4. OnTime(q, read[m], clock) BY <1>1, <1>2, <1>3, StartedRow
<1>5. q.at = r.at /\ q.place = r.place BY <1>1, <1>3 DEF OnTime, MsgRow
<1>6. /\ DOMAIN msg' = Fleeting /\ msg' = [n \in Fleeting |-> msg'[n]]
      /\ msg'[m] = q /\ \A n \in Fleeting \ {m} : msg'[n] = msg[n]
  BY <1>2 DEF TimerInv, TimerTypes
<1>7. TimerTypes' BY <1>2, <1>6 DEF TimerInv, TimerTypes
<1>8. TimersRun' BY <1>2, <1>4, <1>6 DEF TimerInv, TimersRun
<1>9. \A n \in Fleeting : msg'[n].at = msg[n].at /\ msg'[n].place = msg[n].place
  BY <1>1, <1>5, <1>6
<1>10. Disappearing!WakesInTime' BY <1>2, <1>9 DEF TimerInv, Disappearing!WakesInTime, Disappearing!InChat
<1> QED BY <1>7, <1>8, <1>10 DEF TimerInv

LEMMA HousekeepingOK == ASSUME Seconds, TimerInv, Disappearing!Housekeeping PROVE TimerInv'
<1>1. PICK late : late = {m \in Fleeting : Disappearing!InChat(m) /\ ~msg[m].fresh /\ msg[m].timer > 0
                                          /\ msg[m].at = 0}
  OBVIOUS
<1>2. /\ msg' = [m \in Fleeting |-> IF m \in late THEN [msg[m] EXCEPT !.at = clock + msg[m].timer]
                                ELSE msg[m]]
      /\ read' = [m \in Fleeting |-> IF m \in late /\ read[m] = 0 THEN clock ELSE read[m]]
      /\ quiet' = quiet \cup late
      /\ clock' = clock /\ phase' = phase /\ until' = until /\ signal' = signal
  BY <1>1 DEF Disappearing!Housekeeping
<1>3. clock \in Nat \ {0} BY DEF TimerInv, TimerTypes
<1>4. /\ DOMAIN msg' = Fleeting /\ msg' = [n \in Fleeting |-> msg'[n]]
      /\ DOMAIN read' = Fleeting /\ read' = [n \in Fleeting |-> read'[n]]
  BY <1>2
<1>5. late \subseteq Fleeting BY <1>1
<1>6. TimerTypes' BY <1>2, <1>3, <1>4, <1>5 DEF TimerInv, TimerTypes
<1>7. ASSUME NEW m \in late PROVE OnTime(msg'[m], read'[m], clock)
  <2>1. PICK r, s : r = msg[m] /\ s = read[m] OBVIOUS
  <2>2. OnTime(r, s, clock) /\ r.place = "chat" /\ r.at = 0 /\ r.timer > 0
    BY <1>1, <1>7, <2>1 DEF TimerInv, TimersRun, Disappearing!InChat
  <2>3. PICK v, t : v = [r EXCEPT !.at = clock + r.timer] /\ t = IF s = 0 THEN clock ELSE s
    OBVIOUS
  <2>4. OnTime(v, t, clock) BY <1>3, <2>2, <2>3, StartedRow
  <2>5. msg'[m] = v /\ read'[m] = t BY <1>2, <1>5, <1>7, <2>1, <2>3
  <2> QED BY <2>4, <2>5
<1>8. ASSUME NEW m \in Fleeting, m \notin late PROVE msg'[m] = msg[m] /\ read'[m] = read[m]
  BY <1>2, <1>8
<1>9. TimersRun' BY <1>2, <1>7, <1>8 DEF TimerInv, TimersRun
<1>10. Disappearing!WakesInTime' BY <1>2, <1>8 DEF TimerInv, Disappearing!WakesInTime, Disappearing!InChat
<1> QED BY <1>6, <1>9, <1>10 DEF TimerInv

LEMMA UserDeletesOK ==
    ASSUME Seconds, TimerInv, NEW m \in Fleeting, Disappearing!UserDeletes(m) PROVE TimerInv'
<1>1. /\ msg' = [msg EXCEPT ![m] = Disappearing!NoMsg] /\ clock' = clock /\ phase' = phase /\ until' = until
      /\ read' = [read EXCEPT ![m] = 0] /\ signal' = signal /\ quiet' = quiet \ {m}
  BY DEF Disappearing!UserDeletes
<1>2. /\ DOMAIN msg' = Fleeting /\ msg' = [n \in Fleeting |-> msg'[n]]
      /\ DOMAIN read' = Fleeting /\ read' = [n \in Fleeting |-> read'[n]]
      /\ msg'[m] = Disappearing!NoMsg /\ read'[m] = 0
      /\ \A n \in Fleeting \ {m} : msg'[n] = msg[n] /\ read'[n] = read[n]
  BY <1>1 DEF TimerInv, TimerTypes
<1>3. TimerTypes' BY <1>1, <1>2 DEF TimerInv, TimerTypes
<1>4. OnTime(Disappearing!NoMsg, 0, clock) BY DEF OnTime, MsgRow, Disappearing!NoMsg, TimerInv, TimerTypes
<1>5. TimersRun' BY <1>1, <1>2, <1>4 DEF TimerInv, TimersRun
<1>6. Disappearing!NoMsg.place # "chat" BY DEF Disappearing!NoMsg
<1>7. Disappearing!WakesInTime' BY <1>1, <1>2, <1>6 DEF TimerInv, Disappearing!WakesInTime, Disappearing!InChat
<1> QED BY <1>3, <1>5, <1>7 DEF TimerInv

(* The loop sleeps until the earliest of all timers. *)
LEMMA LoopComputesOK == ASSUME Seconds, TimerInv, Disappearing!LoopComputes PROVE TimerInv'
<1>1. clock \in Nat \ {0} BY DEF TimerInv, TimerTypes
<1>2. TimerTypes' /\ TimersRun'
  BY <1>1, MessagesStay DEF Disappearing!LoopComputes, TimerInv, TimerTypes
<1>3. ASSUME NEW m \in Fleeting PROVE msg[m].at \in Nat /\ msg[m].stamp + DeviceAfter \in Nat
  <2>1. msg[m] \in MsgRow BY DEF TimerInv, TimersRun, OnTime
  <2> QED BY <2>1 DEF MsgRow, Seconds
<1>4. Disappearing!Expirations \in SUBSET Nat BY <1>3 DEF Disappearing!Expirations
<1>5. ASSUME NEW n \in Fleeting, msg[n].place = "chat", msg[n].at # 0
      PROVE  until' <= msg[n].at + 1
  <2>1. msg[n].at \in Disappearing!Expirations BY <1>5 DEF Disappearing!Expirations, Disappearing!InChat
  <2>2. PICK k : k = Disappearing!Min(Disappearing!Expirations) OBVIOUS
  <2>3. k \in Disappearing!Expirations /\ \A j \in Disappearing!Expirations : k <= j
    <3>1. \E a \in Disappearing!Expirations : \A b \in Disappearing!Expirations : a <= b BY <1>4, <2>1, Least
    <3> QED BY <2>2, <3>1 DEF Disappearing!Min
  <2>4. until' = k + 1 BY <2>1, <2>2 DEF Disappearing!LoopComputes
  <2>5. k \in Nat /\ msg[n].at \in Nat /\ k <= msg[n].at BY <1>3, <1>4, <2>1, <2>3
  <2> QED BY <2>4, <2>5
<1>6. Disappearing!WakesInTime' BY <1>5 DEF Disappearing!WakesInTime, Disappearing!InChat, Disappearing!LoopComputes
<1> QED BY <1>2, <1>6 DEF TimerInv

LEMMA LoopDeletesOK == ASSUME Seconds, TimerInv, Disappearing!LoopDeletes PROVE TimerInv'
<1>1. /\ msg' = [m \in Fleeting |-> IF Disappearing!InChat(m) /\ Disappearing!Expired(m)
                                THEN [msg[m] EXCEPT !.place = "trash", !.at = 0] ELSE msg[m]]
      /\ clock' = clock /\ read' = read /\ quiet' = quiet /\ signal' = signal /\ phase' = "compute"
  BY DEF Disappearing!LoopDeletes
<1>2. DOMAIN msg' = Fleeting /\ msg' = [n \in Fleeting |-> msg'[n]] BY <1>1
<1>3. TimerTypes' BY <1>1, <1>2 DEF TimerInv, TimerTypes
<1>4. ASSUME NEW m \in Fleeting PROVE OnTime(msg'[m], read[m], clock)
  <2>1. PICK r, s : r = msg[m] /\ s = read[m] OBVIOUS
  <2>2. OnTime(r, s, clock) BY <2>1 DEF TimerInv, TimersRun
  <2>3. CASE ~ (Disappearing!InChat(m) /\ Disappearing!Expired(m)) BY <1>1, <2>1, <2>2, <2>3
  <2>4. CASE Disappearing!InChat(m) /\ Disappearing!Expired(m)
    <3>3. PICK v : v = [r EXCEPT !.place = "trash", !.at = 0] OBVIOUS
    <3>4. msg'[m] = v BY <1>1, <2>1, <2>4, <3>3
    <3>5. r \in MsgRow /\ s \in Nat /\ s <= clock /\ r.place = "chat"
      BY <2>1, <2>2, <2>4 DEF OnTime, Disappearing!InChat
    <3>6. v \in MsgRow BY <3>3, <3>5 DEF MsgRow
    <3>7. v.place = "trash" /\ v.timer = r.timer BY <3>3, <3>5 DEF MsgRow
    <3>8. r.timer \in Nat /\ r.stamp \in Nat /\ r.at \in Nat BY <3>5 DEF MsgRow
    <3>9. DeviceAfter = 0 => r.at # 0 /\ r.at <= clock BY <2>1, <2>4 DEF Disappearing!Expired
    <3>10. DeviceAfter = 0 => r.timer > 0 /\ s # 0 /\ clock >= s + r.timer
      BY <2>2, <3>5, <3>8, <3>9 DEF OnTime
    <3>11. OnTime(v, s, clock) BY <3>5, <3>6, <3>7, <3>10 DEF OnTime
    <3> QED BY <2>1, <3>4, <3>11
  <2> QED BY <2>3, <2>4
<1>5. TimersRun' BY <1>1, <1>4 DEF TimersRun
<1>6. Disappearing!WakesInTime' BY <1>1 DEF Disappearing!WakesInTime
<1> QED BY <1>3, <1>5, <1>6 DEF TimerInv

LEMMA TimerInvariant == ASSUME Seconds PROVE Disappearing!Spec => []TimerInv
<1>1. Disappearing!Init => TimerInv BY TimerInit
<1>2. TimerInv /\ [Disappearing!Next]_(Disappearing!vars) => TimerInv'
  <2> SUFFICES ASSUME TimerInv, [Disappearing!Next]_(Disappearing!vars) PROVE TimerInv' OBVIOUS
  <2>0. clock \in Nat \ {0} /\ signal \in BOOLEAN /\ quiet \subseteq Fleeting
    BY DEF TimerInv, TimerTypes
  <2>1. CASE UNCHANGED Disappearing!vars
    <3>1. TimerTypes' /\ TimersRun' BY <2>0, <2>1, MessagesStay DEF Disappearing!vars
    <3>2. Disappearing!WakesInTime' BY <2>1 DEF Disappearing!vars, TimerInv, Disappearing!WakesInTime, Disappearing!InChat
    <3> QED BY <3>1, <3>2 DEF TimerInv
  <2>2. CASE \E m \in Fleeting, t \in Durations : \E f \in BOOLEAN : Disappearing!Receive(m, t, f)
    BY <2>2, ReceiveOK
  <2>3. CASE \E m \in Fleeting, t \in Durations : Disappearing!Send(m, t) BY <2>3, SendOK
  <2>4. CASE \E m \in Fleeting : Disappearing!UserDeletes(m) \/ Disappearing!SeenWithoutTimer(m)
    BY <2>4, UserDeletesOK, SeenWithoutTimerOK
  <2>5. CASE \E S \in SUBSET Fleeting : Disappearing!MarkSeen(S) BY <2>5, MarkSeenOK
  <2>6. CASE Disappearing!Housekeeping BY <2>6, HousekeepingOK
  <2>7. CASE Disappearing!StartIo \/ Disappearing!StopIo \/ Disappearing!LoopInterrupted
    <3>1. /\ msg' = msg /\ read' = read /\ clock' = clock /\ quiet' = quiet /\ phase' # "wait"
          /\ signal' = FALSE
      BY <2>7 DEF Disappearing!StartIo, Disappearing!StopIo, Disappearing!LoopInterrupted
    <3>2. signal' \in BOOLEAN BY <3>1
    <3>3. TimerTypes' /\ TimersRun' BY <2>0, <3>1, <3>2, MessagesStay
    <3>4. Disappearing!WakesInTime' BY <3>1 DEF Disappearing!WakesInTime
    <3> QED BY <3>3, <3>4 DEF TimerInv
  <2>8. CASE Disappearing!LoopComputes BY <2>8, LoopComputesOK
  <2>9. CASE Disappearing!LoopDeletes BY <2>9, LoopDeletesOK
  <2>10. CASE Disappearing!Tick
    <3>1. clock' \in Nat /\ clock <= clock' BY <2>0, <2>10 DEF Disappearing!Tick
    <3>2. TimerTypes' /\ TimersRun' BY <2>0, <2>10, <3>1, MessagesStay DEF Disappearing!Tick
    <3>3. Disappearing!WakesInTime' BY <2>10 DEF Disappearing!Tick, TimerInv, Disappearing!WakesInTime, Disappearing!InChat
    <3> QED BY <3>2, <3>3 DEF TimerInv
  <2> QED BY <2>1, <2>2, <2>3, <2>4, <2>5, <2>6, <2>7, <2>8, <2>9, <2>10 DEF Disappearing!Next
<1> QED BY <1>1, <1>2, PTL DEF Disappearing!Spec

(* ephemeral.rs: however messages are received, sent, seen, started by the     *)
(* housekeeping and deleted while the loop sleeps, it wakes up within a second *)
(* of every timer it was told of; a timer that runs is not prolonged; and no   *)
(* message is deleted before it was seen for the time of its timer.            *)
THEOREM TimersAreKept == ASSUME Seconds PROVE Disappearing!Spec => []Disappearing!DeletedInTime
<1>1. TimerInv => Disappearing!DeletedInTime
  <2> SUFFICES ASSUME TimerInv PROVE Disappearing!DeletedInTime OBVIOUS
  <2>1. ASSUME NEW m \in Fleeting
        PROVE  /\ Disappearing!InChat(m) /\ msg[m].at # 0 => read[m] # 0 /\ msg[m].at <= read[m] + msg[m].timer
               /\ DeviceAfter = 0 /\ msg[m].place = "trash"
                    => msg[m].timer > 0 /\ read[m] # 0 /\ clock >= read[m] + msg[m].timer
    <3>1. PICK r, s : r = msg[m] /\ s = read[m] OBVIOUS
    <3>2. OnTime(r, s, clock) BY <3>1 DEF TimerInv, TimersRun
    <3>3. r.timer \in Nat /\ r.at \in Nat /\ s \in Nat BY <3>2 DEF OnTime, MsgRow
    <3> QED BY <3>1, <3>2, <3>3 DEF OnTime, Disappearing!InChat
  <2> QED BY <2>1 DEF TimerInv, Disappearing!DeletedInTime, Disappearing!TimerRespected
<1> QED BY <1>1, TimerInvariant, PTL

-----------------------------------------------------------------------------
(* The inbox. *)

RowRecords == [uid : Nat, part : Inbox!Parts, del : BOOLEAN]
Sessions == [sel : BOOLEAN, next : Nat, newMail : BOOLEAN]
Plans == [old : Nat, fetch : SUBSET Nat, avail : SUBSET Inbox!Posts, later : SUBSET Msgs,
          skipped : Nat, largest : Nat, ok : BOOLEAN]
MailTypes ==
    /\ Inbox!TypeOK
    /\ server \in Seq(Inbox!Parts) /\ rows \subseteq RowRecords
    /\ validity \in Nat /\ known \in Nat /\ uidNext \in Nat /\ first \in Nat /\ known <= validity
    /\ ses \in Sessions /\ plan \in Plans /\ available \subseteq Inbox!Posts

(* The tables are about the folder as it is numbered now, except before it is *)
(* selected again: the rows name what is there, and neither uid_next nor the  *)
(* session's UIDNEXT is ahead of the server.                                  *)
Numbered ==
    /\ stage \notin {"start", "fetch"} => known = validity
    /\ known = validity =>
         /\ uidNext <= Len(server) + 1
         /\ \A r \in rows : r.uid \in DOMAIN server /\ server[r.uid] = r.part
    /\ stage \in {"batch", "fetching", "uidnext", "later"} => ses.sel
    /\ ses.sel => ses.next <= Len(server) + 1

(* Only what has a pre-message can be incomplete, and what is complete or     *)
(* deleted was had; only the bodies of such messages are to be deleted.       *)
Completed ==
    /\ \A m \in Msgs : local[m] \in {"Available", "InProgress", "Failure"} => m \in Inbox!Posts
    /\ \A m \in Msgs : local[m] \in {"Done", "deleted"} => m \in had
    /\ \A r \in rows : r.del /\ r.part[2] = "body" => r.part[1] \in had

Kept(u) ==
    Inbox!Live(u) /\ Inbox!FetchNow(server[u])
      => Inbox!Exists(server[u][1]) \/ server[u][1] \in reported

(* The UIDs that uid_next may pass if the batch ends well: the prefetch saw   *)
(* what was there below them.                                                 *)
Covered(u) ==
    \/ u <= plan.skipped \/ u <= plan.largest
    \/ u < plan.old + Batch /\ u < ses.next
    \/ \E v \in plan.fetch : u <= v

(* Of these everything is kept or still to be fetched, in ascending order.    *)
Planned ==
    stage \in {"fetching", "uidnext"} =>
      /\ plan.old = uidNext
      /\ \A v \in plan.fetch : plan.largest < v /\ v <= Len(server)
      /\ plan.skipped <= Len(server) /\ plan.largest <= Len(server)
      /\ plan.ok => plan.fetch = {}
      /\ \A u \in uidNext .. Len(server) : Covered(u) => Kept(u) \/ u \in plan.fetch

MailInv == MailTypes /\ Numbered /\ Completed /\ Planned /\ Inbox!MailKept

(* A bounded set of numbers has a greatest one. *)
LEMMA Greatest ==
    ASSUME NEW S \in SUBSET Nat, S # {}, NEW n \in Nat, \A k \in S : k <= n
    PROVE  Inbox!Max(S) \in S /\ \A k \in S : k <= Inbox!Max(S)
<1>1. PICK B : B = {b \in Nat : \A k \in S : k <= b} OBVIOUS
<1>2. B \in SUBSET Nat /\ B # {} BY <1>1
<1>3. PICK b \in B : \A k \in B : b <= k BY <1>2, Least
<1>4. b \in Nat /\ \A k \in S : k <= b BY <1>1, <1>3
<1>5. b \in S
  <2> SUFFICES ASSUME b \notin S PROVE FALSE OBVIOUS
  <2>1. \A k \in S : k \in Nat /\ k < b BY <1>4
  <2>2. b # 0
    <3>1. PICK k \in S : TRUE OBVIOUS
    <3> QED BY <1>4, <2>1, <3>1
  <2>3. b - 1 \in B BY <1>1, <1>4, <2>1, <2>2
  <2> QED BY <1>3, <1>4, <2>3
<1>6. \E x \in S : \A y \in S : x >= y BY <1>4, <1>5
<1>7. Inbox!Max(S) \in S /\ \A y \in S : Inbox!Max(S) >= y BY <1>6 DEF Inbox!Max
<1> QED BY <1>7

LEMMA Smallest ==
    ASSUME NEW S \in SUBSET Nat, S # {}
    PROVE  Inbox!Min(S) \in S /\ \A k \in S : Inbox!Min(S) <= k
BY Least DEF Inbox!Min


LEMMA PartsOf ==
    ASSUME NEW p \in Inbox!Parts
    PROVE  /\ p[1] \in Msgs /\ p[2] \in {"body", "pre"} /\ p = <<p[1], p[2]>>
           /\ p[2] = "pre" => p[1] \in Inbox!Posts
BY DEF Inbox!Parts, Inbox!Posts

LEMMA MailInit == ASSUME Folder PROVE Inbox!Init => MailInv
<1> SUFFICES ASSUME Inbox!Init PROVE MailInv OBVIOUS
<1>1. server \in Seq(Inbox!Parts)
  <2>1. PICK old \in {<< >>} \union {<<p>> : p \in Inbox!Parts} : server = old BY DEF Inbox!Init
  <2>2. CASE server = << >> BY <2>2, EmptySeq
  <2>3. CASE \E p \in Inbox!Parts : server = <<p>> BY <2>3
  <2> QED BY <2>1, <2>2, <2>3
<1>2. Len(server) \in Nat /\ DOMAIN server = 1 .. Len(server)
      /\ \A i \in 1 .. Len(server) : server[i] \in Inbox!Parts
  BY <1>1, LenProperties
<1>3. MailTypes
  <2>1. Inbox!TypeOK BY <1>2 DEF Inbox!TypeOK, Inbox!Init, Inbox!Range
  <2>2. ses \in Sessions /\ plan \in Plans
    BY DEF Inbox!Init, Inbox!NoSession, Inbox!NoPlan, Sessions, Plans
  <2> QED BY <1>1, <1>2, <2>1, <2>2 DEF MailTypes, Inbox!Init
<1>4. Numbered /\ Completed /\ Planned
  BY DEF Inbox!Init, Numbered, Completed, Planned, Inbox!NoSession
<1>5. Inbox!MailKept
  BY DEF Inbox!Init, Inbox!MailKept, Inbox!ReadIsKept, Inbox!NeverDeletedUnread, Inbox!InProgressIsQueued
<1> QED BY <1>3, <1>4, <1>5 DEF MailInv

(* The folder is a sequence, its rows and the UIDs in memory are numbers. *)
LEMMA MailFacts ==
    ASSUME MailTypes
    PROVE  /\ Len(server) \in Nat /\ DOMAIN server = 1 .. Len(server)
           /\ \A i \in 1 .. Len(server) : server[i] \in Inbox!Parts
           /\ ses.sel \in BOOLEAN /\ ses.next \in Nat /\ ses.newMail \in BOOLEAN
           /\ plan.old \in Nat /\ plan.fetch \in SUBSET Nat /\ plan.skipped \in Nat
           /\ plan.largest \in Nat /\ plan.ok \in BOOLEAN
           /\ plan.avail \subseteq Inbox!Posts /\ plan.later \subseteq Msgs
           /\ \A r \in rows : r.uid \in Nat /\ r.part \in Inbox!Parts /\ r.del \in BOOLEAN
BY LenProperties DEF MailTypes, Sessions, Plans, RowRecords

(* What was kept stays so while the UIDs denote the same messages. *)
LEMMA KeptStays ==
    ASSUME MailTypes, NEW u, Kept(u), reported \subseteq reported',
           \A m \in Msgs : Inbox!Exists(m) => Inbox!Exists(m)',
           Inbox!Live(u)' => Inbox!Live(u) /\ server'[u] = server[u]
    PROVE  Kept(u)'
<1>1. Inbox!Live(u) => server[u] \in Inbox!Parts BY MailFacts DEF Inbox!Live
<1>2. Inbox!Live(u) => server[u][1] \in Msgs BY <1>1, PartsOf
<1> QED BY <1>2 DEF Kept, Inbox!FetchNow

LEMMA ArriveOK ==
    ASSUME Folder, MailInv, NEW p \in Inbox!Parts, Inbox!Arrive(p) PROVE MailInv'
<1> USE DEF MailInv
<1>0. /\ Len(server) \in Nat /\ DOMAIN server = 1 .. Len(server)
      /\ ses.next \in Nat /\ plan.old \in Nat /\ plan.fetch \in SUBSET Nat
      /\ plan.skipped \in Nat /\ plan.largest \in Nat
  BY MailFacts
<1>u. /\ server' = Append(server, p)
      /\ UNCHANGED <<gone, validity, known, uidNext, rows, local, preKnown, available, download,
                     downloading, resync, ses, stage, plan, todo, faults, first, removed, had, torn, reported>>
  BY DEF Inbox!Arrive, Inbox!tables, Inbox!memory, Inbox!history
<1>1. /\ server' \in Seq(Inbox!Parts) /\ Len(server') = Len(server) + 1
      /\ DOMAIN server' = 1 .. Len(server) + 1
      /\ \A i \in 1 .. Len(server) : server'[i] = server[i]
      /\ server'[Len(server) + 1] = p
  BY <1>u, AppendProperties, LenProperties DEF MailTypes
<1>2. MailTypes'
  <2>1. \A i \in DOMAIN server' : server'[i] \in Inbox!Parts BY <1>1, LenProperties
  <2>2. Inbox!TypeOK' BY <1>0, <1>u, <1>1, <2>1 DEF MailTypes, Inbox!TypeOK, Inbox!Range
  <2> QED BY <1>u, <1>1, <2>2 DEF MailTypes
<1>3. Numbered' BY <1>0, <1>u, <1>1 DEF Numbered, MailTypes
<1>4. Completed' BY <1>u DEF Completed
<1>5. ASSUME NEW u \in 1 .. Len(server), Kept(u) PROVE Kept(u)'
  <2>1. Inbox!Live(u)' => Inbox!Live(u) /\ server'[u] = server[u] BY <1>0, <1>u, <1>1 DEF Inbox!Live
  <2>2. \A m : Inbox!Exists(m) => Inbox!Exists(m)' BY <1>u DEF Inbox!Exists
  <2> QED BY <1>u, <1>5, <2>1, <2>2, KeptStays
<1>6. Planned'
  <2> SUFFICES ASSUME stage \in {"fetching", "uidnext"} PROVE Planned'
    BY <1>u DEF Planned
  <2>1. /\ plan.old = uidNext /\ plan.skipped <= Len(server) /\ plan.largest <= Len(server)
        /\ \A v \in plan.fetch : plan.largest < v /\ v <= Len(server)
        /\ plan.ok => plan.fetch = {}
        /\ \A u \in uidNext .. Len(server) : Covered(u) => Kept(u) \/ u \in plan.fetch
    BY DEF Planned
  <2>2. ses.next <= Len(server) + 1 BY DEF Numbered
  <2>3. ASSUME NEW u \in uidNext .. Len(server'), Covered(u)' PROVE Kept(u)' \/ u \in plan.fetch'
    <3>1. Covered(u) BY <1>u, <2>3 DEF Covered
    <3>2. u \in Nat /\ u <= Len(server) + 1 BY <1>0, <1>1 DEF MailTypes
    <3>3. u <= Len(server) BY <1>0, <2>1, <2>2, <3>1, <3>2 DEF Covered
    <3>4. Kept(u) \/ u \in plan.fetch BY <2>1, <3>1, <3>3
    <3>5. CASE u = 0 BY <3>5, <1>1 DEF Kept, Inbox!Live
    <3>6. CASE u # 0 BY <1>u, <1>5, <3>2, <3>3, <3>4, <3>6
    <3> QED BY <3>5, <3>6
  <2>4. \A v \in plan'.fetch : plan'.largest < v /\ v <= Len(server') BY <1>0, <1>1, <1>u, <2>1
  <2>5. plan'.skipped <= Len(server') /\ plan'.largest <= Len(server') BY <1>0, <1>1, <1>u, <2>1
  <2>6. plan'.old = uidNext' /\ (plan'.ok => plan'.fetch = {}) BY <1>u, <2>1
  <2> QED BY <1>u, <2>3, <2>4, <2>5, <2>6 DEF Planned
<1>7. Inbox!MailKept'
  <2>1. Inbox!ReadIsKept'
    <3> SUFFICES ASSUME known = validity, NEW u \in first .. uidNext - 1 PROVE Kept(u)'
      BY <1>u DEF Inbox!ReadIsKept, Kept
    <3>1. Kept(u) BY DEF Inbox!MailKept, Inbox!ReadIsKept, Kept
    <3>2. u \in Int /\ u <= Len(server) BY <1>0 DEF Numbered, MailTypes
    <3>3. CASE u \in 1 .. Len(server) BY <1>5, <3>1, <3>3
    <3>4. CASE u \notin 1 .. Len(server)
      <4>1. u \notin 1 .. Len(server') BY <1>0, <1>1, <3>2, <3>4
      <4> QED BY <4>1 DEF Kept, Inbox!Live
    <3> QED BY <3>3, <3>4
  <2> QED BY <1>u, <2>1 DEF Inbox!MailKept, Inbox!NeverDeletedUnread, Inbox!InProgressIsQueued
<1> QED BY <1>2, <1>3, <1>4, <1>6, <1>7

(* The messages the folder has lost are nobody's concern, and what was kept   *)
(* once stays: a step that leaves the numbers and the plan alone.             *)
LEMMA StillRead ==
    ASSUME MailInv, MailTypes', Numbered', Completed',
           UNCHANGED <<server, validity, known, uidNext, first>>,
           gone \subseteq gone', reported \subseteq reported',
           \A m \in Msgs : Inbox!Exists(m) => Inbox!Exists(m)',
           UNCHANGED <<plan, ses, stage>> \/ stage' \notin {"fetching", "uidnext"},
           Inbox!NeverDeletedUnread', Inbox!InProgressIsQueued'
    PROVE  MailInv'
<1> USE DEF MailInv
<1>1. ASSUME NEW u, Kept(u) PROVE Kept(u)'
  <2>1. Inbox!Live(u)' => Inbox!Live(u) /\ server'[u] = server[u] BY DEF Inbox!Live
  <2> QED BY <1>1, <2>1, KeptStays
<1>2. Inbox!ReadIsKept'
  <2> SUFFICES ASSUME known = validity, NEW u \in first .. uidNext - 1 PROVE Kept(u)'
    BY DEF Inbox!ReadIsKept, Kept
  <2>1. Kept(u) BY DEF Inbox!MailKept, Inbox!ReadIsKept, Kept
  <2> QED BY <1>1, <2>1
<1>3. Planned'
  <2>1. CASE stage' \notin {"fetching", "uidnext"} BY <2>1 DEF Planned
  <2>2. CASE stage \in {"fetching", "uidnext"} /\ UNCHANGED <<plan, ses, stage>>
    <3>1. ASSUME NEW u \in uidNext .. Len(server), Covered(u)' PROVE Kept(u)' \/ u \in plan.fetch
      <4>1. Covered(u) BY <2>2, <3>1 DEF Covered
      <4>2. Kept(u) \/ u \in plan.fetch BY <2>2, <4>1 DEF Planned
      <4> QED BY <1>1, <4>2
    <3>2. /\ plan.old = uidNext /\ plan.skipped <= Len(server) /\ plan.largest <= Len(server)
          /\ \A v \in plan.fetch : plan.largest < v /\ v <= Len(server)
          /\ plan.ok => plan.fetch = {}
      BY <2>2 DEF Planned
    <3> QED BY <2>2, <3>1, <3>2 DEF Planned
  <2> QED BY <2>1, <2>2
<1> QED BY <1>2, <1>3 DEF Inbox!MailKept

LEMMA VanishOK ==
    ASSUME Folder, MailInv, NEW u \in 1 .. Len(server), Inbox!Vanish(u) PROVE MailInv'
<1> USE DEF MailInv
<1>0. DOMAIN server = 1 .. Len(server) BY MailFacts
<1>u. /\ gone' = gone \union {u}
      /\ UNCHANGED <<server, validity, known, uidNext, rows, local, preKnown, available, download,
                     downloading, resync, ses, stage, plan, todo, first, removed, had, torn, reported>>
  BY DEF Inbox!Vanish, Inbox!tables, Inbox!memory, Inbox!history
<1>1. MailTypes' BY <1>0, <1>u DEF MailTypes, Inbox!TypeOK
<1>2. Numbered' /\ Completed' BY <1>u DEF Numbered, Completed
<1>3. Inbox!NeverDeletedUnread' /\ Inbox!InProgressIsQueued'
  BY <1>u DEF Inbox!MailKept, Inbox!NeverDeletedUnread, Inbox!InProgressIsQueued
<1>4. \A m : Inbox!Exists(m) => Inbox!Exists(m)' BY <1>u DEF Inbox!Exists
<1> QED BY <1>u, <1>1, <1>2, <1>3, <1>4, StillRead

LEMMA NewValidityOK == ASSUME Folder, MailInv, Inbox!NewValidity PROVE MailInv'
<1> USE DEF MailInv
<1>0. DOMAIN server = 1 .. Len(server) /\ Len(server) \in Nat
      /\ \A i \in 1 .. Len(server) : server[i] \in Inbox!Parts
  BY MailFacts
<1>u. /\ ~ses.sel /\ stage = "start" /\ validity' = validity + 1 /\ gone' = {}
      /\ UNCHANGED <<known, uidNext, rows, local, preKnown, available, download,
                     downloading, resync, ses, stage, plan, todo, faults, first, removed, had, torn, reported>>
  BY DEF Inbox!NewValidity, Inbox!tables, Inbox!memory, Inbox!history
<1>1. PICK n \in 0 .. Len(server) : \E f \in [1 .. n -> DOMAIN server \ gone] :
          server' = [i \in 1 .. n |-> server[f[i]]]
  BY DEF Inbox!NewValidity
<1>2. PICK f \in [1 .. n -> DOMAIN server \ gone] : server' = [i \in 1 .. n |-> server[f[i]]]
  BY <1>1
<1>3. n \in Nat /\ DOMAIN server' = 1 .. n /\ \A i \in 1 .. n : server'[i] \in Inbox!Parts
  BY <1>0, <1>2
<1>4. server' \in Seq(Inbox!Parts)
  <2>1. server' \in [1 .. n -> Inbox!Parts] BY <1>0, <1>2
  <2> QED BY <1>3, <2>1, SeqDef
<1>5. MailTypes'
  <2>1. Inbox!TypeOK' BY <1>u, <1>3 DEF MailTypes, Inbox!TypeOK, Inbox!Range
  <2> QED BY <1>u, <1>4, <2>1 DEF MailTypes
<1>6. known' # validity' BY <1>u DEF MailTypes
<1>7. Numbered' /\ Completed' /\ Planned' BY <1>u, <1>6 DEF Numbered, Completed, Planned
<1>8. Inbox!MailKept'
  BY <1>u, <1>6 DEF Inbox!MailKept, Inbox!ReadIsKept, Inbox!NeverDeletedUnread, Inbox!InProgressIsQueued
<1> QED BY <1>5, <1>7, <1>8

(* select_with_uidvalidity leaves tables that are about the folder as it is   *)
(* numbered now, and passes over nothing.                                     *)
LEMMA SelectedFolder ==
    ASSUME MailInv, NEW s, s = Inbox!Selected
    PROVE  /\ s.known = validity /\ s.uidNext \in Nat /\ s.uidNext <= Len(server) + 1 /\ s.first \in Nat
           /\ s.rows = {} \/ (known = validity /\ s.rows = rows)
           /\ s.ses \in Sessions /\ s.ses.sel /\ s.ses.next <= Len(server) + 1
           /\ \A u \in s.first .. s.uidNext - 1 : Kept(u)
<1> USE DEF MailInv
<1>0. Len(server) \in Nat /\ ses.sel \in BOOLEAN /\ ses.next \in Nat /\ ses.newMail \in BOOLEAN
  BY MailFacts
<1>1. CASE known # validity
  <2>1. s = [uidNext |-> Len(server) + 1, known |-> validity, rows |-> {}, first |-> Len(server) + 1,
             resync |-> resync \/ known # 0,
             ses |-> [sel |-> TRUE, next |-> IF ses.sel THEN ses.next ELSE Len(server) + 1, newMail |-> TRUE]]
    BY <1>1 DEF Inbox!Selected
  <2>2. s.ses \in Sessions /\ s.ses.sel /\ s.ses.next <= Len(server) + 1
    BY <1>0, <2>1 DEF Sessions, Numbered
  <2>3. s.first .. s.uidNext - 1 = {} BY <1>0, <2>1
  <2> QED BY <1>0, <2>1, <2>2, <2>3
<1>2. CASE known = validity
  <2>1. s = [uidNext |-> uidNext, known |-> known, rows |-> rows, resync |-> resync, first |-> first,
             ses |-> IF ses.sel THEN ses
                     ELSE [sel |-> TRUE, next |-> Len(server) + 1,
                           newMail |-> ses.newMail \/ Len(server) + 1 # uidNext]]
    BY <1>2 DEF Inbox!Selected
  <2>2. s.ses \in Sessions /\ s.ses.sel /\ s.ses.next <= Len(server) + 1
    <3>1. CASE ses.sel BY <2>1, <3>1 DEF Numbered, MailTypes
    <3>2. CASE ~ses.sel
      <4>1. PICK b \in BOOLEAN : b = (ses.newMail \/ Len(server) + 1 # uidNext) OBVIOUS
      <4>2. s.ses = [sel |-> TRUE, next |-> Len(server) + 1, newMail |-> b] BY <2>1, <3>2, <4>1
      <4> QED BY <1>0, <4>2 DEF Sessions
    <3> QED BY <3>1, <3>2
  <2>3. \A u \in first .. uidNext - 1 : Kept(u) BY <1>2 DEF Inbox!MailKept, Inbox!ReadIsKept, Kept
  <2> QED BY <1>2, <2>1, <2>2, <2>3 DEF MailTypes, Numbered
<1> QED BY <1>1, <1>2

(* A step that selects the folder. *)
LEMMA SelectingOK ==
    ASSUME MailInv, NEW s, s = Inbox!Selected,
           known' = s.known, uidNext' = s.uidNext, first' = s.first,
           ses' \in Sessions, ses'.sel, ses'.next = s.ses.next,
           stage' \in {"start", "fetch", "batch", "clean"},
           rows' \subseteq RowRecords,
           \A r \in rows' : /\ r.uid \in DOMAIN server /\ server[r.uid] = r.part
                            /\ r.del /\ r.part[2] = "body" => r.part[1] \in had,
           UNCHANGED <<server, gone, validity, local, preKnown, available, download, downloading,
                       plan, todo, faults, removed, had, torn, reported>>
    PROVE  MailInv'
<1> USE DEF MailInv
<1>1. /\ s.known = validity /\ s.uidNext \in Nat /\ s.uidNext <= Len(server) + 1 /\ s.first \in Nat
      /\ s.ses.next <= Len(server) + 1 /\ \A u \in s.first .. s.uidNext - 1 : Kept(u)
  BY SelectedFolder
<1>2. MailTypes' BY <1>1 DEF MailTypes, Inbox!TypeOK
<1>3. Numbered' BY <1>1 DEF Numbered
<1>4. Completed' BY DEF Completed
<1>5. Planned' BY DEF Planned
<1>6. Inbox!ReadIsKept'
  <2> SUFFICES ASSUME NEW u \in s.first .. s.uidNext - 1 PROVE Kept(u)'
    BY DEF Inbox!ReadIsKept, Kept
  <2>1. Kept(u) BY <1>1
  <2>2. Inbox!Live(u)' <=> Inbox!Live(u) BY DEF Inbox!Live
  <2>3. \A m : Inbox!Exists(m)' <=> Inbox!Exists(m) BY DEF Inbox!Exists
  <2> QED BY <2>1, <2>2, <2>3, KeptStays
<1>7. Inbox!MailKept'
  BY <1>6 DEF Inbox!MailKept, Inbox!NeverDeletedUnread, Inbox!InProgressIsQueued
<1> QED BY <1>2, <1>3, <1>4, <1>5, <1>7

(* The rows that selecting leaves. *)
LEMMA SelectedRows ==
    ASSUME MailInv, NEW s, s = Inbox!Selected
    PROVE  /\ s.rows \subseteq RowRecords
           /\ \A r \in s.rows : /\ r.uid \in DOMAIN server /\ server[r.uid] = r.part
                                /\ r.del /\ r.part[2] = "body" => r.part[1] \in had
<1>1. s.rows = {} \/ (known = validity /\ s.rows = rows) BY SelectedFolder
<1> QED BY <1>1 DEF MailInv, MailTypes, Numbered, Completed

LEMMA SessionWith ==
    ASSUME NEW t \in Sessions, NEW b \in BOOLEAN, NEW v, v = [t EXCEPT !.newMail = b]
    PROVE  v \in Sessions /\ v.sel = t.sel /\ v.next = t.next
BY DEF Sessions

LEMMA ResyncOK == ASSUME Folder, MailInv, Inbox!Resync PROVE MailInv'
<1>0. /\ DOMAIN server = 1 .. Len(server) /\ Len(server) \in Nat
      /\ \A i \in 1 .. Len(server) : server[i] \in Inbox!Parts
  BY MailFacts DEF MailInv
<1>1. PICK s : s = Inbox!Selected OBVIOUS
<1>2. /\ known' = s.known /\ uidNext' = s.uidNext /\ ses' = s.ses /\ first' = s.first /\ stage' = "fetch"
      /\ UNCHANGED <<server, gone, validity, local, preKnown, available, download, downloading,
                     plan, todo, faults, removed, had, torn, reported>>
      /\ rows' = {[uid |-> u, part |-> server[u], del |-> FALSE] :
                    u \in {v \in 1 .. Len(server) : Inbox!Live(v)}}
  BY <1>1 DEF Inbox!Resync
<1>3. s.ses \in Sessions /\ s.ses.sel BY <1>1, SelectedFolder
<1>4. ASSUME NEW r \in rows'
      PROVE  r \in RowRecords /\ r.uid \in DOMAIN server /\ server[r.uid] = r.part /\ ~r.del
  <2>1. PICK u \in 1 .. Len(server) : r = [uid |-> u, part |-> server[u], del |-> FALSE] BY <1>2
  <2> QED BY <1>0, <2>1 DEF RowRecords
<1> QED BY <1>1, <1>2, <1>3, <1>4, SelectingOK

LEMMA StartFetchOK == ASSUME Folder, MailInv, Inbox!StartFetch PROVE MailInv'
<1>1. PICK s : s = Inbox!Selected OBVIOUS
<1>2. /\ known' = s.known /\ uidNext' = s.uidNext /\ rows' = s.rows /\ first' = s.first
      /\ ses' = [s.ses EXCEPT !.newMail = FALSE] /\ stage' \in {"batch", "clean"}
      /\ UNCHANGED <<server, gone, validity, local, preKnown, available, download, downloading,
                     plan, todo, faults, removed, had, torn, reported>>
  BY <1>1 DEF Inbox!StartFetch
<1>3. s.ses \in Sessions /\ s.ses.sel BY <1>1, SelectedFolder
<1>4. ses' \in Sessions /\ ses'.sel /\ ses'.next = s.ses.next BY <1>2, <1>3, SessionWith
<1> QED BY <1>1, <1>2, <1>4, SelectingOK, SelectedRows

LEMMA IdleOK == ASSUME Folder, MailInv, Inbox!Idle PROVE MailInv'
<1>1. PICK s : s = Inbox!Selected OBVIOUS
<1>2. /\ stage = "idle" /\ stage' = "start"
      /\ UNCHANGED <<server, gone, validity, local, preKnown, available, download, downloading,
                     plan, todo, faults, removed, had, torn, reported>>
  BY DEF Inbox!Idle
<1>3. CASE CanIdle
  <2>1. /\ known' = s.known /\ uidNext' = s.uidNext /\ rows' = s.rows /\ first' = s.first
        /\ ses' = [s.ses EXCEPT !.newMail = TRUE]
    BY <1>1, <1>3 DEF Inbox!Idle
  <2>2. s.ses \in Sessions /\ s.ses.sel BY <1>1, SelectedFolder
  <2>3. ses' \in Sessions /\ ses'.sel /\ ses'.next = s.ses.next BY <2>1, <2>2, SessionWith
  <2> QED BY <1>1, <1>2, <2>1, <2>3, SelectingOK, SelectedRows
<1>4. CASE ~CanIdle
  <2>1. UNCHANGED <<known, uidNext, rows, ses, first>> BY <1>4 DEF Inbox!Idle
  <2>2. MailTypes' BY <1>2, <2>1 DEF MailInv, MailTypes, Inbox!TypeOK
  <2>3. Numbered' BY <1>2, <2>1 DEF MailInv, Numbered
  <2>4. Completed' BY <1>2, <2>1 DEF MailInv, Completed
  <2>5. Inbox!NeverDeletedUnread' /\ Inbox!InProgressIsQueued'
    BY <1>2 DEF MailInv, Inbox!MailKept, Inbox!NeverDeletedUnread, Inbox!InProgressIsQueued
  <2>6. \A m : Inbox!Exists(m) => Inbox!Exists(m)' BY <1>2 DEF Inbox!Exists
  <2> QED BY <1>2, <2>1, <2>2, <2>3, <2>4, <2>5, <2>6, StillRead
<1> QED BY <1>3, <1>4

(* Steps of the loop, or its end, that change only what it has in memory.     *)
LEMMA InMemoryOK ==
    ASSUME MailInv, stage' \in {"start", "fetch", "downloads", "idle"},
           stage' \in {"downloads", "idle"} => stage \in {"known", "downloads"},
           ses' \in Sessions, ses'.sel => ses' = ses, plan' \in Plans, todo' \subseteq Msgs,
           downloading' \subseteq Msgs, downloading \subseteq downloading' \union torn', torn \subseteq torn',
           UNCHANGED <<server, gone, validity, known, uidNext, rows, local, preKnown, available,
                       download, first, removed, had, reported>>
    PROVE  MailInv'
<1> USE DEF MailInv
<1>1. MailTypes' BY DEF MailTypes, Inbox!TypeOK
<1>2. Numbered' BY DEF Numbered
<1>3. Completed' BY DEF Completed
<1>4. Inbox!NeverDeletedUnread' /\ Inbox!InProgressIsQueued'
  BY DEF Inbox!MailKept, Inbox!NeverDeletedUnread, Inbox!InProgressIsQueued
<1>5. \A m : Inbox!Exists(m) => Inbox!Exists(m)' BY DEF Inbox!Exists
<1> QED BY <1>1, <1>2, <1>3, <1>4, <1>5, StillRead

LEMMA Nothing == Inbox!NoSession \in Sessions /\ ~Inbox!NoSession.sel /\ Inbox!NoPlan \in Plans
BY DEF Inbox!NoSession, Inbox!NoPlan, Sessions, Plans

LEMMA BreaksOK ==
    ASSUME Folder, MailInv,
           Inbox!NoResync \/ Inbox!Interrupted \/ Inbox!Crash \/ Inbox!KnownDone \/ Inbox!DownloadsDone
    PROVE  MailInv'
<1>0. /\ ses \in Sessions /\ plan \in Plans
      /\ todo \subseteq Msgs /\ downloading \subseteq Msgs /\ download \subseteq Msgs
  BY DEF MailInv, MailTypes, Inbox!TypeOK
<1>1. CASE Inbox!NoResync
  BY <1>0, <1>1, InMemoryOK DEF Inbox!NoResync, Inbox!tables, Inbox!history
<1>2. CASE Inbox!Interrupted
  BY <1>0, <1>2, InMemoryOK, Nothing DEF Inbox!Interrupted, Inbox!tables, Inbox!history
<1>3. CASE Inbox!Crash
  BY <1>0, <1>3, InMemoryOK, Nothing DEF Inbox!Crash, Inbox!tables
<1>4. CASE Inbox!KnownDone
  BY <1>0, <1>4, InMemoryOK DEF Inbox!KnownDone, Inbox!StageDone, Inbox!tables, Inbox!history
<1>5. CASE Inbox!DownloadsDone
  BY <1>0, <1>5, InMemoryOK DEF Inbox!DownloadsDone, Inbox!StageDone, Inbox!tables, Inbox!history
<1> QED BY <1>1, <1>2, <1>3, <1>4, <1>5
(* receive_imf, or its failure. *)
Reception(p) ==
    (Inbox!Received(p) /\ UNCHANGED <<faults, reported>>) \/ Inbox!ReceiveFails(p)

LEMMA ReceptionOK ==
    ASSUME MailTypes, Completed, NEW p \in Inbox!Parts, Reception(p)
    PROVE  /\ local' \in [Msgs -> {"none", "Available", "InProgress", "Failure", "Done", "deleted"}]
           /\ preKnown' \subseteq Msgs /\ had \subseteq had' /\ reported \subseteq reported'
           /\ \A m \in Msgs : Inbox!Exists(m) => Inbox!Exists(m)'
           /\ local'[p[1]] # "none" \/ p[1] \in reported'
           /\ \A m \in Msgs : local'[m] = "InProgress" =>
                local[m] = "InProgress" /\ (m = p[1] /\ p[2] = "body" => m \in reported')
           /\ \A m \in Msgs : local'[m] \in {"Available", "InProgress", "Failure"} => m \in Inbox!Posts
           /\ \A m \in Msgs : local'[m] \in {"Done", "deleted"} => m \in had'
<1>0. /\ local \in [Msgs -> {"none", "Available", "InProgress", "Failure", "Done", "deleted"}]
      /\ preKnown \subseteq Msgs
  BY DEF MailTypes, Inbox!TypeOK
<1>1. p[1] \in Msgs /\ p[2] \in {"body", "pre"} /\ (p[2] = "pre" => p[1] \in Inbox!Posts) BY PartsOf
<1>2. CASE Inbox!ReceiveFails(p)
  <2>1. reported' = reported \union {p[1]} /\ UNCHANGED <<local, preKnown, had>>
    BY <1>2 DEF Inbox!ReceiveFails
  <2> QED BY <1>0, <2>1 DEF Completed, Inbox!Exists
<1>3. CASE Inbox!Received(p) /\ UNCHANGED <<faults, reported>>
  <2>1. PICK complete \in BOOLEAN :
          complete = (p[2] = "body" /\ local[p[1]] \in {"none", "Available", "InProgress", "Failure"}
                      /\ (Inbox!Exists(p[1]) => p[1] \in Inbox!Posts))
    OBVIOUS
  <2>2. /\ local' = [local EXCEPT ![p[1]] =
                       IF complete THEN "Done"
                       ELSE IF p[2] = "pre" /\ ~Inbox!Exists(p[1]) THEN "Available" ELSE @]
        /\ preKnown' = IF p[2] = "pre" THEN preKnown \union {p[1]} ELSE preKnown
        /\ had' = IF complete THEN had \union {p[1]} ELSE had
    BY <1>3, <2>1 DEF Inbox!Received
  <2>3. \A m \in Msgs : m # p[1] => local'[m] = local[m] BY <1>0, <2>2
  <2>4. local'[p[1]] = IF complete THEN "Done"
                       ELSE IF p[2] = "pre" /\ ~Inbox!Exists(p[1]) THEN "Available" ELSE local[p[1]]
    BY <1>0, <1>1, <2>2
  <2>5. local' \in [Msgs -> {"none", "Available", "InProgress", "Failure", "Done", "deleted"}]
    BY <1>0, <1>1, <2>2
  <2>6. preKnown' \subseteq Msgs /\ had \subseteq had' BY <1>0, <1>1, <2>2
  <2>7. local'[p[1]] # "none" BY <1>0, <1>1, <2>1, <2>4 DEF Inbox!Exists
  <2>8. local'[p[1]] = "InProgress" => local[p[1]] = "InProgress" /\ p[2] = "pre"
    BY <1>0, <1>1, <2>1, <2>4 DEF Inbox!Exists, Completed
  <2>9. local'[p[1]] \in {"Available", "InProgress", "Failure"} => p[1] \in Inbox!Posts
    BY <1>0, <1>1, <2>1, <2>4 DEF Completed
  <2>10. local'[p[1]] \in {"Done", "deleted"} => p[1] \in had'
    BY <1>0, <1>1, <2>1, <2>2, <2>4 DEF Completed
  <2>11. \A m \in Msgs : m # p[1] =>
           /\ Inbox!Exists(m) => Inbox!Exists(m)'
           /\ local'[m] = "InProgress" => local[m] = "InProgress"
           /\ local'[m] \in {"Available", "InProgress", "Failure"} => m \in Inbox!Posts
           /\ local'[m] \in {"Done", "deleted"} => m \in had'
    BY <2>3, <2>6 DEF Inbox!Exists, Completed
  <2> QED BY <1>1, <1>3, <2>5, <2>6, <2>7, <2>8, <2>9, <2>10, <2>11 DEF Inbox!Exists
<1> QED BY <1>2, <1>3 DEF Reception

LEMMA PrefetchOK == ASSUME Folder, MailInv, Inbox!Prefetch PROVE MailInv'
<1> USE DEF MailInv
<1>0. /\ Len(server) \in Nat /\ DOMAIN server = 1 .. Len(server) /\ uidNext \in Nat /\ Batch \in Nat \ {0}
      /\ \A i \in 1 .. Len(server) : server[i] \in Inbox!Parts
  BY MailFacts DEF MailTypes, Folder
<1>1. PICK shown : shown = {u \in uidNext .. (uidNext + Batch - 1) : Inbox!Live(u)} OBVIOUS
<1>2. PICK ready : ready = {u \in shown : Inbox!Wanted(u) /\ Inbox!FetchNow(server[u])} OBVIOUS
<1>3. PICK avail : avail = {server[u][1] : u \in {u \in shown \ ready : Inbox!Wanted(u) /\ server[u][1] \in Inbox!Posts}}
  OBVIOUS
<1>4. PICK later :
        later = {server[u][1] : u \in {u \in shown \ ready : Inbox!Wanted(u) /\ KindOf[server[u][1]] # "bigpost"}}
  OBVIOUS
<1>5. PICK skipped : skipped = Inbox!Max({0} \union (shown \ ready)) OBVIOUS
<1>6. /\ stage = "batch" /\ stage' = "fetching"
      /\ rows' = {r \in rows : r.uid \notin shown}
                 \union {[uid |-> u, part |-> server[u], del |-> Inbox!DeletedLocally(server[u])] : u \in shown}
      /\ plan' = [old |-> uidNext, fetch |-> ready, avail |-> avail, later |-> later,
                  skipped |-> skipped, largest |-> 0, ok |-> FALSE]
      /\ UNCHANGED <<server, gone, validity, known, uidNext, local, preKnown, available, download,
                     downloading, resync, ses, todo, faults, first, removed, had, torn, reported>>
  BY <1>1, <1>2, <1>3, <1>4, <1>5 DEF Inbox!Prefetch, Inbox!history
<1>7. shown \subseteq 1 .. Len(server) /\ ready \subseteq shown /\ shown \subseteq Nat
  BY <1>0, <1>1, <1>2 DEF Inbox!Live
<1>8. \A u \in shown : server[u][1] \in Msgs BY <1>0, <1>7, PartsOf
<1>9. avail \subseteq Inbox!Posts /\ later \subseteq Msgs BY <1>3, <1>4, <1>8
<1>10. skipped \in {0} \union (shown \ ready)
  <2>1. PICK S : S = {0} \union (shown \ ready) OBVIOUS
  <2>2. S \in SUBSET Nat /\ S # {} /\ \A k \in S : k <= Len(server) BY <1>0, <1>7, <2>1
  <2>3. Inbox!Max(S) \in S BY <1>0, <2>2, Greatest
  <2> QED BY <1>5, <2>1, <2>3
<1>11. skipped \in Nat /\ skipped <= Len(server) BY <1>0, <1>7, <1>10
<1>12. plan' \in Plans BY <1>0, <1>6, <1>7, <1>9, <1>11 DEF Plans
<1>13. ASSUME NEW r \in rows'
       PROVE  /\ r \in RowRecords /\ r.uid \in DOMAIN server /\ server[r.uid] = r.part
              /\ r.del /\ r.part[2] = "body" => r.part[1] \in had
  <2>1. CASE r \in rows BY <1>6, <2>1 DEF MailTypes, Numbered, Completed
  <2>2. CASE \E u \in shown : r = [uid |-> u, part |-> server[u], del |-> Inbox!DeletedLocally(server[u])]
    <3>1. PICK u \in shown : r = [uid |-> u, part |-> server[u], del |-> Inbox!DeletedLocally(server[u])]
      BY <2>2
    <3>2. PICK b \in BOOLEAN : b = Inbox!DeletedLocally(server[u]) BY DEF Inbox!DeletedLocally
    <3>3. r = [uid |-> u, part |-> server[u], del |-> b] BY <3>1, <3>2
    <3>4. u \in 1 .. Len(server) /\ u \in Nat /\ server[u] \in Inbox!Parts BY <1>0, <1>7
    <3>5. r \in RowRecords /\ r.uid = u /\ r.part = server[u] /\ r.del = b BY <3>3, <3>4 DEF RowRecords
    <3>6. b => local[server[u][1]] = "deleted" BY <3>2 DEF Inbox!DeletedLocally
    <3>7. b => server[u][1] \in had BY <1>8, <3>6 DEF Completed
    <3> QED BY <1>0, <3>4, <3>5, <3>7
  <2> QED BY <1>6, <2>1, <2>2
<1>14. MailTypes' BY <1>6, <1>12, <1>13 DEF MailTypes, Inbox!TypeOK
<1>15. Numbered' BY <1>6, <1>13 DEF Numbered
<1>16. Completed' BY <1>6, <1>13 DEF Completed
<1>17. \A u : Kept(u)' <=> Kept(u)
  BY <1>6 DEF Kept, Inbox!Live, Inbox!Exists, Inbox!FetchNow
<1>18. ASSUME NEW u \in uidNext .. Len(server), Covered(u)' PROVE Kept(u) \/ u \in ready
  <2>1. u < uidNext + Batch
    BY <1>0, <1>1, <1>6, <1>7, <1>10, <1>18 DEF Covered
  <2>2. Inbox!Live(u) => u \in shown BY <1>0, <1>1, <2>1
  <2>3. Inbox!Live(u) /\ Inbox!FetchNow(server[u]) /\ u \notin ready => ~Inbox!Wanted(u) BY <1>2, <2>2
  <2>4. Inbox!Live(u) /\ ~Inbox!Wanted(u) /\ Inbox!FetchNow(server[u]) => Inbox!Exists(server[u][1])
    BY <1>8, <2>2 DEF Inbox!Wanted, Inbox!DeletedLocally, Inbox!ShouldDownload, Inbox!Exists
  <2> QED BY <2>3, <2>4 DEF Kept
<1>19. Planned'
  <2>1. \A v \in plan'.fetch : plan'.largest < v /\ v <= Len(server')
    <3>1. plan'.fetch = ready /\ plan'.largest = 0 /\ server' = server BY <1>6
    <3>2. \A v \in ready : 0 < v /\ v <= Len(server) BY <1>0, <1>7
    <3> QED BY <3>1, <3>2
  <2>2. plan'.old = uidNext' /\ plan'.skipped <= Len(server') /\ plan'.largest <= Len(server')
        /\ plan'.ok = FALSE
    BY <1>0, <1>6, <1>11
  <2>3. \A u \in uidNext' .. Len(server') : Covered(u)' => Kept(u)' \/ u \in plan'.fetch
    BY <1>6, <1>17, <1>18
  <2> QED BY <2>1, <2>2, <2>3 DEF Planned
<1>20. Inbox!MailKept'
  <2>1. Inbox!ReadIsKept'
    BY <1>6, <1>17 DEF Inbox!MailKept, Inbox!ReadIsKept, Kept
  <2> QED BY <1>6, <2>1 DEF Inbox!MailKept, Inbox!NeverDeletedUnread, Inbox!InProgressIsQueued
<1> QED BY <1>14, <1>15, <1>16, <1>19, <1>20
(* fetch_many_msgs goes through the UIDs in ascending order. *)
LEMMA FetchOneOK == ASSUME Folder, MailInv, Inbox!FetchOne PROVE MailInv'
<1> USE DEF MailInv
<1>0. /\ Len(server) \in Nat /\ DOMAIN server = 1 .. Len(server) /\ uidNext \in Nat
      /\ \A i \in 1 .. Len(server) : server[i] \in Inbox!Parts
      /\ plan \in Plans /\ plan.fetch \in SUBSET Nat /\ plan.largest \in Nat
      /\ plan.old \in Nat /\ plan.skipped \in Nat /\ ses.next \in Nat /\ Batch \in Nat
  BY MailFacts DEF MailTypes, Folder
<1>1. PICK u : u = Inbox!Min(plan.fetch) OBVIOUS
<1>2. /\ stage = "fetching" /\ plan.fetch # {}
      /\ UNCHANGED <<server, gone, validity, known, uidNext, rows, available, download, downloading,
                     resync, ses, stage, todo, first, removed, torn>>
  BY DEF Inbox!FetchOne
<1>3. u \in plan.fetch /\ \A k \in plan.fetch : u <= k BY <1>0, <1>1, <1>2, Smallest
<1>4. /\ plan.old = uidNext /\ plan.skipped <= Len(server) /\ plan.largest <= Len(server)
      /\ \A v \in plan.fetch : plan.largest < v /\ v <= Len(server)
      /\ \A v \in uidNext .. Len(server) : Covered(v) => Kept(v) \/ v \in plan.fetch
  BY <1>2 DEF Planned
<1>5. u \in Nat /\ u \in 1 .. Len(server) /\ server[u] \in Inbox!Parts BY <1>0, <1>3, <1>4
<1>6. /\ plan' = IF Inbox!Live(u) THEN [plan EXCEPT !.fetch = @ \ {u}, !.largest = u]
                 ELSE [plan EXCEPT !.fetch = @ \ {u}]
      /\ Inbox!Live(u) => Reception(server[u])
      /\ ~Inbox!Live(u) => UNCHANGED <<local, preKnown, had, faults, reported>>
  BY <1>1 DEF Inbox!FetchOne, Reception
<1>7. /\ plan' \in Plans /\ plan'.fetch = plan.fetch \ {u}
      /\ plan'.old = plan.old /\ plan'.skipped = plan.skipped /\ plan'.ok = plan.ok
      /\ plan'.largest = IF Inbox!Live(u) THEN u ELSE plan.largest
  BY <1>0, <1>5, <1>6 DEF Plans
<1>8. /\ local' \in [Msgs -> {"none", "Available", "InProgress", "Failure", "Done", "deleted"}]
      /\ preKnown' \subseteq Msgs /\ had \subseteq had' /\ reported \subseteq reported'
      /\ \A m \in Msgs : Inbox!Exists(m) => Inbox!Exists(m)'
      /\ Inbox!Live(u) => local'[server[u][1]] # "none" \/ server[u][1] \in reported'
      /\ \A m \in Msgs : local'[m] = "InProgress" => local[m] = "InProgress"
      /\ \A m \in Msgs : local'[m] \in {"Available", "InProgress", "Failure"} => m \in Inbox!Posts
      /\ \A m \in Msgs : local'[m] \in {"Done", "deleted"} => m \in had'
  <2>1. CASE Inbox!Live(u) BY <1>5, <1>6, <2>1, ReceptionOK
  <2>2. CASE ~Inbox!Live(u) BY <1>6, <2>2 DEF MailTypes, Inbox!TypeOK, Completed, Inbox!Exists
  <2> QED BY <2>1, <2>2
<1>9. MailTypes' BY <1>2, <1>7, <1>8 DEF MailTypes, Inbox!TypeOK
<1>10. Numbered' BY <1>2 DEF Numbered
<1>11. Completed' BY <1>2, <1>8 DEF Completed
<1>12. ASSUME NEW v, Kept(v) PROVE Kept(v)'
  <2>1. Inbox!Live(v)' => Inbox!Live(v) /\ server'[v] = server[v] BY <1>2 DEF Inbox!Live
  <2> QED BY <1>8, <1>12, <2>1, KeptStays
<1>13. Kept(u)'
  <2>1. Inbox!Live(u)' => Inbox!Live(u) /\ server'[u] = server[u] BY <1>2 DEF Inbox!Live
  <2>2. Inbox!Live(u) => local'[server[u][1]] # "none" \/ server[u][1] \in reported' BY <1>8
  <2> QED BY <1>2, <2>1, <2>2 DEF Kept, Inbox!Exists
<1>14. ASSUME NEW v \in uidNext .. Len(server), Covered(v)' PROVE Kept(v)' \/ v \in plan'.fetch
  <2>1. Covered(v)
    <3>1. CASE v <= plan'.largest BY <1>3, <1>7, <3>1 DEF Covered
    <3>2. CASE v <= plan'.skipped \/ (v < plan'.old + Batch /\ v < ses'.next)
      BY <1>2, <1>7, <3>2 DEF Covered
    <3>3. CASE \E w \in plan'.fetch : v <= w BY <1>7, <3>3 DEF Covered
    <3> QED BY <1>14, <3>1, <3>2, <3>3 DEF Covered
  <2>2. Kept(v) \/ v \in plan.fetch BY <1>4, <2>1
  <2> QED BY <1>7, <1>12, <1>13, <2>2
<1>15. Planned'
  <2>1. \A v \in plan'.fetch : plan'.largest < v /\ v <= Len(server')
    <3> SUFFICES ASSUME NEW v \in plan.fetch, v # u PROVE plan'.largest < v /\ v <= Len(server)
      BY <1>2, <1>7
    <3>1. v \in Nat /\ u <= v /\ plan.largest < v /\ v <= Len(server) BY <1>0, <1>3, <1>4
    <3> QED BY <1>5, <1>7, <3>1
  <2>2. plan'.old = uidNext' /\ plan'.skipped <= Len(server') /\ plan'.largest <= Len(server')
    BY <1>2, <1>4, <1>5, <1>7
  <2>3. plan'.ok => plan'.fetch = {} BY <1>2, <1>7 DEF Planned
  <2> QED BY <1>2, <1>14, <2>1, <2>2, <2>3 DEF Planned
<1>16. Inbox!MailKept'
  <2>1. Inbox!ReadIsKept'
    <3> SUFFICES ASSUME known = validity, NEW v \in first .. uidNext - 1 PROVE Kept(v)'
      BY <1>2 DEF Inbox!ReadIsKept, Kept
    <3>1. Kept(v) BY DEF Inbox!MailKept, Inbox!ReadIsKept, Kept
    <3> QED BY <1>12, <3>1
  <2> QED BY <1>2, <1>8, <2>1 DEF Inbox!MailKept, Inbox!NeverDeletedUnread, Inbox!InProgressIsQueued
<1> QED BY <1>9, <1>10, <1>11, <1>15, <1>16

LEMMA FetchEndsOK == ASSUME Folder, MailInv, Inbox!FetchEnds PROVE MailInv'
<1> USE DEF MailInv
<1>0. plan \in Plans BY DEF MailTypes
<1>1. /\ stage = "fetching" /\ stage' = "uidnext"
      /\ plan' = plan \/ (plan.fetch = {} /\ plan' = [plan EXCEPT !.ok = TRUE])
      /\ UNCHANGED <<server, gone, validity, known, uidNext, rows, local, preKnown, available,
                     download, downloading, resync, ses, todo, first, removed, had, torn, reported>>
  BY DEF Inbox!FetchEnds, Inbox!tables, Inbox!history
<1>2. /\ plan' \in Plans /\ plan'.old = plan.old /\ plan'.fetch = plan.fetch
      /\ plan'.skipped = plan.skipped /\ plan'.largest = plan.largest
      /\ plan'.ok => plan.fetch = {}
  BY <1>0, <1>1 DEF Plans, Planned
<1>3. MailTypes' BY <1>1, <1>2 DEF MailTypes, Inbox!TypeOK
<1>4. Numbered' /\ Completed' BY <1>1 DEF Numbered, Completed
<1>5. \A u : Kept(u)' <=> Kept(u) BY <1>1 DEF Kept, Inbox!Live, Inbox!Exists, Inbox!FetchNow
<1>6. \A u : Covered(u)' <=> Covered(u) BY <1>1, <1>2 DEF Covered
<1>7. /\ plan.old = uidNext /\ plan.skipped <= Len(server) /\ plan.largest <= Len(server)
      /\ \A v \in plan.fetch : plan.largest < v /\ v <= Len(server)
      /\ \A v \in uidNext .. Len(server) : Covered(v) => Kept(v) \/ v \in plan.fetch
  BY <1>1 DEF Planned
<1>8. Planned' BY <1>1, <1>2, <1>5, <1>6, <1>7 DEF Planned
<1>9. Inbox!MailKept'
  BY <1>1, <1>5 DEF Inbox!MailKept, Inbox!ReadIsKept, Inbox!NeverDeletedUnread, Inbox!InProgressIsQueued, Kept
<1> QED BY <1>3, <1>4, <1>8, <1>9

(* uid_next passes only what is covered, and nothing that is still to be      *)
(* fetched.                                                                   *)
LEMMA NewUidNextOK ==
    ASSUME Folder, MailInv, stage = "uidnext", NEW n, n = Inbox!NewUidNext(plan)
    PROVE  n \in Nat /\ n <= Len(server) + 1 /\ \A u \in uidNext .. n - 1 : Kept(u)
<1> USE DEF MailInv
<1>0. /\ Len(server) \in Nat /\ uidNext \in Nat /\ plan.fetch \in SUBSET Nat /\ plan.largest \in Nat
      /\ plan.old \in Nat /\ plan.skipped \in Nat /\ ses.next \in Nat /\ Batch \in Nat
      /\ plan.ok \in BOOLEAN
  BY MailFacts DEF MailTypes, Folder
<1>1. /\ plan.old = uidNext /\ plan.skipped <= Len(server) /\ plan.largest <= Len(server)
      /\ \A v \in plan.fetch : plan.largest < v /\ v <= Len(server)
      /\ plan.ok => plan.fetch = {}
      /\ \A v \in uidNext .. Len(server) : Covered(v) => Kept(v) \/ v \in plan.fetch
  BY DEF Planned
<1>2. ses.next <= Len(server) + 1 BY DEF Numbered
<1>3. CASE ~plan.ok
  <2>1. n = plan.largest + 1 BY <1>3 DEF Inbox!NewUidNext
  <2>2. ASSUME NEW u \in uidNext .. n - 1 PROVE Kept(u)
    <3>1. u \in uidNext .. Len(server) /\ u <= plan.largest BY <1>0, <1>1, <2>1
    <3>2. Covered(u) BY <3>1 DEF Covered
    <3>3. u \notin plan.fetch BY <1>0, <1>1, <3>1
    <3> QED BY <1>1, <3>1, <3>2, <3>3
  <2> QED BY <1>0, <1>1, <2>1, <2>2
<1>4. CASE plan.ok
  <2>1. PICK low : low = Inbox!Min({plan.old + Batch, ses.next}) OBVIOUS
  <2>2. low \in Nat /\ low <= plan.old + Batch /\ low <= ses.next
    <3>1. PICK S : S = {plan.old + Batch, ses.next} OBVIOUS
    <3>2. S \in SUBSET Nat /\ S # {} BY <1>0, <3>1
    <3>3. Inbox!Min(S) \in S /\ \A k \in S : Inbox!Min(S) <= k BY <3>2, Smallest
    <3> QED BY <1>0, <2>1, <3>1, <3>3
  <2>3. n = Inbox!Max({plan.largest + 1, low, plan.skipped + 1}) BY <1>4, <2>1 DEF Inbox!NewUidNext
  <2>4. \A k \in {plan.largest + 1, low, plan.skipped + 1} : k \in Nat /\ k <= Len(server) + 1
    BY <1>0, <1>1, <1>2, <2>2
  <2>5. n \in {plan.largest + 1, low, plan.skipped + 1}
    <3>1. PICK S : S = {plan.largest + 1, low, plan.skipped + 1} OBVIOUS
    <3>2. S \in SUBSET Nat /\ S # {} /\ \A k \in S : k <= Len(server) + 1 BY <2>4, <3>1
    <3>3. Len(server) + 1 \in Nat BY <1>0
    <3>4. Inbox!Max(S) \in S BY <3>2, <3>3, Greatest
    <3> QED BY <2>3, <3>1, <3>4
  <2>6. ASSUME NEW u \in uidNext .. n - 1 PROVE Kept(u)
    <3>1. n \in Nat /\ n <= Len(server) + 1 BY <2>4, <2>5
    <3>2. u \in uidNext .. Len(server) /\ u < n BY <1>0, <3>1
    <3>3. Covered(u)
      <4>1. u \in Nat BY <1>0, <3>2
      <4>2. u <= plan.largest \/ u < low \/ u <= plan.skipped BY <1>0, <2>2, <2>5, <3>2, <4>1
      <4>3. u < low => u < plan.old + Batch /\ u < ses.next BY <1>0, <2>2, <4>1
      <4> QED BY <4>2, <4>3 DEF Covered
    <3> QED BY <1>1, <1>4, <3>2, <3>3
  <2> QED BY <2>4, <2>5, <2>6
<1> QED BY <1>0, <1>3, <1>4

LEMMA SetUidNextOK == ASSUME Folder, MailInv, Inbox!SetUidNext PROVE MailInv'
<1> USE DEF MailInv
<1>0. Len(server) \in Nat /\ uidNext \in Nat /\ plan.ok \in BOOLEAN /\ plan \in Plans /\ ses \in Sessions
  BY MailFacts DEF MailTypes
<1>1. PICK n : n = Inbox!NewUidNext(plan) OBVIOUS
<1>2. /\ stage = "uidnext" /\ uidNext' = Inbox!Max({uidNext, n})
      /\ \/ plan.ok /\ stage' = "later" /\ UNCHANGED <<ses, plan>>
         \/ stage' = "start" /\ ses' = Inbox!NoSession /\ plan' = Inbox!NoPlan
      /\ UNCHANGED <<server, gone, validity, known, rows, local, preKnown, available, download,
                     downloading, resync, todo, faults, first, removed, had, torn, reported>>
  BY <1>0, <1>1 DEF Inbox!SetUidNext, Inbox!history
<1>3. n \in Nat /\ n <= Len(server) + 1 /\ \A u \in uidNext .. n - 1 : Kept(u)
  BY <1>1, <1>2, NewUidNextOK
<1>4. known = validity /\ uidNext <= Len(server) + 1 BY <1>2 DEF Numbered
<1>5. uidNext' \in {uidNext, n}
  <2>1. PICK S : S = {uidNext, n} OBVIOUS
  <2>2. S \in SUBSET Nat /\ S # {} /\ \A k \in S : k <= Len(server) + 1 BY <1>0, <1>3, <1>4, <2>1
  <2>3. Len(server) + 1 \in Nat BY <1>0
  <2>4. Inbox!Max(S) \in S BY <2>2, <2>3, Greatest
  <2> QED BY <1>2, <2>1, <2>4
<1>6. MailTypes' BY <1>0, <1>2, <1>3, <1>5, Nothing DEF MailTypes, Inbox!TypeOK
<1>7. Numbered' BY <1>2, <1>3, <1>4, <1>5, Nothing DEF Numbered
<1>8. Completed' /\ Planned' BY <1>2 DEF Completed, Planned
<1>9. \A u : Kept(u)' <=> Kept(u) BY <1>2 DEF Kept, Inbox!Live, Inbox!Exists, Inbox!FetchNow
<1>10. Inbox!ReadIsKept'
  <2> SUFFICES ASSUME NEW u \in first .. uidNext' - 1 PROVE Kept(u)
    BY <1>2, <1>9 DEF Inbox!ReadIsKept, Kept
  <2>1. first \in Nat BY DEF MailTypes
  <2>2. u \in first .. uidNext - 1 \/ u \in uidNext .. n - 1
    <3>1. CASE uidNext' = uidNext BY <3>1
    <3>2. CASE uidNext' = n
      <4>1. u \in Int /\ first <= u /\ u <= n - 1 BY <1>3, <2>1, <3>2
      <4> QED BY <1>0, <1>3, <2>1, <4>1
    <3> QED BY <1>5, <3>1, <3>2
  <2>3. u \in first .. uidNext - 1 => Kept(u) BY <1>4 DEF Inbox!MailKept, Inbox!ReadIsKept, Kept
  <2> QED BY <1>3, <2>2, <2>3
<1>11. Inbox!MailKept'
  BY <1>2, <1>10 DEF Inbox!MailKept, Inbox!NeverDeletedUnread, Inbox!InProgressIsQueued
<1> QED BY <1>6, <1>7, <1>8, <1>11
LEMMA RecordLaterOK == ASSUME Folder, MailInv, Inbox!RecordLater PROVE MailInv'
<1> USE DEF MailInv
<1>0. plan.avail \subseteq Inbox!Posts /\ plan.later \subseteq Msgs /\ Inbox!Posts \subseteq Msgs
  BY MailFacts DEF Inbox!Posts
<1>1. /\ stage = "later" /\ stage' \in {"batch", "clean"} /\ plan' = Inbox!NoPlan
      /\ available' = available \union plan.avail /\ download' = download \union plan.later
      /\ UNCHANGED <<server, gone, validity, known, uidNext, rows, local, preKnown, downloading, resync,
                     ses, todo, faults, first, removed, had, torn, reported>>
  BY DEF Inbox!RecordLater, Inbox!history
<1>2. MailTypes' BY <1>0, <1>1, Nothing DEF MailTypes, Inbox!TypeOK
<1>3. Numbered' /\ Completed' BY <1>1 DEF Numbered, Completed
<1>4. Inbox!NeverDeletedUnread' /\ Inbox!InProgressIsQueued'
  BY <1>1 DEF Inbox!MailKept, Inbox!NeverDeletedUnread, Inbox!InProgressIsQueued
<1>5. \A m \in Msgs : Inbox!Exists(m) => Inbox!Exists(m)' BY <1>1 DEF Inbox!Exists
<1> QED BY <1>1, <1>2, <1>3, <1>4, <1>5, StillRead

(* A row whose target may have been set to ''. *)
LEMMA Targeted ==
    ASSUME NEW r \in RowRecords, NEW b \in BOOLEAN, NEW v, v = [r EXCEPT !.del = b]
    PROVE  v \in RowRecords /\ v.uid = r.uid /\ v.part = r.part /\ v.del = b
BY DEF RowRecords

LEMMA MarkExpiredOK == ASSUME Folder, MailInv, Inbox!MarkExpired PROVE MailInv'
<1> USE DEF MailInv
<1>1. /\ stage = "clean" /\ stage' = "delete"
      /\ rows' = {[r EXCEPT !.del = @ \/ (DeleteAll /\ Inbox!Expired(r.part))] : r \in rows}
      /\ UNCHANGED <<server, gone, validity, known, uidNext, local, preKnown, available, download,
                     downloading, resync, ses, plan, todo, faults, first, removed, had, torn, reported>>
  BY DEF Inbox!MarkExpired, Inbox!history
<1>2. ASSUME NEW v \in rows'
      PROVE  \E r \in rows : /\ v \in RowRecords /\ v.uid = r.uid /\ v.part = r.part
                             /\ v.del => r.del \/ Inbox!Expired(r.part)
  <2>1. PICK r \in rows : v = [r EXCEPT !.del = r.del \/ (DeleteAll /\ Inbox!Expired(r.part))] BY <1>1
  <2>2. r \in RowRecords BY DEF MailTypes
  <2>3. PICK b \in BOOLEAN : b = (r.del \/ (DeleteAll /\ Inbox!Expired(r.part))) OBVIOUS
  <2>4. v = [r EXCEPT !.del = b] BY <2>1, <2>3
  <2>5. v \in RowRecords /\ v.uid = r.uid /\ v.part = r.part /\ v.del = b BY <2>2, <2>4, Targeted
  <2>6. b => r.del \/ Inbox!Expired(r.part) BY <2>3
  <2> QED BY <2>5, <2>6
<1>3. MailTypes' BY <1>1, <1>2 DEF MailTypes, Inbox!TypeOK
<1>4. Numbered' BY <1>1, <1>2 DEF Numbered
<1>5. Completed'
  <2>1. ASSUME NEW v \in rows', v.del, v.part[2] = "body" PROVE v.part[1] \in had
    <3>1. PICK r \in rows : v.part = r.part /\ (r.del \/ Inbox!Expired(r.part)) BY <1>2, <2>1
    <3>2. r.part \in Inbox!Parts BY MailFacts
    <3>3. r.part[1] \in Msgs BY <3>2, PartsOf
    <3>4. CASE r.del BY <2>1, <3>1, <3>4 DEF Completed
    <3>5. CASE Inbox!Expired(r.part) BY <2>1, <3>1, <3>3, <3>5 DEF Inbox!Expired, Completed
    <3> QED BY <3>1, <3>4, <3>5
  <2> QED BY <1>1, <2>1 DEF Completed
<1>6. Inbox!NeverDeletedUnread' /\ Inbox!InProgressIsQueued'
  BY <1>1 DEF Inbox!MailKept, Inbox!NeverDeletedUnread, Inbox!InProgressIsQueued
<1>7. \A m \in Msgs : Inbox!Exists(m) => Inbox!Exists(m)' BY <1>1 DEF Inbox!Exists
<1> QED BY <1>1, <1>3, <1>4, <1>5, <1>6, <1>7, StillRead

LEMMA DeleteBatchOK == ASSUME Folder, MailInv, Inbox!DeleteBatch PROVE MailInv'
<1> USE DEF MailInv
<1>0. DOMAIN server = 1 .. Len(server) /\ ses \in Sessions BY MailFacts DEF MailTypes
<1>1. PICK dead : dead = {r.uid : r \in {s \in rows : s.del}} OBVIOUS
<1>2. /\ stage = "delete" /\ stage' = "known" /\ rows' = {r \in rows : ~r.del}
      /\ gone' = gone \union (dead \cap DOMAIN server)
      /\ removed' = removed \union
           {server[u][1] : u \in {v \in dead : Inbox!Live(v) /\ server[v][2] = "body"}}
      /\ ses' = (IF dead = {} THEN ses ELSE Inbox!NoSession) /\ todo' = available
      /\ UNCHANGED <<server, validity, known, uidNext, local, preKnown, available, download,
                     downloading, resync, plan, faults, first, had, torn, reported>>
  BY <1>1 DEF Inbox!DeleteBatch
<1>3. known = validity BY <1>2 DEF Numbered
<1>4. MailTypes' BY <1>0, <1>2, Nothing DEF MailTypes, Inbox!TypeOK
<1>5. Numbered' BY <1>2, Nothing DEF Numbered
<1>6. Completed' BY <1>2 DEF Completed
<1>7. Inbox!NeverDeletedUnread'
  <2>1. ASSUME NEW u \in dead, server[u][2] = "body" PROVE server[u][1] \in had
    <3>1. PICK r \in rows : r.del /\ r.uid = u BY <1>1
    <3>2. server[u] = r.part BY <1>3, <3>1 DEF Numbered
    <3> QED BY <2>1, <3>1, <3>2 DEF Completed
  <2>2. removed \subseteq had BY DEF Inbox!MailKept, Inbox!NeverDeletedUnread
  <2> QED BY <1>2, <2>1, <2>2 DEF Inbox!NeverDeletedUnread
<1>8. Inbox!InProgressIsQueued' BY <1>2 DEF Inbox!MailKept, Inbox!InProgressIsQueued
<1>9. \A m \in Msgs : Inbox!Exists(m) => Inbox!Exists(m)' BY <1>2 DEF Inbox!Exists
<1> QED BY <1>2, <1>4, <1>5, <1>6, <1>7, <1>8, <1>9, StillRead

(* A download that succeeds receives the body it was asked for. *)
LEMMA DownloadedBody ==
    ASSUME MailInv, stage \in {"known", "downloads"}, NEW m \in Msgs, Inbox!DownloadOk(m)
    PROVE  <<m, "body">> \in Inbox!Parts /\ Reception(<<m, "body">>)
<1>1. PICK u \in Inbox!Located(m) : Reception(server[u]) BY DEF Inbox!DownloadOk, Reception
<1>2. PICK r \in rows : r.uid = u /\ r.part = <<m, "body">> BY DEF Inbox!Located
<1>3. server[u] = <<m, "body">> BY <1>2 DEF MailInv, Numbered
<1>4. <<m, "body">> \in Inbox!Parts BY DEF Inbox!Parts
<1> QED BY <1>1, <1>3, <1>4

(* One row of a list of downloads. *)
LEMMA DownloadStep ==
    ASSUME MailInv, stage \in {"known", "downloads"},
           NEW m \in Msgs, todo' \subseteq Msgs, available' \subseteq available,
           download \ {m} \subseteq download', download' \subseteq Msgs,
           \/ Inbox!DownloadOk(m)
           \/ /\ UNCHANGED <<preKnown, had, reported>>
              /\ local' = local \/ (m \in available /\ local' = [local EXCEPT ![m] = "Failure"])
              /\ download' = download \/ local'[m] # "InProgress",
           UNCHANGED <<server, gone, validity, known, uidNext, rows, downloading, resync, ses,
                       stage, plan, first, removed, torn>>
    PROVE  MailInv'
<1> USE DEF MailInv
<1>0. /\ local \in [Msgs -> {"none", "Available", "InProgress", "Failure", "Done", "deleted"}]
      /\ preKnown \subseteq Msgs
  BY DEF MailTypes, Inbox!TypeOK
<1>1. Inbox!InProgressIsQueued /\ Inbox!NeverDeletedUnread BY DEF Inbox!MailKept
<1>2. /\ local' \in [Msgs -> {"none", "Available", "InProgress", "Failure", "Done", "deleted"}]
      /\ preKnown' \subseteq Msgs /\ had \subseteq had' /\ reported \subseteq reported'
      /\ \A n \in Msgs : Inbox!Exists(n) => Inbox!Exists(n)'
      /\ \A n \in Msgs : local'[n] \in {"Available", "InProgress", "Failure"} => n \in Inbox!Posts
      /\ \A n \in Msgs : local'[n] \in {"Done", "deleted"} => n \in had'
      /\ Inbox!InProgressIsQueued'
  <2>1. CASE Inbox!DownloadOk(m)
    <3>1. PICK p \in Inbox!Parts : p = <<m, "body">> /\ Reception(p) BY <2>1, DownloadedBody
    <3>2. p[1] = m /\ p[2] = "body" BY <3>1
    <3>3. /\ local' \in [Msgs -> {"none", "Available", "InProgress", "Failure", "Done", "deleted"}]
          /\ preKnown' \subseteq Msgs /\ had \subseteq had' /\ reported \subseteq reported'
          /\ \A n \in Msgs : Inbox!Exists(n) => Inbox!Exists(n)'
          /\ \A n \in Msgs : local'[n] \in {"Available", "InProgress", "Failure"} => n \in Inbox!Posts
          /\ \A n \in Msgs : local'[n] \in {"Done", "deleted"} => n \in had'
      BY <3>1, ReceptionOK
    <3>4. \A n \in Msgs : local'[n] = "InProgress" =>
                local[n] = "InProgress" /\ (n = m => n \in reported')
      BY <3>1, <3>2, ReceptionOK
    <3>5. Inbox!InProgressIsQueued' BY <1>1, <3>3, <3>4 DEF Inbox!InProgressIsQueued
    <3> QED BY <3>3, <3>5
  <2>2. CASE /\ UNCHANGED <<preKnown, had, reported>> /\ local' = local
             /\ download' = download \/ local'[m] # "InProgress"
    BY <1>0, <1>1, <2>2 DEF Inbox!Exists, Completed, Inbox!InProgressIsQueued
  <2>3. CASE /\ UNCHANGED <<preKnown, had, reported>>
             /\ m \in available /\ local' = [local EXCEPT ![m] = "Failure"]
    <3>1. local'[m] = "Failure" /\ \A n \in Msgs : n # m => local'[n] = local[n] BY <1>0, <2>3
    <3>2. m \in Inbox!Posts BY <2>3 DEF MailTypes
    <3> QED BY <1>0, <1>1, <2>3, <3>1, <3>2 DEF Inbox!Exists, Completed, Inbox!InProgressIsQueued
  <2> QED BY <2>1, <2>2, <2>3
<1>3. MailTypes' BY <1>2 DEF MailTypes, Inbox!TypeOK
<1>4. Numbered' BY DEF Numbered
<1>5. Completed' BY <1>2 DEF Completed
<1>6. Inbox!NeverDeletedUnread' BY <1>1, <1>2 DEF Inbox!NeverDeletedUnread
<1> QED BY <1>2, <1>3, <1>4, <1>5, <1>6, StillRead
LEMMA KnownPostMessageOK ==
    ASSUME Folder, MailInv, NEW m \in Msgs, Inbox!KnownPostMessage(m) PROVE MailInv'
<1>1. /\ stage = "known" /\ todo' = todo \ {m}
      /\ UNCHANGED <<server, gone, validity, known, uidNext, rows, download, downloading, resync, ses,
                     stage, plan, first, removed, torn>>
  BY DEF Inbox!KnownPostMessage
<1>2. todo' \subseteq Msgs /\ download' \subseteq Msgs
  BY <1>1 DEF MailInv, MailTypes, Inbox!TypeOK
<1>3. available' \subseteq available BY DEF Inbox!KnownPostMessage, Inbox!AvailableAfterError
<1>4. Inbox!DownloadOk(m) \/ UNCHANGED <<local, preKnown, had, reported>> BY DEF Inbox!KnownPostMessage
<1> QED BY <1>1, <1>2, <1>3, <1>4, DownloadStep

LEMMA DownloadMsgOK ==
    ASSUME Folder, MailInv, NEW m \in Msgs, Inbox!DownloadMsg(m) PROVE MailInv'
<1>0. /\ local \in [Msgs -> {"none", "Available", "InProgress", "Failure", "Done", "deleted"}]
      /\ todo \subseteq Msgs /\ download \subseteq Msgs
  BY DEF MailInv, MailTypes, Inbox!TypeOK
<1>1. /\ stage = "downloads" /\ todo' = todo \ {m}
      /\ UNCHANGED <<server, gone, validity, known, uidNext, rows, downloading, resync, ses,
                     stage, plan, first, removed, torn>>
  BY DEF Inbox!DownloadMsg
<1>2. todo' \subseteq Msgs BY <1>0, <1>1
<1>3. CASE Inbox!DownloadOk(m) /\ download' = download \ {m} /\ available' = available \ {m}
  BY <1>0, <1>1, <1>2, <1>3, DownloadStep
<1>4. CASE Inbox!DownloadError(m) /\ ~(Inbox!DownloadOk(m) /\ download' = download \ {m} /\ available' = available \ {m})
  <2>1. PICK avail : avail = Inbox!AvailableAfterError(m) OBVIOUS
  <2>2. avail \subseteq available BY <2>1 DEF Inbox!AvailableAfterError
  <2>3. /\ download' = IF Inbox!GiveUp(m, avail) THEN download \ {m} ELSE download
        /\ available' = IF Inbox!Exists(m) THEN avail \ {m} ELSE avail
        /\ local' = IF local[m] \notin {"none", "deleted"} /\ m \in avail
                    THEN [local EXCEPT ![m] = "Failure"] ELSE local
        /\ UNCHANGED <<preKnown, had, reported>>
    BY <1>4, <2>1 DEF Inbox!DownloadMsg
  <2>4. available' \subseteq available /\ download' \subseteq Msgs /\ download \ {m} \subseteq download'
    BY <1>0, <2>2, <2>3
  <2>5. download' = download \/ local'[m] # "InProgress"
    BY <1>0, <2>3 DEF Inbox!GiveUp, Inbox!Exists
  <2>6. local' = local \/ (m \in available /\ local' = [local EXCEPT ![m] = "Failure"])
    BY <2>2, <2>3
  <2> QED BY <1>1, <1>2, <2>3, <2>4, <2>5, <2>6, DownloadStep
<1> QED BY <1>3, <1>4 DEF Inbox!DownloadMsg

LEMMA DownloadFullOK ==
    ASSUME Folder, MailInv, NEW m \in Msgs, Inbox!DownloadFull(m) PROVE MailInv'
<1> USE DEF MailInv
<1>0. local \in [Msgs -> {"none", "Available", "InProgress", "Failure", "Done", "deleted"}]
  BY DEF MailTypes, Inbox!TypeOK
<1>1. /\ local[m] \in {"Available", "Failure"} /\ local' = [local EXCEPT ![m] = "InProgress"]
      /\ downloading' = downloading \union {m}
      /\ UNCHANGED <<server, gone, validity, known, uidNext, rows, preKnown, available, download,
                     resync, ses, stage, plan, todo, faults, first, removed, had, torn, reported>>
  BY DEF Inbox!DownloadFull, Inbox!memory, Inbox!history
<1>2. local'[m] = "InProgress" /\ \A n \in Msgs : n # m => local'[n] = local[n] BY <1>0, <1>1
<1>3. MailTypes' BY <1>1 DEF MailTypes, Inbox!TypeOK
<1>4. Numbered' BY <1>1 DEF Numbered
<1>5. Completed' BY <1>1, <1>2 DEF Completed
<1>6. Inbox!NeverDeletedUnread' /\ Inbox!InProgressIsQueued'
  BY <1>1, <1>2 DEF Inbox!MailKept, Inbox!NeverDeletedUnread, Inbox!InProgressIsQueued
<1>7. \A n \in Msgs : Inbox!Exists(n) => Inbox!Exists(n)' BY <1>2 DEF Inbox!Exists
<1> QED BY <1>1, <1>3, <1>4, <1>5, <1>6, <1>7, StillRead

LEMMA DownloadQueuedOK ==
    ASSUME Folder, MailInv, NEW m \in Msgs, Inbox!DownloadQueued(m) PROVE MailInv'
<1> USE DEF MailInv
<1>1. /\ downloading' = downloading \ {m} /\ download' = download \union {m}
      /\ UNCHANGED <<server, gone, validity, known, uidNext, rows, local, preKnown, available,
                     resync, ses, stage, plan, todo, faults, first, removed, had, torn, reported>>
  BY DEF Inbox!DownloadQueued, Inbox!memory, Inbox!history
<1>2. MailTypes' BY <1>1 DEF MailTypes, Inbox!TypeOK
<1>3. Numbered' /\ Completed' BY <1>1 DEF Numbered, Completed
<1>4. Inbox!NeverDeletedUnread' /\ Inbox!InProgressIsQueued'
  BY <1>1 DEF Inbox!MailKept, Inbox!NeverDeletedUnread, Inbox!InProgressIsQueued
<1>5. \A n \in Msgs : Inbox!Exists(n) => Inbox!Exists(n)' BY <1>1 DEF Inbox!Exists
<1> QED BY <1>1, <1>2, <1>3, <1>4, <1>5, StillRead

LEMMA DeleteMsgOK ==
    ASSUME Folder, MailInv, NEW m \in Msgs, Inbox!DeleteMsg(m) PROVE MailInv'
<1> USE DEF MailInv
<1>0. local \in [Msgs -> {"none", "Available", "InProgress", "Failure", "Done", "deleted"}]
  BY DEF MailTypes, Inbox!TypeOK
<1>1. /\ local' = [local EXCEPT ![m] = "deleted"] /\ had' = had \union {m}
      /\ download' = download \ {m} /\ available' = available \ {m}
      /\ rows' = {[r EXCEPT !.del = @ \/ r.part = <<m, "body">> \/ (r.part = <<m, "pre">> /\ m \in preKnown)] :
                    r \in rows}
      /\ UNCHANGED <<server, gone, validity, known, uidNext, preKnown, downloading, resync,
                     ses, stage, plan, todo, faults, first, removed, torn, reported>>
  BY DEF Inbox!DeleteMsg, Inbox!memory
<1>2. local'[m] = "deleted" /\ \A n \in Msgs : n # m => local'[n] = local[n] BY <1>0, <1>1
<1>3. ASSUME NEW v \in rows'
      PROVE  \E r \in rows : /\ v \in RowRecords /\ v.uid = r.uid /\ v.part = r.part
                             /\ v.del => r.del \/ r.part[1] = m
  <2>1. PICK r \in rows :
          v = [r EXCEPT !.del = r.del \/ r.part = <<m, "body">> \/ (r.part = <<m, "pre">> /\ m \in preKnown)]
    BY <1>1
  <2>2. r \in RowRecords BY DEF MailTypes
  <2>3. PICK b \in BOOLEAN : b = (r.del \/ r.part = <<m, "body">> \/ (r.part = <<m, "pre">> /\ m \in preKnown))
    OBVIOUS
  <2>4. v = [r EXCEPT !.del = b] BY <2>1, <2>3
  <2>5. v \in RowRecords /\ v.uid = r.uid /\ v.part = r.part /\ v.del = b BY <2>2, <2>4, Targeted
  <2>6. b => r.del \/ r.part = <<m, "body">> \/ r.part = <<m, "pre">> BY <2>3
  <2>7. b => r.del \/ r.part[1] = m BY <2>6
  <2> QED BY <2>5, <2>7
<1>4. MailTypes'
  <2>1. local' \in [Msgs -> {"none", "Available", "InProgress", "Failure", "Done", "deleted"}]
    BY <1>0, <1>1
  <2> QED BY <1>1, <1>3, <2>1 DEF MailTypes, Inbox!TypeOK
<1>5. Numbered' BY <1>1, <1>3 DEF Numbered
<1>6. Completed'
  <2>1. ASSUME NEW v \in rows', v.del, v.part[2] = "body" PROVE v.part[1] \in had'
    <3>1. PICK r \in rows : v.part = r.part /\ (r.del \/ r.part[1] = m) BY <1>3, <2>1
    <3> QED BY <1>1, <2>1, <3>1 DEF Completed
  <2>2. \A n \in Msgs : local'[n] \in {"Available", "InProgress", "Failure"} => n \in Inbox!Posts
    BY <1>2 DEF Completed
  <2>3. \A n \in Msgs : local'[n] \in {"Done", "deleted"} => n \in had' BY <1>1, <1>2 DEF Completed
  <2> QED BY <2>1, <2>2, <2>3 DEF Completed
<1>7. Inbox!NeverDeletedUnread' /\ Inbox!InProgressIsQueued'
  BY <1>1, <1>2 DEF Inbox!MailKept, Inbox!NeverDeletedUnread, Inbox!InProgressIsQueued
<1>8. \A n \in Msgs : Inbox!Exists(n) => Inbox!Exists(n)' BY <1>2 DEF Inbox!Exists
<1> QED BY <1>1, <1>4, <1>5, <1>6, <1>7, <1>8, StillRead

LEMMA MailInvariant == ASSUME Folder PROVE Inbox!Spec => []MailInv
<1>1. Inbox!Init => MailInv BY MailInit
<1>2. ASSUME MailInv, [Inbox!Next]_(Inbox!vars) PROVE MailInv'
  <2>1. CASE UNCHANGED Inbox!vars
    <3>0. UNCHANGED <<server, gone, validity, known, uidNext, rows, local, preKnown, available, download,
                      downloading, resync, ses, stage, plan, todo, faults, first, removed, had, torn, reported>>
      BY <2>1 DEF Inbox!vars, Inbox!tables, Inbox!memory, Inbox!history
    <3>1. MailTypes' BY <1>2, <3>0 DEF MailInv, MailTypes, Inbox!TypeOK
    <3>2. Numbered' /\ Completed' BY <1>2, <3>0 DEF MailInv, Numbered, Completed
    <3>3. Inbox!NeverDeletedUnread' /\ Inbox!InProgressIsQueued'
      BY <1>2, <3>0 DEF MailInv, Inbox!MailKept, Inbox!NeverDeletedUnread, Inbox!InProgressIsQueued
    <3>4. \A n \in Msgs : Inbox!Exists(n) => Inbox!Exists(n)' BY <3>0 DEF Inbox!Exists
    <3> QED BY <1>2, <3>0, <3>1, <3>2, <3>3, <3>4, StillRead
  <2>2. CASE \E p \in Inbox!Parts : Inbox!Arrive(p) BY <1>2, <2>2, ArriveOK
  <2>3. CASE \E u \in 1 .. Len(server) : Inbox!Vanish(u) BY <1>2, <2>3, VanishOK
  <2>4. CASE Inbox!NewValidity BY <1>2, <2>4, NewValidityOK
  <2>5. CASE Inbox!Interrupted \/ Inbox!Crash \/ Inbox!NoResync \/ Inbox!KnownDone \/ Inbox!DownloadsDone
    BY <1>2, <2>5, BreaksOK
  <2>6. CASE Inbox!Resync BY <1>2, <2>6, ResyncOK
  <2>7. CASE Inbox!Idle BY <1>2, <2>7, IdleOK
  <2>8. CASE Inbox!StartFetch BY <1>2, <2>8, StartFetchOK
  <2>9. CASE Inbox!Prefetch BY <1>2, <2>9, PrefetchOK
  <2>10. CASE Inbox!FetchOne BY <1>2, <2>10, FetchOneOK
  <2>11. CASE Inbox!FetchEnds BY <1>2, <2>11, FetchEndsOK
  <2>12. CASE Inbox!SetUidNext BY <1>2, <2>12, SetUidNextOK
  <2>13. CASE Inbox!RecordLater BY <1>2, <2>13, RecordLaterOK
  <2>14. CASE Inbox!MarkExpired BY <1>2, <2>14, MarkExpiredOK
  <2>15. CASE Inbox!DeleteBatch BY <1>2, <2>15, DeleteBatchOK
  <2>16. CASE \E m \in Msgs : Inbox!KnownPostMessage(m) \/ Inbox!DownloadMsg(m)
    BY <1>2, <2>16, KnownPostMessageOK, DownloadMsgOK
  <2>17. CASE \E m \in Msgs : Inbox!DownloadFull(m) \/ Inbox!DownloadQueued(m) \/ Inbox!DeleteMsg(m)
    BY <1>2, <2>17, DownloadFullOK, DownloadQueuedOK, DeleteMsgOK
  <2> QED BY <1>2, <2>1, <2>2, <2>3, <2>4, <2>5, <2>6, <2>7, <2>8, <2>9, <2>10, <2>11, <2>12,
             <2>13, <2>14, <2>15, <2>16, <2>17 DEF Inbox!Next, Inbox!Loop
<1> QED BY <1>1, <1>2, PTL DEF Inbox!Spec

(* The inbox loop (fetch_new_msg_batch, download_msgs, move_delete_messages)  *)
(* passes over no small message, deletes no body from the server that is not  *)
(* complete here or deleted by the user, and works on what is being           *)
(* downloaded: for any folder, batch size, number of failures, crashes and    *)
(* changes of UIDVALIDITY, and wherever mail arrives in between.              *)
THEOREM MailIsKept == ASSUME Folder PROVE Inbox!Spec => []Inbox!MailKept
<1>1. MailInv => Inbox!MailKept BY DEF MailInv
<1> QED BY <1>1, MailInvariant, PTL

(* The folder, the tables and the stages of the loop keep their types.        *)
THEOREM MailHasTypes == ASSUME Folder PROVE Inbox!Spec => []Inbox!TypeOK
<1>1. MailInv => Inbox!TypeOK BY DEF MailInv, MailTypes
<1> QED BY <1>1, MailInvariant, PTL


-----------------------------------------------------------------------------
(* The scheduler and the loops next to each other: whatever `part' is, each   *)
(* loop behaves as its own specification allows.                              *)

LEMMA LoopSpecs ==
    LoopsSpec => Hanging!Spec /\ Outgoing!Spec /\ Inbox!Spec /\ Disappearing!Spec /\ RecentlySeen!Spec
<1>1. LoopsInit => /\ Hanging!Init /\ Outgoing!Init /\ Inbox!Init /\ Disappearing!Init
                   /\ RecentlySeen!Init
  BY DEF LoopsInit
<1>2. [LoopsNext]_<<part, vars, vars2, smtpVars, inboxVars, ephemeralVars, seenVars>> =>
        /\ [Hanging!Next]_(Hanging!vars) /\ [Outgoing!Next]_(Outgoing!vars) /\ [Inbox!Next]_(Inbox!vars)
        /\ [Disappearing!Next]_(Disappearing!vars) /\ [RecentlySeen!Next]_(RecentlySeen!vars)
  <2>1. UNCHANGED vars2 => UNCHANGED Hanging!vars
    BY DEF vars2, Hanging!vars
  <2>2. UNCHANGED smtpVars => UNCHANGED Outgoing!vars
    BY DEF smtpVars, Outgoing!vars, Outgoing!msgVars, Outgoing!mdnVars, Outgoing!loopVars
  <2>3. /\ UNCHANGED inboxVars => UNCHANGED Inbox!vars
        /\ UNCHANGED ephemeralVars => UNCHANGED Disappearing!vars
        /\ UNCHANGED seenVars => UNCHANGED RecentlySeen!vars
    BY DEF inboxVars, Inbox!vars, Inbox!tables, Inbox!memory, Inbox!history, ephemeralVars, Disappearing!vars,
           seenVars, RecentlySeen!vars
  <2> QED BY <2>1, <2>2, <2>3 DEF LoopsNext
<1> QED BY <1>1, <1>2, PTL
        DEF LoopsSpec, Hanging!Spec, Outgoing!Spec, Inbox!Spec, Disappearing!Spec, RecentlySeen!Spec

(* The second scheduler is one of those that SchedulerProofs is about, and    *)
(* the queue one of those of SmtpQueueProofs.                                 *)
LEMMA HangingAllowed ==
    ASSUME Restarting
    PROVE  /\ Hanging!IsFiniteSet(Callers) /\ Hanging!IsFiniteSet(Inboxes)
           /\ Inboxes \cap {Hanging!Smtp, Hanging!Aux} = {}
           /\ Hanging!Resumer \notin Callers /\ NoOne \notin Callers /\ NoOne # Hanging!Resumer
           /\ AllLifecycleOps \subseteq Hanging!AllOps
           /\ HangingCalls \in Nat \ {0} /\ MaxPauseGuards \in Nat \ {0}
           /\ FALSE \in BOOLEAN /\ TRUE \in BOOLEAN
<1>1. Hanging!IsFiniteSet(Callers) /\ Hanging!IsFiniteSet(Inboxes)
  BY SchedulerAssumption DEF IsFiniteSet, Hanging!IsFiniteSet
<1>2. /\ Hanging!Smtp = Smtp /\ Hanging!Aux = Aux /\ Hanging!Resumer = Resumer
      /\ Hanging!AllOps = AllOps
  BY DEF Hanging!Smtp, Smtp, Hanging!Aux, Aux, Hanging!Resumer, Resumer, Hanging!AllOps, AllOps,
         Hanging!Interrupts, Interrupts
<1> QED BY <1>1, <1>2, SchedulerAssumption DEF Restarting

LEMMA QueueAllowed ==
    ASSUME Sending
    PROVE  /\ Outgoing!IsFiniteSet(Letters) /\ Recipientless \subseteq Letters
           /\ NParts \in Nat \ {0} /\ RetryLimit \in Nat \ {0} /\ Quota \in Nat \ {0}
           /\ MaxMishaps \in Nat
           /\ Events \subseteq {"crash", "lost_ok", "resend", "switch", "delete"}
           /\ FALSE \in BOOLEAN
<1>1. Outgoing!IsFiniteSet(Letters) BY DEF Sending, IsFiniteSet, Outgoing!IsFiniteSet
<1> QED BY <1>1 DEF Sending

LEMMA NoneIsNone ==
    ASSUME Sending
    PROVE  None \notin Outgoing!Job /\ None \notin Outgoing!Hand /\ None \notin Receipts
BY DEF Sending

(* The guards are accounted for also if loops hang past the 30 s that `stop`  *)
(* waits for them and IO is restarted.                                        *)
THEOREM GuardsCountedHanging == ASSUME Restarting PROVE LoopsSpec => []GuardsAccountedHanging
<1>1. Hanging!Spec => []Hanging!GuardsAccounted BY HangingAllowed, Hanging!GuardsCounted
<1>2. Hanging!GuardsAccounted => GuardsAccountedHanging BY DEF GuardsAccountedHanging
<1> QED BY <1>1, <1>2, LoopSpecs, PTL

(* With crashes, lost answers, resends and a change of the transport at any   *)
(* point, no part is accepted twice without such a fault (SmtpQueue).         *)
THEOREM SentOnceButFaults == ASSUME Sending PROVE LoopsSpec => []NoDuplicatesButFaults
<1>1. Outgoing!Spec => []Outgoing!NoDuplicates BY QueueAllowed, NoneIsNone, Outgoing!SentOnce
<1>2. Outgoing!NoDuplicates => NoDuplicatesButFaults BY DEF NoDuplicatesButFaults
<1> QED BY <1>1, <1>2, LoopSpecs, PTL

(* Nor is a read receipt lost: it is sent, queued, or given up for a reason   *)
(* (SmtpQueue).                                                               *)
THEOREM ReceiptsAreSent == ASSUME Sending PROVE LoopsSpec => []NoReceiptIsLost
<1>1. Outgoing!Spec => []Outgoing!NoReceiptLost
  BY QueueAllowed, NoneIsNone, Outgoing!ReceiptsAreKept
<1>2. Outgoing!NoReceiptLost => NoReceiptIsLost BY DEF NoReceiptIsLost
<1> QED BY <1>1, <1>2, LoopSpecs, PTL

(* Mail that the inbox loop passed is there, and none is deleted unread       *)
(* (Mailbox).                                                                 *)
THEOREM NoMailIsLost == ASSUME Folder PROVE LoopsSpec => []MailKept
<1>1. Inbox!MailKept => MailKept BY DEF MailKept
<1> QED BY <1>1, LoopSpecs, MailIsKept, PTL

(* Messages disappear when their time is over, and not before (Ephemeral). *)
THEOREM MessagesDisappear == ASSUME Seconds PROVE LoopsSpec => []DeletedInTime
<1>1. Disappearing!DeletedInTime => DeletedInTime BY DEF DeletedInTime
<1> QED BY <1>1, LoopSpecs, TimersAreKept, PTL

(* Whoever was seen recently is in the queue of the loop (LastSeen). *)
THEOREM SeenStaysQueued == ASSUME Clocks PROVE LoopsSpec => []SeenIsQueued
<1>1. RecentlySeen!SeenIsQueued => SeenIsQueued BY DEF SeenIsQueued
<1> QED BY <1>1, LoopSpecs, NobodyIsForgotten, PTL
=============================================================================

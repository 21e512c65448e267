--------------------------- MODULE SchedulerProofs ---------------------------
(***************************************************************************)
(* Proofs about the IO scheduler, for every number of clients, transports, *)
(* calls and pause guards.                                                 *)
(***************************************************************************)
EXTENDS Scheduler, FiniteSetTheorems, TLAPS

(* The lock is held exactly by the caller that is starting or stopping, or   *)
(* by a resume task; a scheduler that runs, starts or stops has been created. *)
Holding == {"starting", "stopping_stop", "stopping_pause", "stopping_restart"}

LockInv ==
    /\ \A c \in Callers : pc[c] \in Holding <=> lock = c
    /\ state = "Started" \/ lock # NoOne => gen # 0
    /\ state = "Paused" => pause_guards_count # 0

(* What each holder of the lock found when it took it. *)
HolderInv ==
    /\ lock \in Callers /\ pc[lock] = "starting" => state = "Stopped"
    /\ lock = Resumer => state = "Paused" /\ pause_guards_count = 1 /\ started
    /\ \A c \in Callers : pc[c] = "stopping_pause" => state = "Paused" /\ started
    /\ \A c \in Callers : pc[c] \in {"stopping_stop", "stopping_restart"} => state = "Stopped"

IInv == TypeOK /\ LockInv /\ HolderInv

USE DEF Pcs, AllOps, Interrupts, States, LoopStates, Gens, Holding

LEMMA InitIInv == Init => IInv
<1> SUFFICES ASSUME Init PROVE IInv OBVIOUS
<1> USE SchedulerAssumption DEF Init
<1>1. LockTypeOK
  <2>1. started \in BOOLEAN /\ requested \in BOOLEAN OBVIOUS
  <2> QED BY <2>1 DEF LockTypeOK
<1>2. TaskTypeOK BY DEF TaskTypeOK
<1>3. LockInv BY DEF LockInv
<1>4. HolderInv BY DEF HolderInv
<1> QED BY <1>1, <1>2, <1>3, <1>4 DEF IInv, TypeOK

(* The part of the state behind the lock. *)
LEMMA NextLockTypeOK == IInv /\ [Next]_vars => LockTypeOK'
<1> SUFFICES ASSUME IInv PROVE [Next]_vars => LockTypeOK' OBVIOUS
<1> USE SchedulerAssumption DEF IInv, TypeOK, LockTypeOK, LockInv, lockVars
<1>1. ASSUME NEW c \in Callers, Call(c) PROVE LockTypeOK'
  BY <1>1 DEF Call
<1>2. ASSUME NEW c \in Callers, Start(c) PROVE LockTypeOK'
  BY <1>2 DEF Start
<1>3. ASSUME NEW c \in Callers, Stop(c) PROVE LockTypeOK'
  <2>1. started' \in BOOLEAN BY <1>3 DEF Stop, BeginStop
  <2>2. requested' \in BOOLEAN BY <1>3 DEF Stop, BeginStop
  <2>3. pc' \in [Callers -> Pcs] BY <1>3 DEF Stop
  <2>4. state' \in States /\ pause_guards_count' \in 0..MaxPauseGuards BY <1>3 DEF Stop, BeginStop
  <2>5. lock' \in Callers \cup {Resumer, NoOne} /\ dropped' \in Nat BY <1>3 DEF Stop
  <2> QED BY ONLY <2>1, <2>2, <2>3, <2>4, <2>5 DEF LockTypeOK
<1>4. ASSUME NEW c \in Callers, Pause(c) PROVE LockTypeOK'
  <2>1. started' \in BOOLEAN BY <1>4 DEF Pause, BeginStop, TooManyGuards
  <2>2. requested' \in BOOLEAN BY <1>4 DEF Pause, BeginStop, TooManyGuards
  <2> QED BY <1>4, <2>1, <2>2 DEF Pause, BeginStop, TooManyGuards
<1>5. ASSUME NEW c \in Callers, RestartCheck(c) PROVE LockTypeOK'
  BY <1>5 DEF RestartCheck
<1>6. ASSUME NEW c \in Callers, Interrupt(c) PROVE LockTypeOK'
  BY <1>6 DEF Interrupt
<1>7. ASSUME NEW c \in Callers, DropGuard(c) PROVE LockTypeOK'
  BY <1>7 DEF DropGuard
<1>8. ASSUME NEW c \in Callers, StopDone(c) PROVE LockTypeOK'
  BY <1>8 DEF StopDone
<1>9. ASSUME Resume PROVE LockTypeOK'
  <2>1. started' \in BOOLEAN BY <1>9 DEF Resume, LastGuard
  <2>2. requested' \in BOOLEAN BY <1>9 DEF Resume, LastGuard
  <2> QED BY <1>9, <2>1, <2>2 DEF Resume, LastGuard
<1>10. ASSUME NEW l \in Loops, Spawn(l) PROVE LockTypeOK' BY <1>10 DEF Spawn
<1>11. ASSUME StartDone PROVE LockTypeOK'
  <2>1. started' \in BOOLEAN /\ requested' \in BOOLEAN BY <1>11 DEF StartDone
  <2> QED BY <1>11, <2>1 DEF StartDone, EndStart
<1>12. ASSUME StartFail PROVE LockTypeOK' BY <1>12 DEF StartFail, EndStart
<1>13. ASSUME NEW g \in Gens, NEW l \in Loops, LoopStep(g, l) PROVE LockTypeOK'
  BY <1>13 DEF LoopStep, LoopFrame, LoopStarted, LoopWork, LoopIdle, LoopAsksRead,
               LoopInterrupts, LoopWakes, LoopRetries, LoopExit, LoopHangs
<1>14. ASSUME UNCHANGED vars PROVE LockTypeOK' BY <1>14 DEF vars
<1> QED BY ONLY <1>1, <1>2, <1>3, <1>4, <1>5, <1>6, <1>7, <1>8, <1>9, <1>10, <1>11, <1>12,
           <1>13, <1>14 DEF Next, CallerStep

(* The tasks and their channels. *)
LEMMA NextTaskTypeOK == IInv /\ [Next]_vars => TaskTypeOK'
<1> SUFFICES ASSUME IInv PROVE [Next]_vars => TaskTypeOK' OBVIOUS
<1> USE SchedulerAssumption DEF IInv, TypeOK, TaskTypeOK, LockInv, taskVars
<1>1. ASSUME NEW c \in Callers, Call(c) PROVE TaskTypeOK'
  BY <1>1 DEF Call, Targets
<1>2. ASSUME NEW c \in Callers, Start(c) PROVE TaskTypeOK'
  BY <1>2 DEF Start
<1>3. ASSUME NEW c \in Callers, Stop(c) PROVE TaskTypeOK'
  <2>0. state = "Started" => gen \in Gens OBVIOUS
  <2>1. cancelled' \in SUBSET Gens BY <1>3, <2>0 DEF Stop, BeginStop
  <2>2. UNCHANGED <<gen, loop, woken, pending, calls>> BY <1>3 DEF Stop, BeginStop
  <2> QED BY <2>1, <2>2
<1>4. ASSUME NEW c \in Callers, Pause(c) PROVE TaskTypeOK'
  <2>0. state = "Started" => gen \in Gens OBVIOUS
  <2>1. cancelled' \in SUBSET Gens BY <1>4, <2>0 DEF Pause, BeginStop
  <2>2. UNCHANGED <<gen, loop, woken, pending, calls>> BY <1>4 DEF Pause, BeginStop
  <2> QED BY <2>1, <2>2
<1>5. ASSUME NEW c \in Callers, RestartCheck(c) PROVE TaskTypeOK'
  BY <1>5 DEF RestartCheck
<1>6. ASSUME NEW c \in Callers, Interrupt(c) PROVE TaskTypeOK'
  BY <1>6 DEF Interrupt, Wake
<1>7. ASSUME NEW c \in Callers, DropGuard(c) PROVE TaskTypeOK'
  BY <1>7 DEF DropGuard
<1>8. ASSUME NEW c \in Callers, StopDone(c) PROVE TaskTypeOK'
  BY <1>8 DEF StopDone
<1>9. ASSUME Resume PROVE TaskTypeOK' BY <1>9 DEF Resume
<1>10. ASSUME NEW l \in Loops, Spawn(l) PROVE TaskTypeOK' BY <1>10 DEF Spawn
<1>11. ASSUME StartDone PROVE TaskTypeOK' BY <1>11 DEF StartDone
<1>12. ASSUME StartFail PROVE TaskTypeOK' BY <1>12 DEF StartFail
<1>13. ASSUME NEW g \in Gens, NEW l \in Loops, LoopStep(g, l) PROVE TaskTypeOK'
  <2> DEFINE Moves == \E t \in LoopStates : SetLoop(g, l, t)
  <2> USE <1>13 DEF LoopStep, LoopFrame, LoopStarted, LoopWork, LoopIdle, LoopAsksRead,
                    LoopInterrupts, LoopWakes, LoopRetries, LoopExit, LoopHangs
  <2>1. UNCHANGED <<gen, cancelled, calls>> OBVIOUS
  <2>2. loop' \in [Gens -> [Loops -> LoopStates]]
    <3>1. Moves OBVIOUS
    <3> QED BY ONLY <3>1, g \in Gens, l \in Loops, TaskTypeOK DEF SetLoop, TaskTypeOK
  <2>3. woken' \in [Gens -> [Loops -> BOOLEAN]]
    <3>1. \/ UNCHANGED woken
          \/ Wake({Smtp})
          \/ woken' = [woken EXCEPT ![g][l] = FALSE]
      OBVIOUS
    <3>2. ASSUME Wake({Smtp}) PROVE woken' \in [Gens -> [Loops -> BOOLEAN]]
      BY <3>2, ZenonT(40) DEF Wake
    <3>3. ASSUME woken' = [woken EXCEPT ![g][l] = FALSE]
          PROVE  woken' \in [Gens -> [Loops -> BOOLEAN]]
      BY ONLY <3>3, TaskTypeOK DEF TaskTypeOK
    <3> QED BY ONLY <3>1, <3>2, <3>3, TaskTypeOK DEF TaskTypeOK
  <2>4. pending' \in SUBSET Loops OBVIOUS
  <2> QED BY ONLY <2>1, <2>2, <2>3, <2>4, TaskTypeOK
<1>14. ASSUME UNCHANGED vars PROVE TaskTypeOK' BY <1>14 DEF vars
<1> QED BY ONLY <1>1, <1>2, <1>3, <1>4, <1>5, <1>6, <1>7, <1>8, <1>9, <1>10, <1>11, <1>12,
           <1>13, <1>14 DEF Next, CallerStep

(* Who holds the lock, and since when. *)
LEMMA NextLockInv == IInv /\ [Next]_vars => LockInv' /\ HolderInv'
<1> DEFINE Goal == LockInv' /\ HolderInv'
<1> SUFFICES ASSUME IInv PROVE [Next]_vars => Goal OBVIOUS
<1> USE SchedulerAssumption DEF IInv, TypeOK, LockTypeOK, TaskTypeOK, LockInv, HolderInv, lockVars, taskVars
<1>1. ASSUME NEW c \in Callers, Call(c) PROVE Goal
  BY <1>1 DEF Call
<1>2. ASSUME NEW c \in Callers, Start(c) PROVE Goal
  BY <1>2 DEF Start
<1>3. ASSUME NEW c \in Callers, Stop(c) PROVE Goal
  BY <1>3, ZenonT(40) DEF Stop, BeginStop
<1>4. ASSUME NEW c \in Callers, Pause(c) PROVE Goal
  BY <1>4 DEF Pause, BeginStop, TooManyGuards
<1>5. ASSUME NEW c \in Callers, RestartCheck(c) PROVE Goal
  BY <1>5 DEF RestartCheck
<1>6. ASSUME NEW c \in Callers, Interrupt(c) PROVE Goal
  BY <1>6 DEF Interrupt
<1>7. ASSUME NEW c \in Callers, DropGuard(c) PROVE Goal
  BY <1>7 DEF DropGuard
<1>8. ASSUME NEW c \in Callers, StopDone(c) PROVE Goal
  BY <1>8 DEF StopDone
<1>9. ASSUME Resume PROVE Goal BY <1>9 DEF Resume, LastGuard
<1>10. ASSUME NEW l \in Loops, Spawn(l) PROVE Goal BY <1>10 DEF Spawn
<1>11. ASSUME StartDone PROVE Goal BY <1>11 DEF StartDone, EndStart, Starting
<1>12. ASSUME StartFail PROVE Goal BY <1>12 DEF StartFail, EndStart, Starting
<1>13. ASSUME NEW g \in Gens, NEW l \in Loops, LoopStep(g, l) PROVE Goal
  <2>1. UNCHANGED <<lockVars, lock, pc, gen>>
    BY <1>13 DEF LoopStep, LoopFrame, LoopStarted, LoopWork, LoopIdle, LoopAsksRead,
                 LoopInterrupts, LoopWakes, LoopRetries, LoopExit, LoopHangs
  <2> QED BY <2>1
<1>14. ASSUME UNCHANGED vars PROVE Goal BY <1>14 DEF vars
<1> QED BY ONLY <1>1, <1>2, <1>3, <1>4, <1>5, <1>6, <1>7, <1>8, <1>9, <1>10, <1>11, <1>12,
           <1>13, <1>14 DEF Next, CallerStep

(* The inductive invariant holds always. *)
LEMMA Invariance == Spec => []IInv
<1>1. Init => IInv BY InitIInv
<1>2. IInv /\ [Next]_vars => IInv'
  BY NextLockTypeOK, NextTaskTypeOK, NextLockInv DEF IInv, TypeOK
<1> QED BY <1>1, <1>2, PTL DEF Spec

(* Every variable of the scheduler keeps its type, so the pause counter never *)
(* overflows, in any interleaving of any number of callers.                   *)
THEOREM TypeCorrect == Spec => []TypeOK
<1>1. IInv => TypeOK BY DEF IInv
<1> QED BY <1>1, Invariance, PTL

-----------------------------------------------------------------------------
(* The guards.  Callers that have or are about to be handed one: *)
Holders == {c \in Callers : pc[c] \in {"guarding", "stopping_pause"}}
Resuming == IF lock = Resumer THEN 1 ELSE 0

LEMMA HoldersFinite == IsFiniteSet(Holders) /\ Cardinality(Holders) \in Nat
<1>1. IsFiniteSet(Holders) BY SchedulerAssumption, FS_Subset DEF Holders
<1> QED BY <1>1, FS_CardinalityType

(* One caller more or less has a guard. *)
LEMMA HoldersAdd ==
    ASSUME NEW c \in Callers, c \notin Holders, Holders' = Holders \cup {c}
    PROVE  Cardinality(Holders') = Cardinality(Holders) + 1
BY HoldersFinite, FS_AddElement

LEMMA HoldersRemove ==
    ASSUME NEW c \in Callers, c \in Holders, Holders' = Holders \ {c}
    PROVE  Cardinality(Holders') = Cardinality(Holders) - 1
BY HoldersFinite, FS_RemoveElement

LEMMA NextGuards ==
    ASSUME ~StartMayFail, IInv, GuardsAccounted, [Next]_vars
    PROVE  GuardsAccounted'
<1> DEFINE Count == Cardinality(Holders)
<1>a. /\ LiveGuards = Count + dropped + Resuming
      /\ LiveGuards' = Count' + dropped' + Resuming'
  BY DEF LiveGuards, Holders, Resuming
<1>b. Count \in Nat /\ dropped \in Nat /\ Resuming \in {0, 1}
  BY HoldersFinite DEF Resuming, IInv, TypeOK, LockTypeOK
<1>c. IF state = "Paused" THEN pause_guards_count = Count + dropped + Resuming
                          ELSE Count + dropped + Resuming = 0 /\ pause_guards_count = 0
  BY <1>a DEF GuardsAccounted
<1> DEFINE Goal == IF state' = "Paused"
                   THEN pause_guards_count' = Count' + dropped' + Resuming'
                   ELSE Count' + dropped' + Resuming' = 0 /\ pause_guards_count' = 0
<1> SUFFICES Goal BY <1>a DEF GuardsAccounted
<1> HIDE <1>a
<1> HIDE DEF Count
<1> USE SchedulerAssumption
<1>0. ASSUME UNCHANGED <<lockVars, Holders, dropped, Resuming>> PROVE Goal
  BY <1>0, <1>c DEF lockVars, Count
<1>1. ASSUME NEW c \in Callers, Call(c) PROVE Goal
  <2>1. Holders' = Holders
    BY <1>1 DEF Call, Holders, Pcs, AllOps, IInv, TypeOK, LockTypeOK
  <2> QED BY <1>0, <1>1, <2>1 DEF Call, Resuming
<1>2. ASSUME NEW c \in Callers, Start(c) PROVE Goal
  <2>1. Holders' = Holders BY <1>2 DEF Start, Holders, IInv, TypeOK, LockTypeOK
  <2>2. Resuming' = Resuming BY <1>2 DEF Start, Resuming
  <2>3. Count' = Count BY <2>1 DEF Count
  <2> QED BY <1>2, <1>b, <1>c, <2>2, <2>3 DEF Start, lockVars
<1>3. ASSUME NEW c \in Callers, Stop(c) PROVE Goal
  <2>1. Holders' = Holders BY <1>3 DEF Stop, Holders, IInv, TypeOK, LockTypeOK
  <2>2. Resuming' = Resuming BY <1>3 DEF Stop, Resuming
  <2>3. Count' = Count BY <2>1 DEF Count
  <2> QED BY <1>3, <1>b, <1>c, <2>2, <2>3 DEF Stop, BeginStop, lockVars
<1>4. ASSUME NEW c \in Callers, Pause(c) PROVE Goal
  <2>1. Resuming = 0 /\ Resuming' = 0 /\ dropped' = dropped
    BY <1>4 DEF Pause, Resuming
  <2>2. c \notin Holders BY <1>4 DEF Pause, Holders
  <2>3. CASE state = "Paused" /\ TooManyGuards
    <3>1. Holders' = Holders BY <1>4, <2>3 DEF Pause, Holders, IInv, TypeOK, LockTypeOK
    <3>2. UNCHANGED lockVars BY <1>4, <2>3 DEF Pause, lockVars
    <3> QED BY <1>0, <2>1, <3>1, <3>2
  <2>4. CASE ~(state = "Paused" /\ TooManyGuards)
    <3>1. Holders' = Holders \cup {c}
      BY <1>4, <2>4 DEF Pause, Holders, IInv, TypeOK, LockTypeOK
    <3>2. Count' = Count + 1 BY <2>2, <3>1, HoldersAdd DEF Count
    <3>3. state' = "Paused" /\ pause_guards_count' = IF state = "Paused" THEN pause_guards_count + 1 ELSE 1
      BY <1>4, <2>4 DEF Pause, BeginStop
    <3> QED BY <1>b, <1>c, <2>1, <3>2, <3>3
  <2> QED BY <2>3, <2>4
<1>5. ASSUME NEW c \in Callers, RestartCheck(c) PROVE Goal
  <2>1. Holders' = Holders
    BY <1>5 DEF RestartCheck, Holders, IInv, TypeOK, LockTypeOK
  <2> QED BY <1>0, <1>5, <2>1 DEF RestartCheck, Resuming
<1>6. ASSUME NEW c \in Callers, Interrupt(c) PROVE Goal
  <2>1. Holders' = Holders
    BY <1>6 DEF Interrupt, Interrupts, Holders, IInv, TypeOK, LockTypeOK
  <2> QED BY <1>0, <1>6, <2>1 DEF Interrupt, Resuming
<1>7. ASSUME NEW c \in Callers, DropGuard(c) PROVE Goal
  <2>1. Holders' = Holders \ {c} /\ c \in Holders
    BY <1>7 DEF DropGuard, Holders, IInv, TypeOK, LockTypeOK
  <2>2. Count' = Count - 1 BY <2>1, HoldersRemove DEF Count
  <2>3. Resuming' = Resuming BY <1>7 DEF DropGuard, Resuming
  <2> QED BY <1>7, <1>b, <1>c, <2>2, <2>3 DEF DropGuard, lockVars
<1>8. ASSUME NEW c \in Callers, StopDone(c) PROVE Goal
  <2>1. Holders' = Holders BY <1>8 DEF StopDone, Holders, IInv, TypeOK, LockTypeOK
  <2>2. Resuming' = Resuming BY <1>8 DEF StopDone, Resuming
  <2> QED BY <1>0, <1>8, <2>1, <2>2 DEF StopDone
<1>9. ASSUME Resume PROVE Goal
  <2>1. Holders' = Holders BY <1>9 DEF Resume, Holders
  <2>2. Count' = Count BY <2>1 DEF Count
  <2>3. Resuming = 0 /\ Resuming' = IF lock' = Resumer THEN 1 ELSE 0
    BY <1>9 DEF Resume, Resuming
  <2>4. dropped > 0 /\ dropped' = dropped - 1 BY <1>9 DEF Resume
  <2>5. state = "Paused" BY <1>b, <1>c, <2>3, <2>4
  <2>6. \/ /\ pause_guards_count' = pause_guards_count - 1
           /\ state' = "Paused" /\ lock' # Resumer
        \/ /\ pause_guards_count' = pause_guards_count /\ state' = "Paused" /\ lock' = Resumer
        \/ /\ pause_guards_count = 1 /\ pause_guards_count' = 0
           /\ state' = "Stopped" /\ lock' # Resumer
    BY <1>9, <2>5 DEF Resume, LastGuard, lockVars
  <2> QED BY <1>b, <1>c, <2>2, <2>3, <2>4, <2>5, <2>6
<1>10. ASSUME NEW l \in Loops, Spawn(l) PROVE Goal
  <2>1. Holders' = Holders /\ Resuming' = Resuming BY <1>10 DEF Spawn, Holders, Resuming
  <2> QED BY <1>0, <1>10, <2>1 DEF Spawn
<1>11. ASSUME StartDone PROVE Goal
  <2>1. Holders' = Holders
    BY <1>11 DEF StartDone, Starting, EndStart, Holders, IInv, TypeOK, LockTypeOK
  <2>2. Count' = Count BY <2>1 DEF Count
  <2>3. Count = 0 /\ dropped = 0
    <3>1. CASE lock = Resumer
      BY <3>1, <1>b, <1>c DEF Resuming, IInv, HolderInv
    <3>2. CASE lock \in Callers /\ pc[lock] = "starting"
      BY <3>2, <1>b, <1>c DEF IInv, HolderInv
    <3> QED BY <1>11, <3>1, <3>2 DEF StartDone, Starting
  <2>4. Resuming' = 0 BY <1>11 DEF StartDone, EndStart, Resuming
  <2> QED BY <1>11, <2>2, <2>3, <2>4 DEF StartDone
<1>13. ASSUME NEW g \in Gens, NEW l \in Loops, LoopStep(g, l) PROVE Goal
  <2>1. UNCHANGED <<lockVars, lock, pc, dropped>>
    BY <1>13 DEF LoopStep, LoopFrame, LoopStarted, LoopWork, LoopIdle, LoopAsksRead,
                 LoopInterrupts, LoopWakes, LoopRetries, LoopExit, LoopHangs
  <2>2. Holders' = Holders /\ Resuming' = Resuming BY <2>1 DEF Holders, Resuming
  <2> QED BY <1>0, <2>1, <2>2
<1>14. ASSUME UNCHANGED vars PROVE Goal
  BY <1>0, <1>14 DEF vars, lockVars, Holders, Resuming
<1>15. ~StartFail BY DEF StartFail
<1> QED BY ONLY <1>1, <1>2, <1>3, <1>4, <1>5, <1>6, <1>7, <1>8, <1>9, <1>10, <1>11,
           <1>13, <1>14, <1>15, [Next]_vars DEF Next, CallerStep

(* As long as starting does not fail, pause_guards_count is the number of     *)
(* guards that exist and IO is paused only while there is one, for any number *)
(* of clients, calls and transports.                                          *)
THEOREM GuardsCounted ==
    ASSUME ~StartMayFail
    PROVE  Spec => []GuardsAccounted
<1>1. Init => GuardsAccounted
  <2> SUFFICES ASSUME Init PROVE GuardsAccounted OBVIOUS
  <2>1. {c \in Callers : pc[c] \in {"guarding", "stopping_pause"}} = {} BY DEF Init
  <2>2. Cardinality({c \in Callers : pc[c] \in {"guarding", "stopping_pause"}}) = 0
    BY <2>1, FS_EmptySet
  <2> QED BY <2>2, SchedulerAssumption DEF Init, GuardsAccounted, LiveGuards
<1>2. IInv /\ GuardsAccounted /\ [Next]_vars => GuardsAccounted' BY NextGuards
<1> QED BY <1>1, <1>2, Invariance, PTL DEF Spec

-----------------------------------------------------------------------------
(* The loops.  Ended or never spawned: every loop of an older Scheduler, and  *)
(* every loop at all once a stop has returned.                                *)
Quiet == {"none", "done"}

LoopInv ==
    /\ \A g \in Gens, l \in Loops : loop[g][l] # "hung"
    /\ \A g \in Gens, l \in Loops : g # gen => loop[g][l] \in Quiet
    /\ lock = NoOne /\ state # "Started" => \A g \in Gens, l \in Loops : loop[g][l] \in Quiet

LEMMA NextLoopInv ==
    ASSUME ~StartMayFail, ~LoopsMayHang, IInv, LoopInv, [Next]_vars
    PROVE  LoopInv'
<1> USE SchedulerAssumption DEF Quiet
<1>0. ASSUME UNCHANGED <<loop, gen>>, lock' # NoOne \/ UNCHANGED <<state, lock>> PROVE LoopInv'
  BY <1>0 DEF LoopInv
<1>1. ASSUME NEW c \in Callers, Call(c) PROVE LoopInv'
  BY <1>0, <1>1 DEF Call, lockVars, taskVars
<1>2. ASSUME NEW c \in Callers, Start(c) PROVE LoopInv'
  <2>1. CASE state = "Stopped"
    BY <1>2, <2>1 DEF Start, LoopInv
  <2>2. CASE state # "Stopped"
    <3>1. UNCHANGED <<loop, state, lock>> BY <1>2, <2>2 DEF Start, lockVars
    <3>2. gen' = gen BY <1>2, <3>1 DEF Start
    <3> QED BY <1>0, <3>1, <3>2
  <2> QED BY <2>1, <2>2
<1>3. ASSUME NEW c \in Callers, Stop(c) PROVE LoopInv'
  <2>1. UNCHANGED <<loop, gen>> BY <1>3 DEF Stop, BeginStop, taskVars
  <2>2. lock' # NoOne \/ UNCHANGED <<state, lock>> BY <1>3 DEF Stop, lockVars
  <2> QED BY <1>0, <2>1, <2>2
<1>4. ASSUME NEW c \in Callers, Pause(c) PROVE LoopInv'
  <2>1. UNCHANGED <<loop, gen>> BY <1>4 DEF Pause, BeginStop, taskVars
  <2>2. \/ lock' # NoOne
        \/ UNCHANGED <<state, lock>>
        \/ state = "Stopped" /\ lock = NoOne
    BY <1>4 DEF Pause, lockVars
  <2> QED BY <1>0, <2>1, <2>2 DEF LoopInv
<1>5. ASSUME NEW c \in Callers, RestartCheck(c) PROVE LoopInv'
  BY <1>0, <1>5 DEF RestartCheck, lockVars, taskVars
<1>6. ASSUME NEW c \in Callers, Interrupt(c) PROVE LoopInv'
  BY <1>0, <1>6 DEF Interrupt, lockVars
<1>7. ASSUME NEW c \in Callers, DropGuard(c) PROVE LoopInv'
  BY <1>0, <1>7 DEF DropGuard, lockVars, taskVars
<1>8. ASSUME NEW c \in Callers, StopDone(c) PROVE LoopInv'
  <2>1. \A l \in Loops : loop'[gen][l] = "done" \/ loop'[gen][l] = "hung"
    BY <1>8 DEF StopDone, LoopsJoined, Loops, IInv, LockInv, TypeOK, TaskTypeOK
  <2>2. \A g \in Gens, l \in Loops : /\ g # gen => loop'[g][l] = loop[g][l]
                                     /\ loop'[g][l] = "hung" => loop[g][l] = "hung"
    BY <1>8 DEF StopDone, IInv, TypeOK, TaskTypeOK
  <2> QED BY <1>8, <2>1, <2>2 DEF StopDone, LoopInv
<1>9. ASSUME Resume PROVE LoopInv'
  <2>1. loop' = loop /\ lock = NoOne BY <1>9 DEF Resume
  <2>2. \/ UNCHANGED <<state, lock, gen>>
        \/ state = "Paused" /\ lock' = Resumer
        \/ state = "Paused" /\ gen' = gen
    BY <1>9 DEF Resume, lockVars
  <2>3. CASE state = "Paused" BY <2>1, <2>3 DEF LoopInv
  <2>4. CASE UNCHANGED <<state, lock, gen>> BY <2>1, <2>4 DEF LoopInv
  <2> QED BY <2>2, <2>3, <2>4
<1>10. ASSUME NEW l \in Loops, Spawn(l) PROVE LoopInv'
  <2>1. lock # NoOne /\ lock' = lock /\ gen' = gen BY <1>10 DEF Spawn, Starting
  <2>2. \A g \in Gens, k \in Loops : /\ g # gen => loop'[g][k] = loop[g][k]
                                     /\ loop'[g][k] = "hung" => loop[g][k] = "hung"
    BY <1>10 DEF Spawn, IInv, TypeOK, TaskTypeOK
  <2> QED BY <2>1, <2>2 DEF LoopInv
<1>11. ASSUME StartDone PROVE LoopInv'
  BY <1>11 DEF StartDone, LoopInv, taskVars
<1>13. ASSUME NEW h \in Gens, NEW k \in Loops, LoopStep(h, k) PROVE LoopInv'
  <2>1. /\ loop[h][k] \notin Quiet
        /\ \E t \in LoopStates \ {"hung"} : SetLoop(h, k, t)
        /\ UNCHANGED <<state, lock, gen>>
    BY <1>13 DEF LoopStep, LoopFrame, LoopStarted, LoopWork, LoopIdle, LoopAsksRead, Awaiting, StopsAt,
                 LoopInterrupts, LoopWakes, LoopRetries, LoopExit, LoopHangs, lockVars
  <2>2. h = gen /\ (lock # NoOne \/ state = "Started") BY <2>1 DEF LoopInv
  <2>3. \A g \in Gens, l \in Loops : /\ g # h => loop'[g][l] = loop[g][l]
                                     /\ loop'[g][l] = "hung" => loop[g][l] = "hung"
    BY <2>1 DEF SetLoop, IInv, TypeOK, TaskTypeOK
  <2> QED BY <2>1, <2>2, <2>3 DEF LoopInv
<1>14. ASSUME UNCHANGED vars PROVE LoopInv' BY <1>0, <1>14 DEF vars
<1>15. ~StartFail BY DEF StartFail
<1> QED BY ONLY <1>1, <1>2, <1>3, <1>4, <1>5, <1>6, <1>7, <1>8, <1>9, <1>10, <1>11,
           <1>13, <1>14, <1>15, [Next]_vars DEF Next, CallerStep

(* If starting does not fail and no loop outlives the timeout, loops run only *)
(* for the newest scheduler, and none after stop or pause has returned.       *)
THEOREM NoStrayLoops ==
    ASSUME ~StartMayFail, ~LoopsMayHang
    PROVE  Spec => []OnlyCurrentLoopsRun
<1>1. Init => LoopInv BY SchedulerAssumption DEF Init, LoopInv, Quiet
<1>2. IInv /\ LoopInv /\ [Next]_vars => LoopInv' BY NextLoopInv
<1>3. LoopInv => OnlyCurrentLoopsRun
  BY DEF LoopInv, OnlyCurrentLoopsRun, Quiet, Alive, Awaiting
<1> QED BY <1>1, <1>2, <1>3, Invariance, PTL DEF Spec

-----------------------------------------------------------------------------
(* Requests.  Nobody restarts, and whoever starts the scheduler does so       *)
(* because it was asked for.                                                  *)
WillRun == state = "Started" \/ (state = "Paused" /\ started = TRUE)

RequestInv ==
    /\ \A c \in Callers : pc[c] \notin {"restart", "restart_stop", "restart_start", "stopping_restart"}
    /\ IF Starting THEN requested = TRUE ELSE (requested = TRUE <=> WillRun)

LEMMA NextRequestInv ==
    ASSUME ~StartMayFail, "restart" \notin Ops, IInv, RequestInv, [Next]_vars
    PROVE  RequestInv'
<1> USE SchedulerAssumption DEF IInv, TypeOK, LockTypeOK, LockInv, HolderInv, RequestInv, WillRun, Starting
<1>1. ASSUME NEW c \in Callers, Call(c) PROVE RequestInv'
  BY <1>1 DEF Call, lockVars
<1>2. ASSUME NEW c \in Callers, Start(c) PROVE RequestInv'
  BY <1>2 DEF Start, lockVars
<1>3. ASSUME NEW c \in Callers, Stop(c) PROVE RequestInv'
  BY <1>3 DEF Stop, BeginStop, lockVars
<1>4. ASSUME NEW c \in Callers, Pause(c) PROVE RequestInv'
  BY <1>4 DEF Pause, BeginStop, lockVars
<1>5. ASSUME NEW c \in Callers, RestartCheck(c) PROVE RequestInv'
  BY <1>5 DEF RestartCheck
<1>6. ASSUME NEW c \in Callers, Interrupt(c) PROVE RequestInv'
  BY <1>6 DEF Interrupt, lockVars
<1>7. ASSUME NEW c \in Callers, DropGuard(c) PROVE RequestInv'
  BY <1>7 DEF DropGuard, lockVars
<1>8. ASSUME NEW c \in Callers, StopDone(c) PROVE RequestInv'
  BY <1>8 DEF StopDone, lockVars
<1>9. ASSUME Resume PROVE RequestInv' BY <1>9 DEF Resume, LastGuard, lockVars
<1>10. ASSUME NEW l \in Loops, Spawn(l) PROVE RequestInv' BY <1>10 DEF Spawn, lockVars
<1>11. ASSUME StartDone PROVE RequestInv' BY <1>11 DEF StartDone, EndStart
<1>13. ASSUME NEW g \in Gens, NEW l \in Loops, LoopStep(g, l) PROVE RequestInv'
  <2>1. UNCHANGED <<lockVars, lock, pc, requested>>
    BY <1>13 DEF LoopStep, LoopFrame, LoopStarted, LoopWork, LoopIdle, LoopAsksRead,
                 LoopInterrupts, LoopWakes, LoopRetries, LoopExit, LoopHangs
  <2> QED BY <2>1 DEF lockVars
<1>14. ASSUME UNCHANGED vars PROVE RequestInv' BY <1>14 DEF vars
<1>15. ~StartFail BY DEF StartFail
<1> QED BY ONLY <1>1, <1>2, <1>3, <1>4, <1>5, <1>6, <1>7, <1>8, <1>9, <1>10, <1>11,
           <1>13, <1>14, <1>15, [Next]_vars DEF Next, CallerStep

(* Without restart, and if starting does not fail, IO runs or will be resumed *)
(* exactly if the last of any number of start_io and stop_io calls asked for  *)
(* it, whether or not loops hang.                                             *)
THEOREM LastRequestWins ==
    ASSUME ~StartMayFail, "restart" \notin Ops
    PROVE  Spec => []RequestHonoured
<1>1. Init => RequestInv
  BY SchedulerAssumption DEF Init, RequestInv, WillRun, Starting
<1>2. IInv /\ RequestInv /\ [Next]_vars => RequestInv' BY NextRequestInv
<1>3. IInv /\ RequestInv => RequestHonoured
  BY SchedulerAssumption DEF IInv, TypeOK, LockTypeOK, RequestInv, RequestHonoured, WillRun, Starting
<1> QED BY <1>1, <1>2, <1>3, Invariance, PTL DEF Spec
=============================================================================

--------------------------- MODULE DatabaseProofs ---------------------------
(* Proofs about Database, for any number of tasks and connections: checkpoints *)
(* have the database to themselves, what is cached of the config table is      *)
(* current, and a permit always means a connection.                            *)
EXTENDS Database, FiniteSetTheorems, TLAPS

-----------------------------------------------------------------------------
(* Locks *)

Lock == [readers : SUBSET Tasks, writer : Tasks \cup {NoOne}, queue : Seq(Tasks \X Modes)]

(* Waiting for a lock does not change who holds it. *)
LEMMA AskedLock ==
  ASSUME NEW k \in Lock, NEW t \in Tasks, NEW mode \in Modes
  PROVE  Asked(k, t, mode) \in Lock /\ Asked(k, t, mode).writer = k.writer
<1> DEFINE x == <<t, mode>>
<1>1. k.queue \in Seq(Tasks \X Modes) /\ x \in Tasks \X Modes
  BY DEF Lock
<1> HIDE DEF x
<1>2. Append(k.queue, x) \in Seq(Tasks \X Modes)
  BY <1>1
<1> DEFINE q == Append(k.queue, x)
<1>3. Asked(k, t, mode) = [k EXCEPT !.queue = q]
  BY DEF Asked, x
<1> HIDE DEF q
<1> QED BY <1>2, <1>3 DEF Lock, q

(* Whoever is granted a lock leaves its queue. *)
LEMMA TakenLock ==
  ASSUME NEW k \in Lock, NEW t \in Tasks, NEW mode \in Modes, Granted(k, t, mode)
  PROVE  /\ Taken(k, t, mode) \in Lock
         /\ Taken(k, t, mode).writer = IF mode = "write" THEN t ELSE k.writer
         /\ [k EXCEPT !.queue = Tail(@)] \in Lock
         /\ [k EXCEPT !.queue = Tail(@)].writer = k.writer
<1>1. k.queue \in Seq(Tasks \X Modes) /\ k.queue # <<>>
  BY DEF Lock, Granted
<1>2. Tail(k.queue) \in Seq(Tasks \X Modes)
  BY <1>1
<1> QED BY <1>2 DEF Taken, Lock, Modes

(* Releasing a lock takes it from nobody else. *)
LEMMA ReleasedLock ==
  ASSUME NEW k \in Lock, NEW t \in Tasks
  PROVE  /\ Released(k, t) \in Lock
         /\ Released(k, t).writer = IF k.writer = t THEN NoOne ELSE k.writer
BY DEF Released, Lock

LEMMA FirstLockType ==
  ASSUME NEW o \in AllOps
  PROVE  /\ FirstLock(o)[1] \in {"pool", "cache"}
         /\ FirstLock(o)[2] \in Modes
         /\ FirstLock(o)[3] \in {"lookup", "cache", "swap", "pool"}
BY DEF FirstLock, AllOps, Modes

-----------------------------------------------------------------------------
(* Types *)

LEMMA InitType == Init => TypeOK
<1> SUFFICES ASSUME Init PROVE TypeOK OBVIOUS
<1>1. <<>> \in Seq(Tasks \X Modes) /\ <<>> \in Seq(Tasks)
  OBVIOUS
<1>2. lock \in [Locks -> [readers : SUBSET Tasks, writer : Tasks \cup {NoOne},
                          queue : Seq(Tasks \X Modes)]]
  BY <1>1 DEF Init
<1>3. permits \in Nat
  BY ConnsAssumption, FS_CardinalityType DEF Init
<1> QED BY <1>1, <1>2, <1>3 DEF Init, TypeOK, AllOps, Places, Stages

(* A step moves only its own task, along the places of the code. *)
Moves(t) ==
    \/ Return(t)
    \/ \E place \in Places : Goto(t, place)
    \/ \E place \in Places, s \in Stages : GotoStage(t, place, s)
    \/ \E place \in Places, v \in Values \cup {NoOne} : GotoWith(t, place, v)

LEMMA GotoType ==
  ASSUME TypeOK, NEW t \in Tasks, Moves(t)
  PROVE  /\ pc' \in [Tasks -> Places] /\ op' \in [Tasks -> AllOps]
         /\ stage' \in [Tasks -> Stages] /\ got' \in [Tasks -> Values \cup {NoOne}]
<1> USE DEF TypeOK
<1>1. CASE \E place \in Places : Goto(t, place)
  BY <1>1 DEF Goto
<1>2. CASE \E place \in Places, s \in Stages : GotoStage(t, place, s)
  BY <1>2 DEF GotoStage
<1>3. CASE \E place \in Places, v \in Values \cup {NoOne} : GotoWith(t, place, v)
  BY <1>3 DEF GotoWith
<1>4. CASE Return(t)
  BY <1>4 DEF Return, Places, AllOps, Stages
<1> QED BY <1>1, <1>2, <1>3, <1>4 DEF Moves

(* The waiting tasks stay a sequence of tasks. *)
LEMMA WaitingType ==
  ASSUME TypeOK, NEW t \in Tasks
  PROVE  /\ Append(waiting, t) \in Seq(Tasks)
         /\ waiting # <<>> => Tail(waiting) \in Seq(Tasks)
BY DEF TypeOK

(* What a step does to the locks: their types stay, and so does the holder of *)
(* the write mutex unless the step takes or releases it.                      *)
LEMMA LockStep ==
  ASSUME TypeOK, NEW t \in Tasks,
         Step(t) \/ \E o \in Ops[t] : Begin(t, o)
  PROVE  /\ lock' \in [Locks -> Lock]
         /\ ~LockMutex(t) /\ ~Leave(t) => lock'["write"].writer = lock["write"].writer
         /\ LockMutex(t) => lock["write"].writer = NoOne /\ lock'["write"].writer = t
         /\ Leave(t) => \/ lock'["write"].writer = lock["write"].writer
                       \/ lock["write"].writer = t
<1>0. lock \in [Locks -> Lock] /\ lock["write"] \in Lock /\ lock["cache"] \in Lock /\ lock["pool"] \in Lock
  BY DEF TypeOK, Lock, Locks
<1>1. CASE \E o \in Ops[t] : Begin(t, o)
  <2>1. PICK o \in Ops[t] : Begin(t, o)
    BY <1>1
  <2>2. o \in AllOps
    BY OpsAssumption
  <2> DEFINE f == FirstLock(o)
  <2>3. f[1] \in {"pool", "cache"} /\ f[2] \in Modes
    BY <2>2, FirstLockType
  <2>4. lock' = [lock EXCEPT ![f[1]] = Asked(lock[f[1]], t, f[2])]
    BY <2>1 DEF Begin
  <2> HIDE DEF f
  <2>5. Asked(lock[f[1]], t, f[2]) \in Lock
    BY <2>3, <1>0, AskedLock
  <2>6. ~LockMutex(t) /\ ~Leave(t)
    BY <2>1 DEF Begin, LockMutex, Leave
  <2> QED BY <2>3, <2>4, <2>5, <2>6, <1>0 DEF Locks
<1>2. CASE Lookup(t)
  <2> DEFINE k == [lock["cache"] EXCEPT !.queue = Tail(@)]
  <2>1. k \in Lock
    BY <1>0, <1>2, TakenLock DEF Lookup, Modes
  <2>2. \/ lock' = [lock EXCEPT !["cache"] = k]
        \/ lock' = [lock EXCEPT !["cache"] = Asked(k, t, "write")]
    BY <1>2 DEF Lookup
  <2> HIDE DEF k
  <2>3. Asked(k, t, "write") \in Lock
    BY <2>1, AskedLock DEF Modes
  <2>4. ~LockMutex(t) /\ ~Leave(t)
    BY <1>2 DEF Lookup, LockMutex, Leave
  <2> QED BY <2>1, <2>2, <2>3, <2>4, <1>0 DEF Locks
<1>3. CASE LockCache(t)
  <2>1. LockedCache(t) \in Lock
    BY <1>0, <1>3, TakenLock DEF LockCache, LockedCache, Modes
  <2>2. Asked(lock["pool"], t, "read") \in Lock
    BY <1>0, AskedLock DEF Modes
  <2>3. lock' = [[lock EXCEPT !["cache"] = LockedCache(t)] EXCEPT !["pool"] = Asked(lock["pool"], t, "read")]
    BY <1>0, <1>3 DEF LockCache, Locks
  <2>4. ~LockMutex(t) /\ ~Leave(t)
    BY <1>3 DEF LockCache, LockMutex, Leave
  <2> QED BY <2>1, <2>2, <2>3, <2>4, <1>0 DEF Locks
<1>4. CASE EnterPool(t)
  <2>1. Taken(lock["pool"], t, "read") \in Lock
    BY <1>0, <1>4, TakenLock DEF EnterPool, Modes
  <2>2. Asked(lock["write"], t, "write") \in Lock /\ Asked(lock["write"], t, "write").writer = lock["write"].writer
    BY <1>0, AskedLock DEF Modes
  <2>3. \/ lock' = [lock EXCEPT !["pool"] = Taken(lock["pool"], t, "read")]
        \/ lock' = [[lock EXCEPT !["pool"] = Taken(lock["pool"], t, "read")]
                                EXCEPT !["write"] = Asked(lock["write"], t, "write")]
    BY <1>0, <1>4 DEF EnterPool, Locks
  <2>4. ~LockMutex(t) /\ ~Leave(t)
    BY <1>4 DEF EnterPool, LockMutex, Leave
  <2> QED BY <2>1, <2>2, <2>3, <2>4, <1>0 DEF Locks
<1>5. CASE LockMutex(t)
  <2>1. Taken(lock["write"], t, "write") \in Lock /\ Taken(lock["write"], t, "write").writer = t
    BY <1>0, <1>5, TakenLock DEF LockMutex, Modes
  <2>2. lock["write"].writer = NoOne /\ ~Leave(t)
    BY <1>5 DEF LockMutex, Granted, Leave
  <2> QED BY <2>1, <2>2, <1>0, <1>5 DEF LockMutex, Locks
<1>6. CASE Give(t)
  <2>1. Asked(lock["write"], t, "write") \in Lock /\ Asked(lock["write"], t, "write").writer = lock["write"].writer
    BY <1>0, AskedLock DEF Modes
  <2>2. ~LockMutex(t) /\ ~Leave(t)
    BY <1>6 DEF Give, LockMutex, Leave
  <2> QED BY <2>1, <2>2, <1>0, <1>6 DEF Give, Locks
<1>7. CASE Leave(t)
  <2> DEFINE k == [[lock EXCEPT !["write"] = Released(lock["write"], t)]
                         EXCEPT !["pool"] = Released(lock["pool"], t)]
  <2>1. /\ Released(lock["write"], t) \in Lock /\ Released(lock["pool"], t) \in Lock
        /\ Released(lock["cache"], t) \in Lock /\ Asked(lock["cache"], t, "write") \in Lock
        /\ Released(lock["write"], t).writer = IF lock["write"].writer = t THEN NoOne ELSE lock["write"].writer
    BY <1>0, ReleasedLock, AskedLock DEF Modes
  <2>2. /\ k \in [Locks -> Lock] /\ k["cache"] = lock["cache"]
        /\ k["write"].writer = IF lock["write"].writer = t THEN NoOne ELSE lock["write"].writer
    BY <2>1, <1>0 DEF Locks
  <2>3. k = [lock EXCEPT !["write"] = Released(@, t), !["pool"] = Released(@, t)]
    BY <1>0 DEF Locks
  <2> HIDE DEF k
  <2>4. \/ lock' = k
        \/ lock' = [k EXCEPT !["cache"] = Released(k["cache"], t)]
        \/ lock' = [k EXCEPT !["cache"] = Asked(k["cache"], t, "write")]
    BY <1>7, <2>3 DEF Leave
  <2>5. ~LockMutex(t)
    BY <1>7 DEF LockMutex, Leave
  <2> QED BY <2>1, <2>2, <2>4, <2>5, <1>7 DEF Locks
<1>8. CASE Uncache(t)
  <2> DEFINE k == [lock["cache"] EXCEPT !.queue = Tail(@)]
  <2>1. k \in Lock
    BY <1>0, <1>8, TakenLock DEF Uncache, Modes
  <2>2. lock' = [lock EXCEPT !["cache"] = k]
    BY <1>8, <1>0 DEF Uncache, Locks
  <2> HIDE DEF k
  <2>3. ~LockMutex(t) /\ ~Leave(t)
    BY <1>8 DEF Uncache, LockMutex, Leave
  <2> QED BY <2>1, <2>2, <2>3, <1>0 DEF Locks
<1>9. CASE Swap(t)
  <2> DEFINE k == [lock["pool"] EXCEPT !.queue = Tail(@)]
  <2>1. k \in Lock
    BY <1>0, <1>9, TakenLock DEF Swap, Modes
  <2>2. lock' = [lock EXCEPT !["pool"] = k]
    BY <1>9, <1>0 DEF Swap, Locks
  <2> HIDE DEF k
  <2>3. ~LockMutex(t) /\ ~Leave(t)
    BY <1>9 DEF Swap, LockMutex, Leave
  <2> QED BY <2>1, <2>2, <2>3, <1>0 DEF Locks
<1>10. CASE TakePermit(t) \/ Pop(t) \/ Run(t) \/ Clear(t) \/ ClearGive(t) \/ Full(t) \/ Truncate(t)
  <2>1. lock' = lock
    BY <1>10 DEF TakePermit, Pop, Run, Clear, ClearGive, Full, Truncate
  <2>2. ~LockMutex(t) /\ ~Leave(t)
    BY <1>10 DEF TakePermit, Pop, Run, Clear, ClearGive, Full, Truncate, LockMutex, Leave
  <2> QED BY <2>1, <2>2, <1>0
<1> QED BY <1>1, <1>2, <1>3, <1>4, <1>5, <1>6, <1>7, <1>8, <1>9, <1>10 DEF Step

(* Every step keeps the types. *)
LEMMA StepType ==
  ASSUME TypeOK, NEW t \in Tasks,
         Step(t) \/ \E o \in Ops[t] : Begin(t, o)
  PROVE  TypeOK'
<1>0. lock' \in [Locks -> Lock]
  BY LockStep
<1>1. /\ pc' \in [Tasks -> Places] /\ op' \in [Tasks -> AllOps]
      /\ stage' \in [Tasks -> Stages] /\ got' \in [Tasks -> Values \cup {NoOne}]
  <2>1. CASE \E o \in Ops[t] : Begin(t, o)
    <3>1. PICK o \in Ops[t] : Begin(t, o)
      BY <2>1
    <3>2. o \in AllOps
      BY OpsAssumption
    <3>3. FirstLock(o)[3] \in Places
      BY <3>2, FirstLockType DEF Places
    <3> QED BY <3>1, <3>2, <3>3 DEF Begin, TypeOK
  <2>2. CASE Step(t)
    <3>1. db \in Values
      BY DEF TypeOK
    <3>2. /\ \A x \in {"idle", "cache", "pool", "mutex", "permit", "pop", "run", "give", "leave",
                        "uncache", "clear", "clear_give", "full", "truncate"} : x \in Places
          /\ \A x \in {"cycle", "kick", "end"} : x \in Stages
      BY DEF Places, Stages
    <3> HIDE DEF Places, Stages
    <3>3. Moves(t)
      <4> USE DEF Moves
      <4>1. CASE Lookup(t) \/ LockCache(t) \/ LockMutex(t) \/ TakePermit(t) \/ Uncache(t)
        BY <3>2, <4>1 DEF Lookup, LockCache, LockMutex, TakePermit, Uncache
      <4>2. CASE EnterPool(t)
        BY <3>2, <4>2 DEF EnterPool
      <4>3. CASE Pop(t)
        BY <3>1, <3>2, <4>3 DEF Pop
      <4>4. CASE Run(t)
        BY <3>2, <4>4 DEF Run
      <4>5. CASE Give(t) \/ Clear(t) \/ Full(t) \/ Truncate(t)
        BY <3>2, <4>5 DEF Give, Clear, Full, Truncate
      <4>6. CASE ClearGive(t)
        BY <3>2, <4>6 DEF ClearGive
      <4>7. CASE Leave(t)
        BY <3>2, <4>7 DEF Leave
      <4>8. CASE Swap(t)
        BY <4>8 DEF Swap
      <4> QED BY <2>2, <4>1, <4>2, <4>3, <4>4, <4>5, <4>6, <4>7, <4>8 DEF Step
    <3> QED BY <3>3, GotoType
  <2> QED BY <2>1, <2>2
<1>2. open' \in BOOLEAN /\ db' \in Values /\ cache' \in Values \cup {NoOne}
  BY Zenon DEF TypeOK, Step, Begin, Lookup, LockCache, EnterPool, LockMutex, TakePermit, Pop, Run,
     Give, Leave, Uncache, Clear, ClearGive, Full, Truncate, Swap
<1>3. permits' \in Nat
  <2>1. permits' \in {permits, permits + 1} \/ (permits > 0 /\ permits' = permits - 1)
    BY Zenon DEF TypeOK, Step, Begin, Lookup, LockCache, EnterPool, LockMutex, TakePermit, Pop, Run,
       Give, Leave, Uncache, Clear, ClearGive, Full, Truncate, Swap
  <2> QED BY <2>1 DEF TypeOK
<1>4. waiting' \in Seq(Tasks)
  <2>1. waiting' \in {waiting, Append(waiting, t)} \/ (waiting # <<>> /\ waiting' = Tail(waiting))
    BY DEF Step, Begin, Lookup, LockCache, EnterPool, LockMutex, TakePermit, Pop, Run,
     Give, Leave, Uncache, Clear, ClearGive, Full, Truncate, Swap
  <2> QED BY <2>1, WaitingType DEF TypeOK
<1>5. holder' \in [Conns -> Tasks \cup {NoOne}] /\ old' \in SUBSET Conns
  <2>1. CASE Run(t) \/ Clear(t)
    <3>1. PutBack(t, TRUE) \/ PutBack(t, FALSE)
      BY <2>1 DEF Run, Clear
    <3> QED BY <3>1 DEF PutBack, TypeOK, Held
  <2>2. CASE Pop(t)
    BY <2>2 DEF Pop, TypeOK, Free, Held
  <2>3. CASE ~Run(t) /\ ~Clear(t) /\ ~Pop(t)
    <3>1. holder' = holder /\ old' = old
      BY <2>3 DEF Step, Begin, Lookup, LockCache, EnterPool, LockMutex, TakePermit,
         Give, Leave, Uncache, ClearGive, Full, Truncate, Swap
    <3> QED BY <3>1 DEF TypeOK
  <2> QED BY <2>1, <2>2, <2>3
<1> QED BY <1>0, <1>1, <1>2, <1>3, <1>4, <1>5 DEF TypeOK, Lock

(* The variables of Database keep their types. *)
THEOREM DatabaseTypes == Spec => []TypeOK
<1>1. TypeOK /\ [Next]_vars => TypeOK'
  <2> SUFFICES ASSUME TypeOK, [Next]_vars PROVE TypeOK'
    OBVIOUS
  <2>1. CASE Next
    BY <2>1, StepType DEF Next
  <2>2. CASE UNCHANGED vars
    BY <2>2 DEF vars, TypeOK
  <2> QED BY <2>1, <2>2
<1> QED BY InitType, <1>1, PTL DEF Spec

-----------------------------------------------------------------------------
(* Who holds what *)

LEMMA OneMore ==
  ASSUME NEW S, NEW x, IsFiniteSet(S), x \notin S
  PROVE  IsFiniteSet(S \cup {x}) /\ Cardinality(S \cup {x}) = Cardinality(S) + 1
BY FS_AddElement

(* Whoever has all connections but one and takes one more has them all. *)
LEMMA TakesAll ==
  ASSUME NEW H \in SUBSET Conns, NEW c \in Conns, c \notin H,
         Cardinality(H) + 1 >= Cardinality(Conns)
  PROVE  H \cup {c} = Conns
<1>1. IsFiniteSet(Conns) /\ H \cup {c} \subseteq Conns
  BY ConnsAssumption
<1>2. IsFiniteSet(H)
  BY <1>1, FS_Subset
<1>3. Cardinality(H \cup {c}) = Cardinality(H) + 1
  BY <1>2, OneMore
<1>4. Cardinality(H \cup {c}) <= Cardinality(Conns)
  BY <1>1, FS_Subset
<1>5. Cardinality(H) \in Nat /\ Cardinality(Conns) \in Nat
  BY <1>1, <1>2, FS_CardinalityType
<1> QED BY <1>1, <1>3, <1>4, <1>5, FS_Subset

LEMMA OneLess ==
  ASSUME NEW S, NEW x, IsFiniteSet(S), x \in S
  PROVE  IsFiniteSet(S \ {x}) /\ Cardinality(S \ {x}) = Cardinality(S) - 1
BY FS_RemoveElement

Collecting == {"permit", "pop", "clear", "clear_give", "full", "truncate"}
Alone == {"clear", "clear_give", "full"}

(* A task in the part of wal_checkpoint that runs under the write lock. *)
Checkpoints(u) == op[u] = "checkpoint" /\ stage[u] # "passive" /\ pc[u] \in Collecting

(* Only tasks that run a function or do a checkpoint have connections, and    *)
(* one of the former has just one.                                            *)
UsersHold ==
    /\ \A c \in Conns : holder[c] \in Tasks => pc[holder[c]] = "run" \/ Checkpoints(holder[c])
    /\ \A c, d \in Conns : holder[c] = holder[d] /\ holder[c] \in Tasks /\ pc[holder[c]] = "run" => c = d

(* Whoever writes, and a checkpoint after its first part, has the write mutex. *)
WritersLocked ==
    \A u \in Tasks :
       (Writes(op[u]) /\ pc[u] \in {"permit", "pop", "run", "give"}) \/ Checkpoints(u)
       => lock["write"].writer = u

(* The stages of a checkpoint. *)
StagesFit ==
    \A u \in Tasks :
       /\ stage[u] # "passive" => op[u] = "checkpoint"
       /\ pc[u] \in {"idle", "lookup", "cache", "pool", "swap"} => stage[u] = "passive"
       /\ pc[u] \in {"clear", "clear_give", "full", "truncate"} => stage[u] # "passive"
       /\ pc[u] = "full" => stage[u] = "cycle"

(* Connections in the pool have no snapshot. *)
OldInUse == \A c \in old : holder[c] # NoOne

(* A checkpoint that has taken all connections has them all, and from then on *)
(* until FULL is done nobody else has an old snapshot.                        *)
HasThemAll ==
    \A u \in Tasks :
       /\ pc[u] = "truncate" => \A c \in Conns : holder[c] = u
       /\ pc[u] \in Alone /\ stage[u] = "cycle" => \A c \in old : holder[c] = u

PoolInv == UsersHold /\ WritersLocked /\ StagesFit /\ OldInUse /\ HasThemAll

LEMMA InitPool == Init => PoolInv
BY NoOneAssumption
   DEF Init, PoolInv, UsersHold, WritersLocked, StagesFit, OldInUse, HasThemAll, Checkpoints,
       Collecting, Alone, Writes

(* The invariant means what CheckpointsWhole says. *)
LEMMA PoolWhole == TypeOK /\ PoolInv => CheckpointsWhole
<1> SUFFICES ASSUME TypeOK, PoolInv, NEW t \in Tasks, NEW u \in Tasks \ {t}, NEW c \in Held(u),
                    pc[t] \in {"full", "truncate"}
             PROVE  pc[t] = "full" /\ c \notin old /\ ~Writes(op[u])
  BY DEF CheckpointsWhole, Held
<1>1. c \in Conns /\ holder[c] = u
  BY DEF Held
<1>2. pc[t] = "full" /\ stage[t] = "cycle" /\ op[t] = "checkpoint"
  BY <1>1 DEF PoolInv, HasThemAll, StagesFit
<1>3. c \notin old
  BY <1>1, <1>2 DEF PoolInv, HasThemAll, Alone
<1>4. lock["write"].writer = t
  BY <1>2 DEF PoolInv, WritersLocked, Checkpoints, Collecting
<1>5. pc[u] = "run" \/ op[u] = "checkpoint"
  BY <1>1 DEF PoolInv, UsersHold, Checkpoints
<1>6. ~Writes(op[u])
  BY <1>4, <1>5 DEF PoolInv, WritersLocked, Writes
<1> QED BY <1>2, <1>3, <1>6

(* Every step keeps it. *)
LEMMA PoolStep ==
  ASSUME TypeOK, PoolInv, NEW t \in Tasks,
         Step(t) \/ \E o \in Ops[t] : Begin(t, o)
  PROVE  PoolInv'
<1>0. TypeOK'
  BY StepType
<1>a. NoOne \notin Tasks
  BY NoOneAssumption
<1> USE <1>a DEF PoolInv, UsersHold, WritersLocked, StagesFit, OldInUse, HasThemAll, Checkpoints,
    Collecting, Alone, Writes
<1>b. /\ ~LockMutex(t) /\ ~Leave(t) => lock'["write"].writer = lock["write"].writer
      /\ LockMutex(t) => lock["write"].writer = NoOne /\ lock'["write"].writer = t
      /\ Leave(t) => \/ lock'["write"].writer = lock["write"].writer
                    \/ lock["write"].writer = t
  BY LockStep
<1>c. /\ holder \in [Conns -> Tasks \cup {NoOne}] /\ old \in SUBSET Conns
      /\ op \in [Tasks -> AllOps] /\ pc \in [Tasks -> Places]
      /\ stage \in [Tasks -> Stages] /\ got \in [Tasks -> Values \cup {NoOne}]
  BY DEF TypeOK
<1>1. CASE \E o \in Ops[t] : Begin(t, o)
  <2>1. PICK o \in Ops[t] : Begin(t, o)
    BY <1>1
  <2>2. o \in AllOps
    BY OpsAssumption
  <2>3. FirstLock(o)[3] \in {"lookup", "cache", "swap", "pool"}
    BY <2>2, FirstLockType
  <2>4. /\ pc[t] = "idle" /\ pc' = [pc EXCEPT ![t] = FirstLock(o)[3]] /\ op' = [op EXCEPT ![t] = o]
        /\ UNCHANGED <<stage, holder, old>>
    BY <2>1 DEF Begin
  <2>5. lock'["write"].writer = lock["write"].writer
    BY <1>b, <2>4 DEF LockMutex, Leave
  <2> QED BY <1>c, <2>3, <2>4, <2>5
<1>2. CASE Lookup(t)
  <2>1. lock'["write"].writer = lock["write"].writer
    BY <1>2, <1>b DEF Lookup, LockMutex, Leave
  <2> QED BY <1>c, <1>2, <2>1 DEF Lookup, Goto, GotoStage, GotoWith, Return
<1>3. CASE LockCache(t)
  <2>1. lock'["write"].writer = lock["write"].writer
    BY <1>3, <1>b DEF LockCache, LockMutex, Leave
  <2> QED BY <1>c, <1>3, <2>1 DEF LockCache, Goto, GotoStage, GotoWith, Return
<1>4. CASE EnterPool(t)
  <2>1. lock'["write"].writer = lock["write"].writer
    BY <1>4, <1>b DEF EnterPool, LockMutex, Leave
  <2> QED BY <1>c, <1>4, <2>1 DEF EnterPool, Goto, GotoStage, GotoWith, Return
<1>5. CASE LockMutex(t)
  BY <1>b, <1>c, <1>5 DEF LockMutex, Goto, GotoStage, GotoWith, Return
<1>6. CASE TakePermit(t)
  <2>1. lock'["write"].writer = lock["write"].writer
    BY <1>6, <1>b DEF TakePermit, LockMutex, Leave
  <2> QED BY <1>c, <1>6, <2>1 DEF TakePermit, Goto, GotoStage, GotoWith, Return
<1>7. CASE Give(t)
  <2>1. lock'["write"].writer = lock["write"].writer
    BY <1>7, <1>b DEF Give, LockMutex, Leave
  <2> QED BY <1>c, <1>7, <2>1 DEF Give, Goto, GotoStage, GotoWith, Return
<1>8. CASE Leave(t)
  BY <1>b, <1>c, <1>8 DEF Leave, Goto, GotoStage, GotoWith, Return
<1>9. CASE Uncache(t)
  <2>1. lock'["write"].writer = lock["write"].writer
    BY <1>9, <1>b DEF Uncache, LockMutex, Leave
  <2> QED BY <1>c, <1>9, <2>1 DEF Uncache, Goto, GotoStage, GotoWith, Return
<1>10. CASE ClearGive(t)
  <2>1. lock'["write"].writer = lock["write"].writer
    BY <1>10, <1>b DEF ClearGive, LockMutex, Leave
  <2>2. PICK place \in {"full", "leave", "clear"} :
           /\ pc[t] = "clear_give" /\ pc' = [pc EXCEPT ![t] = place]
           /\ UNCHANGED <<op, stage, holder, old>>
           /\ place = "full" => stage[t] = "cycle"
           /\ place = "leave" => Held(t) = {}
    BY <1>10 DEF ClearGive, Goto
  <2>3. place = "leave" => \A c \in Conns : holder[c] # t
    BY <2>2 DEF Held
  <2> QED BY <1>c, <2>1, <2>2, <2>3
<1>11. CASE Full(t)
  <2>1. lock'["write"].writer = lock["write"].writer
    BY <1>11, <1>b DEF Full, LockMutex, Leave
  <2> QED BY <1>c, <1>11, <2>1 DEF Full, Goto, GotoStage, GotoWith, Return
<1>12. CASE Truncate(t)
  <2>1. lock'["write"].writer = lock["write"].writer
    BY <1>12, <1>b DEF Truncate, LockMutex, Leave
  <2> QED BY <1>c, <1>12, <2>1 DEF Truncate, Goto, GotoStage, GotoWith, Return
<1>13. CASE Swap(t)
  <2>1. lock'["write"].writer = lock["write"].writer
    BY <1>13, <1>b DEF Swap, LockMutex, Leave
  <2> QED BY <1>c, <1>13, <2>1 DEF Swap, Goto, GotoStage, GotoWith, Return
<1>14. CASE Pop(t)
  <2>1. PICK c \in Free : holder' = [holder EXCEPT ![c] = t]
    BY <1>14 DEF Pop
  <2>2. c \in Conns /\ holder[c] = NoOne /\ c \notin old
    BY <2>1 DEF Free, Held
  <2>3. /\ pc[t] = "pop" /\ old' = old /\ op' = op /\ stage' = stage
        /\ lock'["write"].writer = lock["write"].writer
    BY <1>14, <1>b DEF Pop, LockMutex, Leave, Goto, GotoWith
  <2>4. PICK place \in {"run", "permit", "clear", "truncate"} :
           /\ pc' = [pc EXCEPT ![t] = place]
           /\ place = "run" <=> op[t] # "checkpoint" \/ stage[t] = "passive"
           /\ place \in {"clear", "truncate"} => Cardinality(Held(t)) + 1 >= Wanted
    <3>1. Cardinality(Held(t)) + 1 < Wanted \/ Cardinality(Held(t)) + 1 >= Wanted
      <4>1. IsFiniteSet(Conns) /\ Held(t) \subseteq Conns
        BY ConnsAssumption DEF Held
      <4>2. Cardinality(Held(t)) \in Nat /\ Cardinality(Conns) \in Nat
        BY <4>1, FS_Subset, FS_CardinalityType
      <4> QED BY <4>2 DEF Wanted
    <3> QED BY <1>14, <3>1 DEF Pop, Goto, GotoWith
  <2>5. place \in {"clear", "truncate"} => \A d \in Conns : holder'[d] = t
    <3> SUFFICES ASSUME Cardinality(Held(t)) + 1 >= Cardinality(Conns)
                 PROVE  \A d \in Conns : holder'[d] = t
      BY <2>4 DEF Wanted
    <3>1. Held(t) \in SUBSET Conns /\ c \notin Held(t)
      BY <1>a, <2>2 DEF Held
    <3>2. Held(t) \cup {c} = Conns
      BY <2>2, <3>1, TakesAll
    <3> QED BY <1>c, <2>1, <2>2, <3>2 DEF Held
  <2>6. UsersHold'
    BY <1>c, <2>1, <2>2, <2>3, <2>4
  <2>7. WritersLocked' /\ StagesFit'
    BY <1>c, <2>3, <2>4
  <2>8. OldInUse'
    BY <1>c, <2>1, <2>2, <2>3
  <2>9. HasThemAll'
    BY <1>c, <2>1, <2>2, <2>3, <2>4, <2>5
  <2> QED BY <2>6, <2>7, <2>8, <2>9
<1>15. CASE Run(t)
  <2>1. PICK committed \in BOOLEAN : PutBack(t, committed) /\ (committed => Writes(op[t]))
    BY <1>15 DEF Run
  <2>2. PICK c \in Held(t) :
           /\ holder' = [holder EXCEPT ![c] = NoOne]
           /\ old' = IF committed THEN {b \in Conns : holder[b] \notin {t, NoOne}} ELSE old \ {c}
    BY <2>1 DEF PutBack
  <2>3. c \in Conns /\ holder[c] = t
    BY <2>2 DEF Held
  <2>4. /\ pc[t] = "run" /\ pc' = [pc EXCEPT ![t] = "give"] /\ op' = op
        /\ stage' = stage \/ (op[t] = "checkpoint" /\ stage' = [stage EXCEPT ![t] = "end"])
        /\ lock'["write"].writer = lock["write"].writer
    BY <1>15, <1>b DEF Run, LockMutex, Leave, Goto, GotoWith, GotoStage
  <2>5. UsersHold'
    BY <1>c, <2>2, <2>3, <2>4
  <2>6. WritersLocked' /\ StagesFit'
    BY <1>c, <2>4
  <2>7. OldInUse'
    BY <1>c, <2>2, <2>3
  <2>8. committed => \A u \in Tasks : ~Checkpoints(u)
    BY <2>1, <2>4
  <2>9. HasThemAll'
    <3> SUFFICES ASSUME NEW u \in Tasks, u # t
                 PROVE  /\ pc'[u] = "truncate" => \A d \in Conns : holder'[d] = u
                        /\ pc'[u] \in Alone /\ stage'[u] = "cycle" => \A d \in old' : holder'[d] = u
      BY <1>c, <2>4
    <3>1. pc'[u] = pc[u] /\ stage'[u] = stage[u]
      BY <1>c, <2>4
    <3>2. pc[u] # "truncate"
      BY <2>3
    <3>3. ASSUME pc[u] \in Alone, stage[u] = "cycle" PROVE \A d \in old' : holder'[d] = u
      <4>1. ~committed
        BY <2>8, <3>3
      <4> QED BY <1>c, <2>2, <2>3, <3>3, <4>1
    <3> QED BY <3>1, <3>2, <3>3
  <2> QED BY <2>5, <2>6, <2>7, <2>9
<1>16. CASE Clear(t)
  <2>1. PICK c \in Held(t) : holder' = [holder EXCEPT ![c] = NoOne] /\ old' = old \ {c}
    BY <1>16 DEF Clear, PutBack
  <2>2. c \in Conns /\ holder[c] = t
    BY <2>1 DEF Held
  <2>3. /\ pc[t] = "clear" /\ pc' = [pc EXCEPT ![t] = "clear_give"] /\ op' = op /\ stage' = stage
        /\ lock'["write"].writer = lock["write"].writer
    BY <1>16, <1>b DEF Clear, LockMutex, Leave, Goto
  <2>4. UsersHold'
    BY <1>c, <2>1, <2>2, <2>3
  <2>5. WritersLocked' /\ StagesFit'
    BY <1>c, <2>3
  <2>6. OldInUse' /\ HasThemAll'
    BY <1>c, <2>1, <2>2, <2>3
  <2> QED BY <2>4, <2>5, <2>6
<1> QED BY <1>1, <1>2, <1>3, <1>4, <1>5, <1>6, <1>7, <1>8, <1>9, <1>10, <1>11, <1>12, <1>13,
           <1>14, <1>15, <1>16 DEF Step

(* A checkpoint is not blocked: when it asks for FULL nobody writes and no     *)
(* reader has an old snapshot, and when it asks for TRUNCATE nobody else has a *)
(* connection, for any number of tasks and connections.                        *)
THEOREM CheckpointsAreWhole == Spec => []CheckpointsWhole
<1>1. Init => TypeOK /\ PoolInv
  BY InitType, InitPool
<1>2. TypeOK /\ PoolInv /\ [Next]_vars => (TypeOK /\ PoolInv)'
  <2> SUFFICES ASSUME TypeOK, PoolInv, [Next]_vars PROVE (TypeOK /\ PoolInv)'
    OBVIOUS
  <2>1. CASE Next
    BY <2>1, StepType, PoolStep DEF Next
  <2>2. CASE UNCHANGED vars
    BY <2>2 DEF vars, TypeOK, PoolInv, UsersHold, WritersLocked, StagesFit, OldInUse, HasThemAll,
       Checkpoints, Collecting, Alone, Writes
  <2> QED BY <2>1, <2>2
<1> QED BY <1>1, <1>2, PoolWhole, PTL DEF Spec

-----------------------------------------------------------------------------
(* The cache of the config table *)

(* Who holds the lock of the cache changes only in LockCache and Leave. *)
LEMMA CacheLockStep ==
  ASSUME TypeOK, NEW t \in Tasks,
         Step(t) \/ \E o \in Ops[t] : Begin(t, o)
  PROVE  /\ ~LockCache(t) /\ ~Leave(t) => lock'["cache"].writer = lock["cache"].writer
         /\ LockCache(t) => lock["cache"].writer = NoOne /\ lock'["cache"].writer = t
         /\ Leave(t) => \/ lock'["cache"].writer = lock["cache"].writer
                       \/ lock["cache"].writer = t
<1>0. lock \in [Locks -> Lock] /\ lock["write"] \in Lock /\ lock["cache"] \in Lock /\ lock["pool"] \in Lock
  BY DEF TypeOK, Lock, Locks
<1>1. CASE \E o \in Ops[t] : Begin(t, o)
  <2>1. PICK o \in Ops[t] : Begin(t, o)
    BY <1>1
  <2> DEFINE f == FirstLock(o)
  <2>2. f[1] \in {"pool", "cache"} /\ f[2] \in Modes
    BY OpsAssumption, FirstLockType
  <2>3. lock' = [lock EXCEPT ![f[1]] = Asked(lock[f[1]], t, f[2])]
    BY <2>1 DEF Begin
  <2> HIDE DEF f
  <2>4. Asked(lock[f[1]], t, f[2]).writer = lock[f[1]].writer
    BY <2>2, <1>0, AskedLock
  <2>5. ~LockCache(t) /\ ~Leave(t)
    BY <2>1 DEF Begin, LockCache, Leave
  <2> QED BY <2>2, <2>3, <2>4, <2>5, <1>0 DEF Locks
<1>2. CASE Lookup(t)
  <2> DEFINE k == [lock["cache"] EXCEPT !.queue = Tail(@)]
  <2>1. k \in Lock /\ k.writer = lock["cache"].writer
    BY <1>0, <1>2, TakenLock DEF Lookup, Modes
  <2>2. \/ lock' = [lock EXCEPT !["cache"] = k]
        \/ lock' = [lock EXCEPT !["cache"] = Asked(k, t, "write")]
    BY <1>2 DEF Lookup
  <2> HIDE DEF k
  <2>3. Asked(k, t, "write").writer = k.writer
    BY <2>1, AskedLock DEF Modes
  <2>4. ~LockCache(t) /\ ~Leave(t)
    BY <1>2 DEF Lookup, LockCache, Leave
  <2> QED BY <2>1, <2>2, <2>3, <2>4, <1>0 DEF Locks
<1>3. CASE LockCache(t)
  <2>1. LockedCache(t).writer = t
    BY <1>0, <1>3, TakenLock DEF LockCache, LockedCache, Modes
  <2>2. lock' = [[lock EXCEPT !["cache"] = LockedCache(t)] EXCEPT !["pool"] = Asked(lock["pool"], t, "read")]
    BY <1>0, <1>3 DEF LockCache, Locks
  <2>3. lock["cache"].writer = NoOne /\ ~Leave(t)
    BY <1>3 DEF LockCache, Granted, Leave
  <2> QED BY <2>1, <2>2, <2>3, <1>3, <1>0 DEF Locks
<1>4. CASE Leave(t)
  <2> DEFINE k == [[lock EXCEPT !["write"] = Released(lock["write"], t)]
                         EXCEPT !["pool"] = Released(lock["pool"], t)]
  <2>1. /\ k["cache"] = lock["cache"] /\ k \in [Locks -> Lock]
        /\ k = [lock EXCEPT !["write"] = Released(@, t), !["pool"] = Released(@, t)]
    BY <1>0, ReleasedLock DEF Locks
  <2>2. /\ Released(lock["cache"], t).writer = IF lock["cache"].writer = t THEN NoOne ELSE lock["cache"].writer
        /\ Asked(lock["cache"], t, "write").writer = lock["cache"].writer
    BY <1>0, ReleasedLock, AskedLock DEF Modes
  <2> HIDE DEF k
  <2>3. \/ lock' = k
        \/ lock' = [k EXCEPT !["cache"] = Released(k["cache"], t)]
        \/ lock' = [k EXCEPT !["cache"] = Asked(k["cache"], t, "write")]
    BY <1>4, <2>1 DEF Leave
  <2>4. ~LockCache(t)
    BY <1>4 DEF Leave, LockCache
  <2> QED BY <2>1, <2>2, <2>3, <2>4, <1>4 DEF Locks
<1>5. CASE Uncache(t)
  <2>1. /\ [lock["cache"] EXCEPT !.queue = Tail(@)].writer = lock["cache"].writer
        /\ lock' = [lock EXCEPT !["cache"] = [lock["cache"] EXCEPT !.queue = Tail(@)]]
    BY <1>0, <1>5, TakenLock DEF Uncache, Modes, Locks
  <2>2. ~LockCache(t) /\ ~Leave(t)
    BY <1>5 DEF Uncache, LockCache, Leave
  <2> QED BY <2>1, <2>2, <1>0 DEF Locks
<1>6. CASE ~(\E o \in Ops[t] : Begin(t, o)) /\ ~Lookup(t) /\ ~LockCache(t) /\ ~Leave(t) /\ ~Uncache(t)
  <2>1. lock'["cache"] = lock["cache"]
    BY <1>0, <1>6 DEF Step, EnterPool, LockMutex, TakePermit, Pop, Run, Give, Clear, ClearGive, Full,
       Truncate, Swap, Locks
  <2> QED BY <1>6, <2>1
<1> QED BY <1>1, <1>2, <1>3, <1>4, <1>5, <1>6

(* A task that has locked the cache and works on the database. *)
Caching(t) ==
    /\ op[t] \in {"get", "set", "import"}
    /\ pc[t] \in {"pool", "mutex", "permit", "pop", "run", "give", "leave"}

(* A task that has written the table and not yet the cache; through           *)
(* set_raw_config, or directly.                                               *)
Storing(t) == op[t] = "set" /\ pc[t] \in {"give", "leave"} /\ got[t] # NoOne

Overwriting(t) ==
    op[t] = "direct" /\ (pc[t] = "uncache" \/ (pc[t] \in {"give", "leave"} /\ got[t] # NoOne))

CacheLocked == \A t \in Tasks : Caching(t) => lock["cache"].writer = t

(* An import has emptied the cache, and nobody fills it meanwhile. *)
ImportUncached == \A t \in Tasks : Caching(t) /\ op[t] = "import" => cache = NoOne

(* The write mutex is kept until the result is used, *)
MutexKept ==
    \A t \in Tasks : op[t] \in {"set", "direct"} /\ pc[t] \in {"give", "leave"} /\ got[t] # NoOne
                     => lock["write"].writer = t

(* so that what is about to be cached is still in the table. *)
WrittenIsCurrent == \A t \in Tasks : Storing(t) => got[t] = db

(* What get_raw_config has read can only be overwritten by somebody who will  *)
(* remove it from the cache after it is put there.                            *)
ReadIsCurrent ==
    \A t \in Tasks : op[t] = "get" /\ pc[t] \in {"run", "give", "leave"} /\ got[t] # NoOne
                     => got[t] = db \/ \E u \in Tasks : Overwriting(u)

CachedIsCurrent == cache \in {NoOne, db} \/ \E u \in Tasks : Storing(u) \/ Overwriting(u)

CacheInv == /\ CacheLocked /\ ImportUncached /\ MutexKept
            /\ WrittenIsCurrent /\ ReadIsCurrent /\ CachedIsCurrent

LEMMA InitCache == Init => CacheInv
BY DEF Init, CacheInv, CacheLocked, ImportUncached, MutexKept, WrittenIsCurrent, ReadIsCurrent,
       CachedIsCurrent, Caching, Storing

(* Every step keeps it. *)
LEMMA CacheStep ==
  ASSUME TypeOK, PoolInv, CacheInv, NEW t \in Tasks,
         Step(t) \/ \E o \in Ops[t] : Begin(t, o)
  PROVE  CacheInv'
<1>a. NoOne \notin Tasks /\ NoOne \notin Values
  BY NoOneAssumption
<1>b. /\ ~LockMutex(t) /\ ~Leave(t) => lock'["write"].writer = lock["write"].writer
      /\ LockMutex(t) => lock["write"].writer = NoOne /\ lock'["write"].writer = t
      /\ Leave(t) => \/ lock'["write"].writer = lock["write"].writer
                    \/ lock["write"].writer = t
  BY LockStep
<1>c. /\ ~LockCache(t) /\ ~Leave(t) => lock'["cache"].writer = lock["cache"].writer
      /\ LockCache(t) => lock["cache"].writer = NoOne /\ lock'["cache"].writer = t
      /\ Leave(t) => \/ lock'["cache"].writer = lock["cache"].writer
                    \/ lock["cache"].writer = t
  BY CacheLockStep
<1>d. /\ op \in [Tasks -> AllOps] /\ pc \in [Tasks -> Places] /\ db \in Values
      /\ got \in [Tasks -> Values \cup {NoOne}] /\ cache \in Values \cup {NoOne}
  BY DEF TypeOK
<1>e. \A u \in Tasks : Writes(op[u]) /\ pc[u] \in {"permit", "pop", "run", "give"}
                       => lock["write"].writer = u
  BY DEF PoolInv, WritersLocked
<1> USE <1>a DEF CacheInv, CacheLocked, ImportUncached, MutexKept, WrittenIsCurrent, ReadIsCurrent,
       CachedIsCurrent, Caching, Storing, Overwriting
<1>1. CASE \E o \in Ops[t] : Begin(t, o)
  <2>1. PICK o \in Ops[t] : Begin(t, o)
    BY <1>1
  <2>2. FirstLock(o)[3] \in {"lookup", "cache", "swap", "pool"}
    BY OpsAssumption, FirstLockType
  <2>3. FirstLock(o)[3] = "pool" => o \notin {"get", "set", "import"}
    BY DEF FirstLock
  <2>4. /\ pc[t] = "idle" /\ pc' = [pc EXCEPT ![t] = FirstLock(o)[3]] /\ op' = [op EXCEPT ![t] = o]
        /\ UNCHANGED <<db, cache, got>>
    BY <2>1 DEF Begin
  <2>5. lock'["write"].writer = lock["write"].writer /\ lock'["cache"].writer = lock["cache"].writer
    BY <1>b, <1>c, <2>4 DEF LockMutex, Leave, LockCache
  <2> QED BY <1>d, <2>2, <2>3, <2>4, <2>5
<1>2. CASE Lookup(t) \/ EnterPool(t) \/ TakePermit(t) \/ Clear(t) \/ ClearGive(t) \/ Full(t) \/ Truncate(t) \/ Swap(t)
  <2>1. lock'["write"].writer = lock["write"].writer /\ lock'["cache"].writer = lock["cache"].writer
    BY <1>b, <1>c, <1>2 DEF LockMutex, Leave, LockCache, Lookup, EnterPool, TakePermit, Clear, ClearGive, Full, Truncate, Swap
  <2>2. db' = db /\ cache' = cache
    BY <1>2 DEF Lookup, EnterPool, TakePermit, Clear, ClearGive, Full, Truncate, Swap
  <2>3. CASE Lookup(t)
    BY <1>d, <2>1, <2>2, <2>3 DEF Lookup, Goto, Return
  <2>4. CASE EnterPool(t)
    BY <1>d, <2>1, <2>2, <2>4 DEF EnterPool, Goto, GotoWith
  <2>5. CASE TakePermit(t)
    BY <1>d, <2>1, <2>2, <2>5 DEF TakePermit, Goto
  <2>6. CASE Clear(t) \/ ClearGive(t) \/ Full(t) \/ Truncate(t)
    <3>1. op[t] = "checkpoint" /\ pc[t] \in {"clear", "clear_give", "full", "truncate"}
      BY <2>6 DEF Clear, ClearGive, Full, Truncate, PoolInv, StagesFit
    <3>2. op' = op /\ got' = got /\ \E place \in Places : pc' = [pc EXCEPT ![t] = place]
      BY <2>6 DEF Clear, ClearGive, Full, Truncate, Goto, GotoStage, Places
    <3> QED BY <1>d, <2>1, <2>2, <3>1, <3>2
  <2>7. CASE Swap(t)
    BY <1>d, <2>1, <2>2, <2>7 DEF Swap, Return
  <2> QED BY <1>2, <2>3, <2>4, <2>5, <2>6, <2>7
<1>3. CASE LockCache(t)
  <2>1. /\ lock'["write"].writer = lock["write"].writer
        /\ lock["cache"].writer = NoOne /\ lock'["cache"].writer = t
    BY <1>b, <1>c, <1>3 DEF LockMutex, Leave, LockCache
  <2> QED BY <1>d, <1>3, <2>1 DEF LockCache, Goto
<1>4. CASE LockMutex(t)
  <2>1. lock'["cache"].writer = lock["cache"].writer
    BY <1>c, <1>4 DEF LockMutex, Leave, LockCache
  <2> QED BY <1>b, <1>d, <1>4, <2>1 DEF LockMutex, Goto
<1>5. CASE Pop(t)
  <2>1. lock'["write"].writer = lock["write"].writer /\ lock'["cache"].writer = lock["cache"].writer
    BY <1>b, <1>c, <1>5 DEF LockMutex, Leave, LockCache, Pop
  <2>2. /\ pc[t] = "pop" /\ op' = op /\ db' = db /\ cache' = cache
        /\ \/ op[t] # "checkpoint" /\ pc' = [pc EXCEPT ![t] = "run"] /\ got' = [got EXCEPT ![t] = db]
           \/ op[t] = "checkpoint" /\ got' = got /\ \E place \in Places : pc' = [pc EXCEPT ![t] = place]
    BY <1>5 DEF Pop, Goto, GotoWith, Places
  <2> QED BY <1>d, <2>1, <2>2
<1>6. CASE Run(t)
  <2>1. lock'["write"].writer = lock["write"].writer /\ lock'["cache"].writer = lock["cache"].writer
    BY <1>b, <1>c, <1>6 DEF LockMutex, Leave, LockCache, Run
  <2>2. pc[t] = "run" /\ cache' = cache /\ op' = op /\ pc' = [pc EXCEPT ![t] = "give"]
    BY <1>6 DEF Run, Goto, GotoWith, GotoStage
  <2>3. CASE db' = db /\ got' = got /\ ~(op[t] \in {"set", "direct", "import"})
    BY <1>d, <2>1, <2>2, <2>3
  <2>4. CASE db' = db /\ got' = [got EXCEPT ![t] = NoOne]
    BY <1>d, <2>1, <2>2, <2>4
  <2>5. CASE op[t] \in {"set", "direct", "import"} /\ db' \in Values /\ got' = [got EXCEPT ![t] = db']
    <3>1. lock["write"].writer = t
      BY <1>e, <2>2, <2>5 DEF Writes
    <3>2. \A u \in Tasks \ {t} : ~Storing(u)
      BY <3>1
    <3>3. CASE op[t] = "direct"
      <4>1. Overwriting(t)'
        BY <1>d, <2>2, <2>5, <3>3
      <4> QED BY <1>d, <2>1, <2>2, <2>5, <3>1, <3>2, <3>3, <4>1
    <3>4. CASE op[t] = "set"
      <4>1. Storing(t)' /\ got'[t] = db'
        BY <1>d, <2>2, <2>5, <3>4
      <4>2. \A u \in Tasks \ {t} : ~Caching(u)
        BY <2>2, <3>4
      <4> QED BY <1>d, <2>1, <2>2, <2>5, <3>1, <3>2, <3>4, <4>1, <4>2
    <3>5. CASE op[t] = "import"
      <4>1. cache = NoOne /\ \A u \in Tasks \ {t} : ~Caching(u)
        BY <2>2, <3>5
      <4> QED BY <1>d, <2>1, <2>2, <2>5, <3>1, <3>2, <3>5, <4>1
    <3> QED BY <2>5, <3>3, <3>4, <3>5
  <2> QED BY <1>d, <1>6, <2>3, <2>4, <2>5 DEF Run, Goto, GotoWith, GotoStage, Writes
<1>7. CASE Give(t)
  <2>1. lock'["write"].writer = lock["write"].writer /\ lock'["cache"].writer = lock["cache"].writer
    BY <1>b, <1>c, <1>7 DEF LockMutex, Leave, LockCache, Give
  <2>2. /\ pc[t] = "give" /\ op' = op /\ db' = db /\ cache' = cache /\ got' = got
        /\ \/ pc' = [pc EXCEPT ![t] = "leave"]
           \/ op[t] = "checkpoint" /\ pc' = [pc EXCEPT ![t] = "mutex"]
    BY <1>7 DEF Give, Goto, GotoStage
  <2> QED BY <1>d, <2>1, <2>2
<1>8. CASE Leave(t)
  <2>1. pc[t] = "leave" /\ db' = db
    BY <1>8 DEF Leave
  <2>2. /\ lock'["write"].writer = lock["write"].writer \/ lock["write"].writer = t
        /\ lock'["cache"].writer = lock["cache"].writer \/ lock["cache"].writer = t
    BY <1>b, <1>c, <1>8
  <2>3. CASE op[t] \in {"get", "set", "import"}
    <3>1. /\ pc' = [pc EXCEPT ![t] = "idle"] /\ op' = [op EXCEPT ![t] = "query"]
          /\ got' = [got EXCEPT ![t] = NoOne]
          /\ cache' = IF got[t] # NoOne /\ op[t] # "import" THEN got[t] ELSE cache
      BY <1>8, <2>3 DEF Leave, Return
    <3>2. \A u \in Tasks \ {t} : ~Caching(u)
      BY <2>1, <2>3
    <3>3. \A u \in Tasks : Overwriting(u) => Overwriting(u)'
      BY <1>d, <2>1, <2>3, <3>1
    <3> QED BY <1>d, <2>1, <2>2, <2>3, <3>1, <3>2, <3>3
  <2>4. CASE op[t] = "direct" /\ got[t] # NoOne
    <3>1. pc' = [pc EXCEPT ![t] = "uncache"] /\ op' = op /\ got' = got /\ cache' = cache
      BY <1>8, <2>4 DEF Leave, Goto
    <3> QED BY <1>d, <2>1, <2>2, <2>4, <3>1
  <2>5. CASE op[t] \notin {"get", "set", "import"} /\ ~(op[t] = "direct" /\ got[t] # NoOne)
    <3>1. /\ pc' = [pc EXCEPT ![t] = "idle"] /\ op' = [op EXCEPT ![t] = "query"]
          /\ got' = [got EXCEPT ![t] = NoOne] /\ cache' = cache
      BY <1>8, <2>5 DEF Leave, Return
    <3> QED BY <1>d, <2>1, <2>2, <2>5, <3>1
  <2> QED BY <2>3, <2>4, <2>5
<1>9. CASE Uncache(t)
  <2>1. /\ lock'["write"].writer = lock["write"].writer /\ lock'["cache"].writer = lock["cache"].writer
        /\ lock["cache"].writer = NoOne
    BY <1>b, <1>c, <1>9 DEF LockMutex, Leave, LockCache, Uncache, Granted
  <2>2. \A u \in Tasks : ~Caching(u)
    BY <2>1
  <2> QED BY <1>d, <1>9, <2>1, <2>2 DEF Uncache, Return
<1> QED BY <1>1, <1>2, <1>3, <1>4, <1>5, <1>6, <1>7, <1>8, <1>9 DEF Step

(* What is cached is what the table holds, except for a task that is about to  *)
(* cache what it just wrote or to remove what it overwrote: a value read by    *)
(* get_raw_config never lands in the cache after a later set_raw_config, and   *)
(* one that was overwritten directly is removed after it was put there.        *)
THEOREM CacheStaysCurrent == Spec => []CacheIsCurrent
<1>1. Init => TypeOK /\ PoolInv /\ CacheInv
  BY InitType, InitPool, InitCache
<1>2. TypeOK /\ PoolInv /\ CacheInv /\ [Next]_vars => (TypeOK /\ PoolInv /\ CacheInv)'
  <2> SUFFICES ASSUME TypeOK, PoolInv, CacheInv, [Next]_vars PROVE (TypeOK /\ PoolInv /\ CacheInv)'
    OBVIOUS
  <2>1. CASE Next
    BY <2>1, StepType, PoolStep, CacheStep DEF Next
  <2>2. CASE UNCHANGED vars
    <3>1. TypeOK' /\ PoolInv'
      BY <2>2 DEF vars, TypeOK, PoolInv, UsersHold, WritersLocked, StagesFit, OldInUse, HasThemAll,
         Checkpoints, Collecting, Alone, Writes
    <3>2. CacheInv'
      BY <2>2 DEF vars, CacheInv, CacheLocked, ImportUncached, MutexKept, WrittenIsCurrent,
         ReadIsCurrent, CachedIsCurrent, Caching, Storing, Overwriting
    <3> QED BY <3>1, <3>2
  <2> QED BY <2>1, <2>2
<1>3. CacheInv => CacheIsCurrent
  BY DEF CacheInv, CachedIsCurrent, Storing, Overwriting, CacheIsCurrent
<1> QED BY <1>1, <1>2, <1>3, PTL DEF Spec

-----------------------------------------------------------------------------
(* Permits *)

Between == {"pop", "give", "clear_give"}

(* Tasks with a permit for a connection that is in the pool. *)
Busy == {t \in Tasks : pc[t] \in Between}

(* The pool has a connection for every free permit and for every busy task. *)
PermitsMatch == Cardinality(Free) = permits + Cardinality(Busy)

LEMMA BothFinite ==
  ASSUME TypeOK
  PROVE  /\ IsFiniteSet(Free) /\ IsFiniteSet(Busy)
         /\ Cardinality(Free) \in Nat /\ Cardinality(Busy) \in Nat
<1>1. Free \subseteq Conns /\ Busy \subseteq Tasks
  BY DEF Free, Held, Busy
<1>2. IsFiniteSet(Free) /\ IsFiniteSet(Busy)
  BY <1>1, ConnsAssumption, TasksAssumption, FS_Subset
<1> QED BY <1>2, FS_CardinalityType

LEMMA InitPermits == Init => PermitsMatch
<1> SUFFICES ASSUME Init PROVE PermitsMatch OBVIOUS
<1>1. Free = Conns
  BY DEF Init, Free, Held
<1>2. Busy = {}
  BY DEF Init, Busy, Between
<1>3. Cardinality(Busy) = 0
  BY <1>2, FS_EmptySet
<1>4. permits = Cardinality(Conns) /\ Cardinality(Conns) \in Nat
  BY ConnsAssumption, FS_CardinalityType DEF Init
<1> QED BY <1>1, <1>3, <1>4 DEF PermitsMatch

(* What a step does to the two sets and the permits. *)
LEMMA PermitsStep ==
  ASSUME TypeOK, PermitsMatch, NEW t \in Tasks,
         Step(t) \/ \E o \in Ops[t] : Begin(t, o)
  PROVE  PermitsMatch'
<1>0. TypeOK'
  BY StepType
<1>a. /\ permits \in Nat /\ pc \in [Tasks -> Places]
      /\ holder \in [Conns -> Tasks \cup {NoOne}] /\ NoOne \notin Tasks
  BY NoOneAssumption DEF TypeOK
<1>b. /\ IsFiniteSet(Free) /\ IsFiniteSet(Busy)
      /\ Cardinality(Free) \in Nat /\ Cardinality(Busy) \in Nat
  BY BothFinite
<1>1. CASE TakePermit(t)
  <2>1. /\ pc[t] = "permit" /\ pc' = [pc EXCEPT ![t] = "pop"] /\ permits' = permits - 1
        /\ holder' = holder
    BY <1>1 DEF TakePermit, Goto
  <2>2. t \notin Busy /\ Busy' = Busy \cup {t} /\ Free' = Free
    BY <1>a, <2>1 DEF Busy, Between, Free, Held
  <2>3. Cardinality(Busy') = Cardinality(Busy) + 1
    BY <1>b, <2>2, OneMore
  <2> QED BY <1>a, <1>b, <2>1, <2>2, <2>3 DEF PermitsMatch
<1>2. CASE Pop(t)
  <2>1. PICK c \in Free : holder' = [holder EXCEPT ![c] = t]
    BY <1>2 DEF Pop
  <2>2. PICK place \in {"run", "permit", "clear", "truncate"} :
          /\ pc[t] = "pop" /\ pc' = [pc EXCEPT ![t] = place] /\ permits' = permits
    BY <1>2 DEF Pop, Goto, GotoWith
  <2>3. t \in Busy /\ Busy' = Busy \ {t}
    BY <1>a, <2>2 DEF Busy, Between
  <2>4. Free' = Free \ {c}
    BY <1>a, <2>1 DEF Free, Held
  <2>5. Cardinality(Busy') = Cardinality(Busy) - 1
    BY <1>b, <2>3, OneLess
  <2>6. Cardinality(Free') = Cardinality(Free) - 1
    BY <1>b, <2>1, <2>4, OneLess
  <2> QED BY <1>a, <1>b, <2>2, <2>5, <2>6 DEF PermitsMatch
<1>3. CASE Run(t) \/ Clear(t)
  <2>1. PICK c \in Held(t) : holder' = [holder EXCEPT ![c] = NoOne]
    BY <1>3 DEF Run, Clear, PutBack
  <2>2. PICK place \in {"give", "clear_give"} :
          /\ pc[t] \in {"run", "clear"} /\ pc' = [pc EXCEPT ![t] = place] /\ permits' = permits
    BY <1>3 DEF Run, Clear, Goto, GotoWith, GotoStage
  <2>3. t \notin Busy /\ Busy' = Busy \cup {t}
    BY <1>a, <2>2 DEF Busy, Between
  <2>4. c \notin Free /\ Free' = Free \cup {c}
    BY <1>a, <2>1 DEF Free, Held
  <2>5. Cardinality(Busy') = Cardinality(Busy) + 1
    BY <1>b, <2>3, OneMore
  <2>6. Cardinality(Free') = Cardinality(Free) + 1
    BY <1>b, <2>4, OneMore
  <2> QED BY <1>a, <1>b, <2>2, <2>5, <2>6 DEF PermitsMatch
<1>4. CASE Give(t) \/ ClearGive(t)
  <2>1. PICK place \in {"mutex", "leave", "full", "clear"} :
          /\ pc[t] \in {"give", "clear_give"} /\ pc' = [pc EXCEPT ![t] = place]
          /\ permits' = permits + 1 /\ holder' = holder
    BY <1>4 DEF Give, ClearGive, Goto, GotoStage
  <2>2. t \in Busy /\ Busy' = Busy \ {t} /\ Free' = Free
    BY <1>a, <2>1 DEF Busy, Between, Free, Held
  <2>3. Cardinality(Busy') = Cardinality(Busy) - 1
    BY <1>b, <2>2, OneLess
  <2> QED BY <1>a, <1>b, <2>1, <2>2, <2>3 DEF PermitsMatch
<1>5. CASE ~(TakePermit(t) \/ Pop(t) \/ Run(t) \/ Clear(t) \/ Give(t) \/ ClearGive(t))
  <2>1. /\ pc[t] \notin Between /\ permits' = permits /\ holder' = holder
        /\ \E place \in Places \ Between : pc' = [pc EXCEPT ![t] = place]
    <3>1. CASE \E o \in Ops[t] : Begin(t, o)
      <4>1. PICK o \in Ops[t] : Begin(t, o)
        BY <3>1
      <4>2. FirstLock(o)[3] \in {"lookup", "cache", "swap", "pool"}
        BY <4>1, OpsAssumption, FirstLockType
      <4> QED BY <4>1, <4>2 DEF Begin, Between, Places
    <3>2. CASE Lookup(t) \/ LockCache(t) \/ EnterPool(t) \/ LockMutex(t) \/ Uncache(t)
      BY <3>2 DEF Lookup, LockCache, EnterPool, LockMutex, Uncache, Between, Places, Goto, GotoWith, Return
    <3>3. CASE Leave(t) \/ Full(t) \/ Truncate(t) \/ Swap(t)
      BY <3>3 DEF Leave, Full, Truncate, Swap, Between, Places, Goto, GotoStage, Return
    <3> QED BY <1>5, <3>1, <3>2, <3>3 DEF Step
  <2>2. Busy' = Busy /\ Free' = Free
    BY <1>a, <2>1 DEF Busy, Free, Held
  <2> QED BY <2>1, <2>2 DEF PermitsMatch
<1> QED BY <1>1, <1>2, <1>3, <1>4, <1>5

(* Whoever has a permit finds a connection in the pool: the error `Got a       *)
(* permit when there are no connections in the pool' of InnerPool::get never   *)
(* happens, however permits and connections are returned one after the other.  *)
THEOREM PermitsMeanConnections == Spec => []PermitMeansConnection
<1>1. Init => TypeOK /\ PermitsMatch
  BY InitType, InitPermits
<1>2. TypeOK /\ PermitsMatch /\ [Next]_vars => (TypeOK /\ PermitsMatch)'
  <2> SUFFICES ASSUME TypeOK, PermitsMatch, [Next]_vars PROVE (TypeOK /\ PermitsMatch)'
    OBVIOUS
  <2>1. CASE Next
    BY <2>1, StepType, PermitsStep DEF Next
  <2>2. CASE UNCHANGED vars
    BY <2>2 DEF vars, TypeOK, PermitsMatch, Free, Held, Busy
  <2> QED BY <2>1, <2>2
<1>3. TypeOK /\ PermitsMatch => PermitMeansConnection
  <2> SUFFICES ASSUME TypeOK, PermitsMatch, NEW t \in Tasks, pc[t] = "pop", Free = {} PROVE FALSE
    BY DEF PermitMeansConnection
  <2>1. t \in Busy
    BY DEF Busy, Between
  <2>2. IsFiniteSet(Busy) /\ Cardinality(Busy) \in Nat /\ permits \in Nat
    BY BothFinite DEF TypeOK
  <2>3. Cardinality(Busy) # 0
    BY <2>1, <2>2, FS_EmptySet
  <2>4. Cardinality(Free) = 0
    BY FS_EmptySet
  <2> QED BY <2>2, <2>3, <2>4 DEF PermitsMatch
<1> QED BY <1>1, <1>2, <1>3, PTL DEF Spec
=============================================================================

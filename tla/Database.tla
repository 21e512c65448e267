------------------------------ MODULE Database ------------------------------
(* The database as its users meet it: the connection pool with its semaphore  *)
(* and write mutex (sql/pool.rs), the checkpoint of the write-ahead log       *)
(* (sql/pool/wal_checkpoint.rs), and around them the lock of the pool and the *)
(* cache of the config table (sql.rs).  Tasks call it concurrently.  All      *)
(* locks are tokio's: first come, first served, so a reader waits behind a    *)
(* writer that waits.  SQLite itself is external: of a connection the model   *)
(* knows who has it, whether it may write, and whether the snapshot it reads  *)
(* is older than the last commit.                                             *)
EXTENDS Naturals, Sequences, FiniteSets

CONSTANTS Tasks,     \* tokio tasks that use the database
          Conns,     \* N_DB_CONNECTIONS connections
          Values,    \* values of one key of the config table
          Ops,       \* which operations each task calls
          NoOne      \* nobody; also: not cached

ASSUME ConnsAssumption == IsFiniteSet(Conns) /\ Cardinality(Conns) > 1
ASSUME TasksAssumption == IsFiniteSet(Tasks)
ASSUME NoOneAssumption == NoOne \notin Tasks /\ NoOne \notin Values

VARIABLES open,      \* Sql::pool is Some
          lock,      \* the locks: who holds them and who waits
          permits,   \* free permits of the semaphore
          waiting,   \* tasks that wait for a permit
          holder,    \* who has a connection; NoOne: it is in the pool
          old,       \* connections whose snapshot is not the end of the log
          db,        \* the value in the config table
          cache,     \* config_cache
          op,        \* the operation of a task
          pc,        \* where the task is in it
          stage,     \* how far a checkpoint has come
          got        \* the value a task has read or written, NoOne after an error

vars == <<open, lock, permits, waiting, holder, old, db, cache, op, pc, stage, got>>

Locks == {"pool", "cache", "write"}   \* Sql::pool, Sql::config_cache, write_mutex
Modes == {"read", "write"}
Stages == {"passive", "cycle", "kick", "end"}
Places == {"idle", "lookup", "cache", "pool", "mutex", "permit", "pop", "run", "give",
           "leave", "uncache", "swap", "clear", "clear_give", "full", "truncate"}
AllOps == {"query", "execute", "get", "set", "direct", "import", "checkpoint",
           "open", "close", "change_passphrase"}

ASSUME OpsAssumption == Ops \in [Tasks -> SUBSET AllOps]

Writes(o) == o \in {"execute", "set", "direct", "import"}   \* query_only = false

Held(t) == {c \in Conns : holder[c] = t}
Free == Held(NoOne)

TypeOK ==
    /\ open \in BOOLEAN
    /\ lock \in [Locks -> [readers : SUBSET Tasks, writer : Tasks \cup {NoOne},
                           queue : Seq(Tasks \X Modes)]]
    /\ permits \in Nat
    /\ waiting \in Seq(Tasks)
    /\ holder \in [Conns -> Tasks \cup {NoOne}]
    /\ old \in SUBSET Conns
    /\ db \in Values
    /\ cache \in Values \cup {NoOne}
    /\ op \in [Tasks -> AllOps]
    /\ pc \in [Tasks -> Places]
    /\ stage \in [Tasks -> Stages]
    /\ got \in [Tasks -> Values \cup {NoOne}]

Init ==
    /\ open = TRUE
    /\ lock = [l \in Locks |-> [readers |-> {}, writer |-> NoOne, queue |-> <<>>]]
    /\ permits = Cardinality(Conns)
    /\ waiting = <<>>
    /\ holder = [c \in Conns |-> NoOne]
    /\ old = {}
    /\ db \in Values
    /\ cache = NoOne
    /\ op = [t \in Tasks |-> "query"]
    /\ pc = [t \in Tasks |-> "idle"]
    /\ stage = [t \in Tasks |-> "passive"]
    /\ got = [t \in Tasks |-> NoOne]

-----------------------------------------------------------------------------
(* Locks *)
Asked(k, t, mode) == [k EXCEPT !.queue = Append(@, <<t, mode>>)]

(* The first in the queue gets the lock as soon as nobody is in the way. *)
Granted(k, t, mode) ==
    /\ k.queue # <<>> /\ Head(k.queue) = <<t, mode>>
    /\ k.writer = NoOne
    /\ mode = "write" => k.readers = {}

Taken(k, t, mode) ==
    [k EXCEPT !.queue = Tail(@),
              !.readers = IF mode = "read" THEN @ \cup {t} ELSE @,
              !.writer = IF mode = "write" THEN t ELSE @]

Released(k, t) == [k EXCEPT !.readers = @ \ {t}, !.writer = IF @ = t THEN NoOne ELSE @]

Goto(t, place) == pc' = [pc EXCEPT ![t] = place] /\ UNCHANGED <<op, stage, got>>

GotoStage(t, place, s) ==
    pc' = [pc EXCEPT ![t] = place] /\ stage' = [stage EXCEPT ![t] = s] /\ UNCHANGED <<op, got>>

GotoWith(t, place, value) ==
    pc' = [pc EXCEPT ![t] = place] /\ got' = [got EXCEPT ![t] = value] /\ UNCHANGED <<op, stage>>

Return(t) ==
    /\ pc' = [pc EXCEPT ![t] = "idle"]
    /\ op' = [op EXCEPT ![t] = "query"]
    /\ stage' = [stage EXCEPT ![t] = "passive"]
    /\ got' = [got EXCEPT ![t] = NoOne]

-----------------------------------------------------------------------------
(* A task calls an operation.  `open' fails at once if the database is open,  *)
(* and housekeeping, which alone does checkpoints, if it is already running.  *)
FirstLock(o) ==
    CASE o = "get" -> <<"cache", "read", "lookup">>
      [] o \in {"set", "import"} -> <<"cache", "write", "cache">>
      [] o \in {"open", "close", "change_passphrase"} -> <<"pool", "write", "swap">>
      [] o \in {"query", "execute", "direct", "checkpoint"} -> <<"pool", "read", "pool">>

Begin(t, o) ==
    /\ pc[t] = "idle"
    /\ o = "open" => ~open /\ lock["pool"].writer = NoOne
    /\ o = "checkpoint" => \A u \in Tasks : op[u] = "checkpoint" => pc[u] = "idle"
    /\ LET f == FirstLock(o)
       IN  /\ lock' = [lock EXCEPT ![f[1]] = Asked(@, t, f[2])]
           /\ pc' = [pc EXCEPT ![t] = f[3]]
    /\ op' = [op EXCEPT ![t] = o]
    /\ UNCHANGED <<open, permits, waiting, holder, old, db, cache, stage, got>>

(* get_raw_config looks into the cache first.  If the value is not there, the *)
(* cache is locked until it has been read from the database and cached.       *)
Lookup(t) ==
    /\ pc[t] = "lookup" /\ Granted(lock["cache"], t, "read")
    /\ LET k == [lock["cache"] EXCEPT !.queue = Tail(@)]
       IN  IF cache # NoOne
             THEN lock' = [lock EXCEPT !["cache"] = k] /\ Return(t)
             ELSE lock' = [lock EXCEPT !["cache"] = Asked(k, t, "write")] /\ Goto(t, "cache")
    /\ UNCHANGED <<open, permits, waiting, holder, old, db, cache>>

(* Mutant: the cache is not locked while the database is asked. *)
LockedUnlessGet(t) ==
    IF op[t] = "get" THEN [lock["cache"] EXCEPT !.queue = Tail(@)]
    ELSE Taken(lock["cache"], t, "write")

LockedCache(t) == Taken(lock["cache"], t, "write")

(* ... and so it is while set_raw_config and import write to the database. *)
LockCache(t) ==
    /\ pc[t] = "cache" /\ Granted(lock["cache"], t, "write")
    /\ lock' = [lock EXCEPT !["cache"] = LockedCache(t), !["pool"] = Asked(@, t, "read")]
    /\ cache' = IF op[t] = "import" THEN NoOne ELSE cache
    /\ Goto(t, "pool")
    /\ UNCHANGED <<open, permits, waiting, holder, old, db>>

-----------------------------------------------------------------------------
(* Sql::call: the pool, then the write mutex for a connection that writes,    *)
(* then a permit, then a connection.                                          *)

EnterPool(t) ==
    /\ pc[t] = "pool" /\ Granted(lock["pool"], t, "read")
    /\ LET k == [lock EXCEPT !["pool"] = Taken(@, t, "read")]
       IN  IF ~open THEN lock' = k /\ GotoWith(t, "leave", NoOne) /\ UNCHANGED waiting
           ELSE IF Writes(op[t])
             THEN /\ lock' = [k EXCEPT !["write"] = Asked(@, t, "write")]
                  /\ Goto(t, "mutex")
                  /\ UNCHANGED waiting
           ELSE lock' = k /\ Goto(t, "permit") /\ waiting' = Append(waiting, t)
    /\ UNCHANGED <<open, permits, holder, old, db, cache>>

LockMutex(t) ==
    /\ pc[t] = "mutex" /\ Granted(lock["write"], t, "write")
    /\ lock' = [lock EXCEPT !["write"] = Taken(@, t, "write")]
    /\ waiting' = Append(waiting, t)
    /\ Goto(t, "permit")
    /\ UNCHANGED <<open, permits, holder, old, db, cache>>

TakePermit(t) ==
    /\ pc[t] = "permit" /\ permits > 0
    /\ waiting # <<>> /\ Head(waiting) = t
    /\ permits' = permits - 1
    /\ waiting' = Tail(waiting)
    /\ Goto(t, "pop")
    /\ UNCHANGED <<open, lock, holder, old, db, cache>>

(* How many connections a checkpoint takes to be alone: `conn' and            *)
(* N_DB_CONNECTIONS - 1 others.                                               *)
OneShort == Cardinality(Conns) - 1     \* mutant: one too few
OneTooMany == Cardinality(Conns) + 1   \* mutant: one too many

Wanted == Cardinality(Conns)

(* Pops a connection and sets its query_only.  Its function begins to run; a  *)
(* checkpoint goes on until it has all of them.                               *)
Pop(t) ==
    /\ pc[t] = "pop"
    /\ \E c \in Free : holder' = [holder EXCEPT ![c] = t]
    /\ IF op[t] # "checkpoint" THEN GotoWith(t, "run", db) /\ UNCHANGED waiting
       ELSE IF stage[t] = "passive" THEN Goto(t, "run") /\ UNCHANGED waiting
       ELSE IF Cardinality(Held(t)) + 1 < Wanted
         THEN Goto(t, "permit") /\ waiting' = Append(waiting, t)
       ELSE Goto(t, IF stage[t] = "cycle" THEN "clear" ELSE "truncate") /\ UNCHANGED waiting
    /\ UNCHANGED <<open, lock, permits, old, db, cache>>

(* PooledConnection::drop puts a connection back; its permit and the write    *)
(* mutex are released after that.  Others that read while a transaction is    *)
(* committed have an old snapshot then.                                       *)
PutBack(t, committed) ==
    \E c \in Held(t) :
       /\ holder' = [holder EXCEPT ![c] = NoOne]
       /\ old' = IF committed THEN {b \in Conns : holder[b] \notin {t, NoOne}} ELSE old \ {c}

(* The function has returned: it has read, or written and committed, or       *)
(* failed.  What an import that fails halfway leaves is a new content, too.   *)
Run(t) ==
    /\ pc[t] = "run"
    /\ \/ ~Writes(op[t]) /\ PutBack(t, FALSE) /\ Goto(t, "give") /\ UNCHANGED db
       \/ op[t] = "execute" /\ PutBack(t, TRUE) /\ Goto(t, "give") /\ UNCHANGED db
       \/ /\ op[t] \in {"set", "direct", "import"}
          /\ PutBack(t, TRUE)
          /\ \E v \in Values : db' = v /\ GotoWith(t, "give", v)
       \/ op[t] # "checkpoint" /\ PutBack(t, FALSE) /\ GotoWith(t, "give", NoOne) /\ UNCHANGED db
       \/ op[t] = "checkpoint" /\ PutBack(t, FALSE) /\ GotoStage(t, "give", "end") /\ UNCHANGED db
    /\ UNCHANGED <<open, lock, permits, waiting, cache>>

Give(t) ==
    /\ pc[t] = "give"
    /\ permits' = permits + 1
    /\ IF op[t] = "checkpoint" /\ stage[t] = "passive"   \* PRAGMA wal_checkpoint(PASSIVE) is done
         THEN /\ lock' = [lock EXCEPT !["write"] = Asked(@, t, "write")]
              /\ GotoStage(t, "mutex", "cycle")
         ELSE Goto(t, "leave") /\ UNCHANGED lock
    /\ UNCHANGED <<open, waiting, holder, old, db, cache>>

(* The end of Sql::call, successful or not, and what is done with the result: *)
(* get_raw_config and set_raw_config cache it, who wrote to the table         *)
(* directly has it removed from the cache.                                    *)
Leave(t) ==
    /\ pc[t] = "leave"
    /\ LET k == [lock EXCEPT !["write"] = Released(@, t), !["pool"] = Released(@, t)]
       IN  CASE op[t] \in {"get", "set", "import"} ->
                  /\ lock' = [k EXCEPT !["cache"] = Released(@, t)]
                  /\ cache' = IF got[t] # NoOne /\ op[t] # "import" THEN got[t] ELSE cache
                  /\ Return(t)
             [] op[t] = "direct" /\ got[t] # NoOne ->
                  /\ lock' = [k EXCEPT !["cache"] = Asked(@, t, "write")]
                  /\ Goto(t, "uncache")
                  /\ UNCHANGED cache
             [] OTHER -> lock' = k /\ Return(t) /\ UNCHANGED cache
    /\ UNCHANGED <<open, permits, waiting, holder, old, db>>

(* uncache_raw_config *)
Uncache(t) ==
    /\ pc[t] = "uncache" /\ Granted(lock["cache"], t, "write")
    /\ lock' = [lock EXCEPT !["cache"].queue = Tail(@)]
    /\ cache' = NoOne
    /\ Return(t)
    /\ UNCHANGED <<open, permits, waiting, holder, old, db>>

-----------------------------------------------------------------------------
(* The rest of wal_checkpoint.  read_conns is cleared one by one: after all   *)
(* connections have been out at once, and at the end.                         *)
Clear(t) ==
    /\ pc[t] = "clear"
    /\ PutBack(t, FALSE)
    /\ Goto(t, "clear_give")
    /\ UNCHANGED <<open, lock, permits, waiting, db, cache>>

ClearGive(t) ==
    /\ pc[t] = "clear_give"
    /\ permits' = permits + 1
    /\ Goto(t, IF stage[t] = "cycle" /\ Cardinality(Held(t)) = 1 THEN "full"
               ELSE IF stage[t] = "end" /\ Held(t) = {} THEN "leave"
               ELSE "clear")
    /\ UNCHANGED <<open, lock, waiting, holder, old, db, cache>>

(* PRAGMA wal_checkpoint(FULL), with readers at work; if it fails, all is     *)
(* given back.                                                                *)
Full(t) ==
    /\ pc[t] = "full"
    /\ \/ waiting' = Append(waiting, t) /\ GotoStage(t, "permit", "kick")
       \/ UNCHANGED waiting /\ GotoStage(t, "clear", "end")
    /\ UNCHANGED <<open, lock, permits, holder, old, db, cache>>

(* PRAGMA wal_checkpoint(TRUNCATE), with nobody at work, successful or not *)
Truncate(t) ==
    /\ pc[t] = "truncate"
    /\ GotoStage(t, "clear", "end")
    /\ UNCHANGED <<open, lock, permits, waiting, holder, old, db, cache>>

(* close, try_open and change_passphrase replace the pool while they hold its *)
(* lock; the new one has new connections and locks.  change_passphrase fails  *)
(* if the database is closed, and leaves it closed if it fails later.         *)
Swap(t) ==
    /\ pc[t] = "swap" /\ Granted(lock["pool"], t, "write")
    /\ lock' = [lock EXCEPT !["pool"].queue = Tail(@)]
    /\ \/ op[t] \in {"open", "close"} /\ open' = (op[t] = "open")
       \/ op[t] = "change_passphrase" /\ open' \in {open, FALSE}
    /\ Return(t)
    /\ UNCHANGED <<permits, waiting, holder, old, db, cache>>

Step(t) == \/ Lookup(t) \/ LockCache(t) \/ EnterPool(t) \/ LockMutex(t) \/ TakePermit(t)
           \/ Pop(t) \/ Run(t) \/ Give(t) \/ Leave(t) \/ Uncache(t)
           \/ Clear(t) \/ ClearGive(t) \/ Full(t) \/ Truncate(t) \/ Swap(t)

Next == \E t \in Tasks : Step(t) \/ \E o \in Ops[t] : Begin(t, o)

Spec == Init /\ [][Next]_vars

(* A task that can go on does: SQL statements end and tokio polls its tasks. *)
Fairness == \A t \in Tasks : WF_vars(Step(t))

-----------------------------------------------------------------------------
(* Whoever has a permit finds a connection in the pool, as the error that     *)
(* InnerPool::get has ready for the other case never happens.                 *)
PermitMeansConnection == \A t \in Tasks : pc[t] = "pop" => Free # {}

(* When a checkpoint does PRAGMA wal_checkpoint(FULL), nobody writes and      *)
(* whoever reads is at the end of the log, so that all pages are              *)
(* checkpointed; and at PRAGMA wal_checkpoint(TRUNCATE) nobody is using the   *)
(* database, so that it is not blocked (`ensure!(blocked == 0)').             *)
CheckpointsWhole ==
    \A t \in Tasks :
       /\ pc[t] = "full" => \A u \in Tasks \ {t} : \A c \in Held(u) : c \notin old /\ ~Writes(op[u])
       /\ pc[t] = "truncate" => \A u \in Tasks \ {t} : Held(u) = {}

(* What is cached is what the table holds, except for a task that is about to *)
(* cache what it just wrote, or about to remove what it overwrote directly.   *)
CacheIsCurrent ==
    \/ cache \in {NoOne, db}
    \/ \E t \in Tasks : op[t] = "set" /\ pc[t] \in {"give", "leave"}
    \/ \E t \in Tasks : op[t] = "direct" /\ pc[t] \in {"give", "leave", "uncache"}

(* Every operation ends: nobody waits for a lock, a permit or a connection    *)
(* forever, whatever the others do.                                           *)
CallsEnd == \A t \in Tasks : pc[t] # "idle" ~> pc[t] = "idle"
=============================================================================

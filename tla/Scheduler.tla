------------------------------ MODULE Scheduler ------------------------------
(***************************************************************************)
(* The IO scheduler of a Context (src/src/scheduler.rs): the state machine *)
(* Started / Stopped / Paused behind an RwLock, the loop tasks each start  *)
(* spawns, the guards that `pause` hands out and the tasks that resume IO  *)
(* when a guard is dropped, and the one-slot channels that wake the loops. *)
(*                                                                         *)
(* The write lock is held across awaits (do_start, do_stop), so starting   *)
(* and stopping take several steps in which loops and other callers run.   *)
(* A read lock is only held over synchronous code: one step.               *)
(***************************************************************************)
EXTENDS Integers, FiniteSets

CONSTANTS
    Callers,         \* client tasks that call the API (UI, JSON-RPC, imex, set_config)
    Inboxes,         \* the inbox loops of one Scheduler, one per transport
    Ops,             \* the operations the callers use in this instance
    MaxCalls,        \* bound: how many operations the callers begin; a Scheduler is started
                     \*   at most once per call
    MaxPauseGuards,  \* the largest pause_guards_count the counter can hold (usize::MAX)
    StartMayFail,    \* Scheduler::start may return an error (login params, proxy config)
    LoopsMayHang,    \* a loop may block inside a poll for longer than the 30 s of `stop`
    NoOne            \* the write lock is free

Smtp  == "smtp"
Aux   == "aux"   \* the ephemeral, location and recently-seen loops: aborted, not cancelled
Loops == Inboxes \cup {Smtp, Aux}
Interrupts == {"interrupt_inbox", "interrupt_smtp", "interrupt_aux", "maybe_network"}
AllOps == {"start", "stop", "pause", "restart"} \cup Interrupts
Resumer == "resume"

ASSUME SchedulerAssumption ==
    /\ IsFiniteSet(Callers) /\ IsFiniteSet(Inboxes)
    /\ Inboxes \cap {Smtp, Aux} = {}
    /\ Resumer \notin Callers /\ NoOne \notin Callers /\ NoOne # Resumer
    /\ Ops \subseteq AllOps
    /\ MaxCalls \in Nat \ {0} /\ MaxPauseGuards \in Nat \ {0}
    /\ StartMayFail \in BOOLEAN /\ LoopsMayHang \in BOOLEAN

VARIABLES
    state,              \* InnerSchedulerState
    started,            \* Paused.started: start IO again on resume
    pause_guards_count, \* Paused.pause_guards_count
    lock,               \* who holds the write lock of SchedulerState.inner
    pc,                 \* where each caller is
    dropped,            \* guards whose drop has signalled a resume task that did not run yet
    gen,                \* Schedulers created so far; the newest one is Started's
    cancelled,          \* Schedulers whose stop_token was cancelled
    loop,               \* loop[g][l]: what loop l of the g-th Scheduler is doing
    woken,              \* woken[g][l]: the interrupt channel of that loop (bounded(1)) is full
    pending,            \* loops for which there is work in the database
    calls,              \* operations begun (bounds the instance)
    requested           \* history: the last start or stop a caller asked for

lockVars  == <<state, started, pause_guards_count>>
taskVars  == <<gen, cancelled, loop, woken>>
vars == <<state, started, pause_guards_count, lock, pc, dropped,
          gen, cancelled, loop, woken, pending, calls, requested>>

Gens == 1..MaxCalls
States == {"Started", "Stopped", "Paused"}
LoopStates == {"none", "spawned", "running", "working", "reading", "idle", "hung", "done"}
Pcs == AllOps \cup {"idle", "restart_stop", "restart_start", "starting", "stopping_stop",
                    "stopping_pause", "stopping_restart", "guarding"}
Awaiting == {"running", "working", "reading", "idle"}  \* a loop at one of its awaits
Alive == Awaiting \cup {"hung"}

(* Guards that exist: held by a caller, or dropped and not yet resumed. *)
Guarding == {c \in Callers : pc[c] = "guarding"}

LockTypeOK ==
    /\ state \in States
    /\ started \in BOOLEAN
    /\ pause_guards_count \in 0..MaxPauseGuards
    /\ lock \in Callers \cup {Resumer, NoOne}
    /\ pc \in [Callers -> Pcs]
    /\ dropped \in Nat
    /\ requested \in BOOLEAN

TaskTypeOK ==
    /\ gen \in 0..MaxCalls
    /\ cancelled \in SUBSET Gens
    /\ loop \in [Gens -> [Loops -> LoopStates]]
    /\ woken \in [Gens -> [Loops -> BOOLEAN]]
    /\ pending \in SUBSET Loops
    /\ calls \in 0..MaxCalls

(* Every variable keeps its type; the pause counter cannot exceed what its    *)
(* integer holds, since pause refuses to overflow it.                         *)
TypeOK == LockTypeOK /\ TaskTypeOK

Init ==
    /\ state = "Stopped" /\ started = FALSE /\ pause_guards_count = 0
    /\ lock = NoOne
    /\ pc = [c \in Callers |-> "idle"]
    /\ dropped = 0
    /\ gen = 0 /\ cancelled = {}
    /\ loop = [g \in Gens |-> [l \in Loops |-> "none"]]
    /\ woken = [g \in Gens |-> [l \in Loops |-> FALSE]]
    /\ pending = {}
    /\ calls = 0
    /\ requested = FALSE

-----------------------------------------------------------------------------
(* Entering an operation.  Everything up to the lock is synchronous. *)

(* The loops an operation interrupts. *)
Targets(op) ==
    {l \in Loops : \/ op = "interrupt_inbox" /\ l \in Inboxes
                   \/ op = "interrupt_smtp"  /\ l = Smtp
                   \/ op = "interrupt_aux"   /\ l = Aux
                   \/ op = "maybe_network"   /\ l # Aux}

(* interrupt_* is called after work for these loops was written to the database. *)
Call(c) ==
    /\ pc[c] = "idle"
    /\ calls < MaxCalls
    /\ calls' = calls + 1
    /\ \E op \in Ops :
         /\ pc' = [pc EXCEPT ![c] = op]
         /\ pending' = IF op = "maybe_network" THEN pending ELSE pending \cup Targets(op)
    /\ UNCHANGED <<lockVars, lock, dropped, taskVars, requested>>

(* Mutant: pausing forgets that IO was running. *)
BeginStopForgets(newState, newStarted, newCount) ==
    /\ state' = newState
    /\ started' = FALSE
    /\ pause_guards_count' = newCount
    /\ cancelled' = cancelled \cup {gen}
    /\ UNCHANGED <<gen, loop, woken>>

(* do_stop up to its first await: the new state is in place, the stop tokens *)
(* of the inbox and SMTP loops are cancelled, the lock stays held.           *)
BeginStop(newState, newStarted, newCount) ==
    /\ state' = newState
    /\ started' = newStarted
    /\ pause_guards_count' = newCount
    /\ cancelled' = cancelled \cup {gen}
    /\ UNCHANGED <<gen, loop, woken>>

(* start(): the arm for each state. *)
Start(c) ==
    /\ pc[c] \in {"start", "restart_start"}
    /\ lock = NoOne
    /\ requested' = IF pc[c] = "start" THEN TRUE ELSE requested
    /\ \/ /\ state = "Started"
          /\ pc' = [pc EXCEPT ![c] = "idle"]
          /\ UNCHANGED <<lockVars, lock>>
       \/ /\ state = "Paused"
          /\ started' = TRUE
          /\ pc' = [pc EXCEPT ![c] = "idle"]
          /\ UNCHANGED <<state, pause_guards_count, lock>>
       \/ /\ state = "Stopped"
          /\ gen < MaxCalls
          /\ lock' = c
          /\ pc' = [pc EXCEPT ![c] = "starting"]
          /\ UNCHANGED lockVars
    /\ UNCHANGED <<dropped, cancelled, loop, woken, pending, calls>>
    /\ gen' = IF lock' = c THEN gen + 1 ELSE gen

(* stop(): also the first half of restart(). *)
Stop(c) ==
    /\ pc[c] \in {"stop", "restart_stop"}
    /\ lock = NoOne
    /\ requested' = IF pc[c] = "stop" THEN FALSE ELSE requested
    /\ LET after == IF pc[c] = "stop" THEN "idle" ELSE "restart_start" IN
       \/ /\ state = "Started"
          /\ BeginStop("Stopped", FALSE, 0)
          /\ lock' = c
          /\ pc' = [pc EXCEPT ![c] = IF @ = "stop" THEN "stopping_stop" ELSE "stopping_restart"]
       \/ /\ state = "Stopped"
          /\ pc' = [pc EXCEPT ![c] = after]
          /\ UNCHANGED <<lockVars, lock, taskVars>>
       \/ /\ state = "Paused"
          /\ started' = FALSE
          /\ pc' = [pc EXCEPT ![c] = after]
          /\ UNCHANGED <<state, pause_guards_count, lock, taskVars>>
    /\ UNCHANGED <<dropped, pending, calls>>

(* checked_add(1) overflows. *)
TooManyGuards == pause_guards_count = MaxPauseGuards

(* pause(): the caller ends up with a guard, unless the counter overflows. *)
Pause(c) ==
    /\ pc[c] = "pause"
    /\ lock = NoOne
    /\ \/ /\ state = "Started"
          /\ BeginStop("Paused", TRUE, 1)
          /\ lock' = c
          /\ pc' = [pc EXCEPT ![c] = "stopping_pause"]
       \/ /\ state = "Stopped"
          /\ state' = "Paused" /\ started' = FALSE /\ pause_guards_count' = 1
          /\ pc' = [pc EXCEPT ![c] = "guarding"]
          /\ UNCHANGED <<lock, taskVars>>
       \/ /\ state = "Paused" /\ ~TooManyGuards
          /\ pause_guards_count' = pause_guards_count + 1
          /\ pc' = [pc EXCEPT ![c] = "guarding"]
          /\ UNCHANGED <<state, started, lock, taskVars>>
       \/ /\ state = "Paused" /\ TooManyGuards
          /\ pc' = [pc EXCEPT ![c] = "idle"]
          /\ UNCHANGED <<lockVars, lock, taskVars>>
    /\ UNCHANGED <<dropped, pending, calls, requested>>

(* restart(): is_running is read under its own lock, before stop and start. *)
RestartCheck(c) ==
    /\ pc[c] = "restart"
    /\ lock = NoOne
    /\ pc' = [pc EXCEPT ![c] = IF state = "Started" THEN "restart_stop" ELSE "idle"]
    /\ UNCHANGED <<lockVars, lock, dropped, taskVars, pending, calls, requested>>

(* Mutant: only a loop that already idles notices the interrupt. *)
WakeIdle(ls) == woken' = IF state = "Started"
                         THEN [woken EXCEPT ![gen] =
                                 [l \in Loops |-> (l \in ls /\ loop[gen][l] = "idle") \/ @[l]]]
                         ELSE woken

(* interrupt_*(), maybe_network(), maybe_network_lost(): try_send on the      *)
(* loop's channel, which drops the token if one is there already.             *)
Wake(ls) == woken' = IF state = "Started"
                     THEN [woken EXCEPT ![gen] = [l \in Loops |-> IF l \in ls THEN TRUE ELSE @[l]]]
                     ELSE woken

Interrupt(c) ==
    /\ pc[c] \in Interrupts
    /\ lock = NoOne
    /\ Wake(Targets(pc[c]))
    /\ pc' = [pc EXCEPT ![c] = "idle"]
    /\ UNCHANGED <<lockVars, lock, dropped, gen, cancelled, loop, pending, calls, requested>>

(* Dropping an IoPausedGuard signals its resume task. *)
DropGuard(c) ==
    /\ pc[c] = "guarding"
    /\ pc' = [pc EXCEPT ![c] = "idle"]
    /\ dropped' = dropped + 1
    /\ UNCHANGED <<lockVars, lock, taskVars, pending, calls, requested>>

(* pause_guards_count == NonZeroUsize::MIN.  Mutant: the first guard resumes. *)
AnyGuard == TRUE
LastGuard == pause_guards_count = 1

(* The resume task: the last guard restores the requested state. *)
Resume ==
    /\ dropped > 0
    /\ lock = NoOne
    /\ dropped' = dropped - 1
    /\ \/ /\ state # "Paused"      \* logged as "started/stopped instead of paused"
          /\ UNCHANGED <<lockVars, lock, gen>>
       \/ /\ state = "Paused" /\ ~LastGuard
          /\ pause_guards_count' = pause_guards_count - 1
          /\ UNCHANGED <<state, started, lock, gen>>
       \/ /\ state = "Paused" /\ LastGuard /\ started = TRUE
          /\ gen < MaxCalls
          /\ lock' = Resumer /\ gen' = gen + 1
          /\ UNCHANGED lockVars
       \/ /\ state = "Paused" /\ LastGuard /\ started = FALSE
          /\ state' = "Stopped" /\ pause_guards_count' = 0
          /\ UNCHANGED <<started, lock, gen>>
    /\ UNCHANGED <<pc, cancelled, loop, woken, pending, calls, requested>>

-----------------------------------------------------------------------------
(* Scheduler::start, run under the write lock by a caller or a resume task. *)

Starting == \/ lock = Resumer
            \/ lock \in Callers /\ pc[lock] = "starting"

(* The holder of the lock finishes do_start and releases the lock. *)
EndStart ==
    /\ lock' = NoOne
    /\ pc' = [c \in Callers |-> IF c = lock THEN "idle" ELSE pc[c]]

(* The inbox loops are spawned one by one, then the SMTP loop and the others. *)
Spawn(l) ==
    /\ Starting
    /\ loop[gen][l] = "none"
    /\ l \notin Inboxes => \A i \in Inboxes : loop[gen][i] # "none"
    /\ loop' = [loop EXCEPT ![gen][l] = "spawned"]
    /\ UNCHANGED <<lockVars, lock, pc, dropped, gen, cancelled, woken, pending, calls, requested>>

(* All loops are spawned and those that report have: the scheduler is Started. *)
StartDone ==
    /\ Starting
    /\ \A l \in Loops : loop[gen][l] \notin (IF l = Aux THEN {"none"} ELSE {"none", "spawned"})
    /\ state' = "Started" /\ started' = FALSE /\ pause_guards_count' = 0
    /\ EndStart
    /\ UNCHANGED <<dropped, taskVars, pending, calls, requested>>

(* load_all or Imap::new fails before the last inbox loop is spawned: the    *)
(* state stays as it was.  Handles and start receivers are dropped, so loops *)
(* that have not reported yet return; those that have run on, detached.      *)
StartFail ==
    /\ StartMayFail
    /\ Starting
    /\ \/ \E i \in Inboxes : loop[gen][i] = "none"
       \/ \A l \in Loops : loop[gen][l] = "none"
    /\ loop' = [loop EXCEPT ![gen] = [l \in Loops |-> IF @[l] = "spawned" THEN "done" ELSE @[l]]]
    /\ EndStart
    /\ UNCHANGED <<lockVars, dropped, gen, cancelled, woken, pending, calls, requested>>

(* The joined loops have ended, or 30 s have passed for a loop that hangs.   *)
(* Mutant: nobody joins them.                                                *)
NobodyJoins == TRUE
LoopsJoined == \A l \in Loops \ {Aux} : loop[gen][l] \in {"done", "hung"}

(* Scheduler::stop returns; before that the other tasks are aborted and awaited. *)
StopDone(c) ==
    /\ lock = c
    /\ pc[c] \in {"stopping_stop", "stopping_pause", "stopping_restart"}
    /\ LoopsJoined
    /\ loop' = [loop EXCEPT ![gen][Aux] = "done"]
    /\ lock' = NoOne
    /\ pc' = [pc EXCEPT ![c] = IF @ = "stopping_pause" THEN "guarding"
                               ELSE IF @ = "stopping_restart" THEN "restart_start" ELSE "idle"]
    /\ UNCHANGED <<lockVars, dropped, gen, cancelled, woken, pending, calls, requested>>

-----------------------------------------------------------------------------
(* The loops.  `stop_token.cancelled()` races with the loop body, so a        *)
(* cancelled loop ends at whichever await it is in.                           *)

SetLoop(g, l, s) == loop' = [loop EXCEPT ![g][l] = s]
LoopFrame == UNCHANGED <<lockVars, lock, pc, dropped, gen, cancelled, calls, requested>>

(* The loop reports `started` and runs its first iteration. *)
LoopStarted(g, l) ==
    /\ loop[g][l] = "spawned"
    /\ SetLoop(g, l, "running")
    /\ UNCHANGED <<woken, pending>> /\ LoopFrame

(* An iteration selects the work it finds in the database ... *)
LoopWork(g, l) ==
    /\ loop[g][l] = "running"
    /\ SetLoop(g, l, "working")
    /\ pending' = pending \ {l}
    /\ UNCHANGED woken /\ LoopFrame

(* ... handles it and goes to (fake) idle. *)
LoopIdle(g, l) ==
    /\ loop[g][l] = "working"
    /\ SetLoop(g, l, "idle")
    /\ UNCHANGED <<woken, pending>> /\ LoopFrame

(* The work may end with interrupting the SMTP loop, which takes the read lock. *)
LoopAsksRead(g, l) ==
    /\ loop[g][l] = "working"
    /\ SetLoop(g, l, "reading")
    /\ UNCHANGED <<woken, pending>> /\ LoopFrame

LoopInterrupts(g, l) ==
    /\ loop[g][l] = "reading"
    /\ lock = NoOne
    /\ SetLoop(g, l, "idle")
    /\ Wake({Smtp}) /\ UNCHANGED pending /\ LoopFrame

(* The idle loop takes the token from its channel. *)
LoopWakes(g, l) ==
    /\ loop[g][l] = "idle"
    /\ woken[g][l]
    /\ SetLoop(g, l, "running")
    /\ woken' = [woken EXCEPT ![g][l] = FALSE]
    /\ UNCHANGED pending /\ LoopFrame

(* A connection error, a new message or the retry timeout ends the idling. *)
LoopRetries(g, l) ==
    /\ loop[g][l] = "idle"
    /\ SetLoop(g, l, "running")
    /\ UNCHANGED <<woken, pending>> /\ LoopFrame

(* Where a loop notices its stop token.  Mutant: only while it idles. *)
StopsWhileIdle == {"idle"}
StopsAt == Awaiting

LoopExit(g, l) ==
    /\ g \in cancelled /\ l # Aux
    /\ loop[g][l] \in StopsAt
    /\ SetLoop(g, l, "done")
    /\ UNCHANGED <<woken, pending>> /\ LoopFrame

(* The loop blocks inside one poll (and comes back). *)
LoopHangs(g, l) ==
    /\ LoopsMayHang /\ l # Aux
    /\ \/ loop[g][l] = "working" /\ SetLoop(g, l, "hung")
       \/ loop[g][l] = "hung" /\ SetLoop(g, l, "working")
    /\ UNCHANGED <<woken, pending>> /\ LoopFrame

LoopStep(g, l) ==
    \/ LoopStarted(g, l) \/ LoopWork(g, l) \/ LoopIdle(g, l) \/ LoopAsksRead(g, l) \/ LoopInterrupts(g, l)
    \/ LoopWakes(g, l) \/ LoopRetries(g, l) \/ LoopExit(g, l) \/ LoopHangs(g, l)

CallerStep(c) ==
    \/ Call(c) \/ Start(c) \/ Stop(c) \/ Pause(c) \/ RestartCheck(c) \/ Interrupt(c)
    \/ DropGuard(c) \/ StopDone(c)

Next ==
    \/ \E c \in Callers : CallerStep(c)
    \/ Resume
    \/ \E l \in Loops : Spawn(l)
    \/ StartDone \/ StartFail
    \/ \E g \in Gens, l \in Loops : LoopStep(g, l)

Spec == Init /\ [][Next]_vars
(* Fairness.  Tasks that can run do run, guards are dropped when the paused   *)
(* operation ends, and tokio's RwLock is handed out in FIFO order, so nobody  *)
(* waits for it forever (SF on what needs the lock).  Clients need not call   *)
(* and a hanging loop need not come back.                                     *)
Progress(c) ==
    \/ Start(c) \/ Stop(c) \/ Pause(c) \/ RestartCheck(c) \/ Interrupt(c)
    \/ DropGuard(c) \/ StopDone(c)

LoopProgress(g, l) ==
    \/ LoopWork(g, l) \/ LoopIdle(g, l) \/ LoopAsksRead(g, l)
    \/ LoopInterrupts(g, l) \/ LoopWakes(g, l)

Fairness ==
    /\ \A c \in Callers : SF_vars(Progress(c))
    /\ SF_vars(Resume)
    /\ WF_vars(StartDone \/ \E l \in Loops : Spawn(l))
    /\ WF_vars(\E g \in Gens, l \in Loops : LoopStarted(g, l) \/ LoopExit(g, l))
    /\ \A l \in Loops : SF_vars(\E g \in Gens : LoopProgress(g, l))

FairSpec == Spec /\ Fairness

-----------------------------------------------------------------------------
(* Guards that will still call resume: held, about to be handed out, dropped  *)
(* and waiting, or resuming right now.                                        *)
LiveGuards ==
    Cardinality({c \in Callers : pc[c] \in {"guarding", "stopping_pause"}})
    + dropped + (IF lock = Resumer THEN 1 ELSE 0)

(* pause_guards_count is exactly the number of guards that exist, and the     *)
(* scheduler is Paused only while there is one: no interleaving of pause,     *)
(* start, stop, restart and late resume tasks loses or invents a guard, so    *)
(* the `unwrap` in resume cannot fail and IO cannot stay paused.              *)
GuardsAccounted ==
    IF state = "Paused" THEN pause_guards_count = LiveGuards
                        ELSE LiveGuards = 0 /\ pause_guards_count = 0

(* Loops run only for the newest Scheduler and only while it is Started (or   *)
(* being started or stopped): after stop() or pause() nothing touches the     *)
(* network or the database, and no two generations of loops run at once.      *)
OnlyCurrentLoopsRun ==
    \A g \in Gens, l \in Loops :
        loop[g][l] \in Alive => g = gen /\ (state = "Started" \/ lock # NoOne)

(* Whenever the lock is free, IO runs, or will run on resume, exactly if the  *)
(* last start_io/stop_io asked for it ("restore the scheduler to the state    *)
(* requested by the last call").                                              *)
RequestHonoured ==
    lock = NoOne => (requested <=> state = "Started" \/ (state = "Paused" /\ started = TRUE))

(* Every API call returns: stop_io cannot be blocked by a loop that waits for *)
(* the lock stop_io holds, nor start_io by a stop in progress.                *)
CallsReturn ==
    \A c \in Callers : pc[c] # "idle" ~> pc[c] = "idle"

(* No lost wakeup: work queued for a loop of a started scheduler is picked    *)
(* up, even if the interrupt comes while the loop is still working or going   *)
(* to idle, unless IO is stopped first.                                       *)
WorkPickedUp ==
    \A l \in Loops : l \in pending ~> (l \notin pending \/ state # "Started")
=============================================================================

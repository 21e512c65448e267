----------------------------- MODULE MCScheduler -----------------------------
(* Instances of Scheduler for TLC; the cfg files choose the operations and the *)
(* faults.                                                                     *)
EXTENDS Scheduler, TLC

LifecycleOps == {"start", "stop", "pause"}
AllLifecycleOps == LifecycleOps \cup {"restart"}
LiveOps == {"start", "stop", "interrupt_smtp", "maybe_network"}

(* Calls that start, stop and interrupt; pauses are in MCLoops. *)
LiveNext == Next /\ state' # "Paused"
LiveSpec == Init /\ [][LiveNext]_vars /\ Fairness
=============================================================================

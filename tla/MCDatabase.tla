----------------------------- MODULE MCDatabase -----------------------------
(* Three tasks use the database: between them they call every operation.     *)
EXTENDS Database, TLC

CONSTANTS t1, t2, t3

Roles == t1 :> {"query", "get", "close"}
      @@ t2 :> {"execute", "set", "direct"}
      @@ t3 :> {"get", "checkpoint", "import", "open", "change_passphrase"}

FairSpec == Spec /\ Fairness
=============================================================================

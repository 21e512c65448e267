----------------------------- MODULE MCSmtpQueue -----------------------------
(* Instances of SmtpQueue for TLC. *)
EXTENDS SmtpQueue, TLC

Symmetry == Permutations(Msgs)

(* Messages alone; receipts are in MCLoops. *)
SendNext == Next /\ UNCHANGED mdnVars
SendSpec == Init /\ [][SendNext]_vars

OneContact == [x \in Receipts |-> "alice"]
=============================================================================

-------------------------- MODULE MCGroupMembership --------------------------
(* Instances of GroupMembership for TLC. *)
EXTENDS GroupMembership, TLC

CONSTANT Ahead   \* the user whose clock is ahead by one, or NoOne

(* All users but the creator are alike, unless their clocks differ. *)
Symmetry == Permutations(Users \ {Creator, Ahead})

SameClocks == [u \in Users |-> 0]
OneAhead == [u \in Users |-> IF u = Ahead THEN 1 ELSE 0]
=============================================================================

-------------------------- MODULE MCOperatorAccess --------------------------
(***************************************************************************)
(* Small instances of OperatorAccess for TLC.                               *)
(***************************************************************************)
EXTENDS OperatorAccess, TLC

CONSTANTS MaxFaults, MaxBoots, MaxCrashes

MCBound == [fault |-> MaxFaults, boot |-> MaxBoots, crash |-> MaxCrashes]

Symmetry == Permutations(Scope) \cup Permutations(Operator) \cup Permutations(Caller)
=============================================================================

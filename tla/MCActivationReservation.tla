----------------------- MODULE MCActivationReservation -----------------------
(***************************************************************************)
(* Small instances of ActivationReservation for TLC.                        *)
(***************************************************************************)
EXTENDS ActivationReservation, TLC

Symmetry == Permutations(Key) \cup Permutations(Task)
=============================================================================

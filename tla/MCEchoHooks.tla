----------------------------- MODULE MCEchoHooks -----------------------------
(***************************************************************************)
(* Small instances of EchoHooks for TLC.                                    *)
(***************************************************************************)
EXTENDS EchoHooks, TLC

Symmetry == Permutations(Hook) \cup Permutations(Scope) \cup Permutations(Caller)
=============================================================================

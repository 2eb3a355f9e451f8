-------------------------- MODULE MCAttentionGuard --------------------------
(***************************************************************************)
(* Small instances of AttentionGuard for TLC.                               *)
(***************************************************************************)
EXTENDS AttentionGuard, TLC

CONSTANTS MaxEvents, MaxMutations, MaxBoots, MaxMishaps,
          Counts, Windows, Ignores, Lifetimes

MCBound ==
  [event |-> MaxEvents, mutation |-> MaxMutations, boot |-> MaxBoots, mishap |-> MaxMishaps]

MCSettings == [count: Counts, window: Windows, ignore: Ignores, lifetime: Lifetimes]

MCBatches == SUBSET Target \ {{}}

Symmetry == Permutations(Scope) \cup Permutations(Target)
=============================================================================

------------------------ MODULE MCActivationPipeline ------------------------
(***************************************************************************)
(* Small instances of ActivationPipeline for TLC.                           *)
(***************************************************************************)
EXTENDS ActivationPipeline, TLC

MCModes == {"extra_only", "suppress_llm", "stop_event"}

Symmetry == Permutations(Task) \cup Permutations(Key)
=============================================================================

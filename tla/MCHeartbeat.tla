----------------------------- MODULE MCHeartbeat -----------------------------
(***************************************************************************)
(* Small instances of Heartbeat for TLC.                                    *)
(***************************************************************************)
EXTENDS Heartbeat, TLC

\* A mishap is a call of the cron that raises, or a pause by hand.
CONSTANTS MaxOps, MaxBoots, MaxMishaps

MCBound == ("op" :> MaxOps) @@ ("boot" :> MaxBoots) @@ ("mishap" :> MaxMishaps)

Symmetry == Permutations(Lease) \cup Permutations(Scope)
=============================================================================

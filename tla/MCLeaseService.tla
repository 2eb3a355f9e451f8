--------------------------- MODULE MCLeaseService ---------------------------
(***************************************************************************)
(* Small instances of LeaseService for TLC.                                 *)
(***************************************************************************)
EXTENDS LeaseService, TLC

CONSTANTS
  Ops,           \* the operations callers ask for
  Durations,     \* the lengths they ask for
  MaxTick, MaxCalls, MaxTurns, MaxFaults, MaxCancels, MaxCrashes, MaxBoots, MaxDecisions

(* Only enable, renew and set_rate take a length; a restore takes a scope   *)
(* and no targets; acknowledgements come from agent turns.                  *)
MCRequests ==
  {req \in [op: Ops, scope: Scope, targets: SUBSET Target \ {{}}, duration: Durations \cup {1},
            id: {NoId}] :
     /\ req.op \notin {"enable", "renew", "set_rate"} => req.duration = 1
     /\ req.op \in {"enable", "renew", "set_rate"} => req.duration \in Durations
     /\ req.op = "restore" => req.targets = Target}

MCBound ==
  [clock |-> MaxTick, calls |-> MaxCalls, turns |-> MaxTurns, faults |-> MaxFaults,
   cancels |-> MaxCancels, crashes |-> MaxCrashes, boots |-> MaxBoots,
   decisions |-> MaxDecisions]

(* Scopes are left out: the request of an idle task names one of them.      *)
Symmetry == Permutations(Target) \cup Permutations(Caller)
=============================================================================

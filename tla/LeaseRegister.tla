---------------------------- MODULE LeaseRegister ----------------------------
(***************************************************************************)
(* What ActivationService promises about its document, without slots,       *)
(* locks, tasks or a KV store.  One acknowledged document; messages are     *)
(* judged by it while the service is open.  A commit replaces it; the       *)
(* service can close, and when it reopens it has the acknowledged document, *)
(* or one that was committed when the service lost track of it, or - only   *)
(* if the acknowledged copy could not be read - the predecessor of the      *)
(* acknowledged document.                                                   *)
(***************************************************************************)
EXTENDS LeaseDomain

CONSTANT NoSlot

VARIABLES
  wall,     \* the instant leases are judged by
  acked,    \* the acknowledged document
  prior,    \* its predecessor
  limbo,    \* a document committed without anyone knowing, or NoSlot
  fallback, \* the acknowledged copy could not be read since the service closed
  open      \* messages are judged by acked; none is when the service is closed

registerVars == <<wall, acked, prior, limbo, fallback, open>>

RegisterInit ==
  /\ wall = 0
  /\ acked = EmptyDocument
  /\ prior = EmptyDocument
  /\ limbo = NoSlot
  /\ fallback = FALSE
  /\ open = FALSE

(* Leases only run out.                                                     *)
Pass ==
  /\ wall' \in Nat
  /\ wall' >= wall
  /\ UNCHANGED <<acked, prior, limbo, fallback, open>>

(* A commit is acknowledged.                                                *)
Replace ==
  /\ acked' \in Document
  /\ prior' = acked
  /\ limbo' = NoSlot
  /\ UNCHANGED <<wall, fallback, open>>

(* Track is lost of a commit, and the service may close with it.            *)
Strand ==
  /\ limbo' \in Document
  /\ open' \in {open, FALSE}
  /\ UNCHANGED <<wall, acked, prior, fallback>>

Close ==
  /\ open' = FALSE
  /\ UNCHANGED <<wall, acked, prior, limbo, fallback>>

(* The acknowledged copy could not be read.                                 *)
LoseAcknowledged ==
  /\ ~open
  /\ fallback' = TRUE
  /\ UNCHANGED <<wall, acked, prior, limbo, open>>

Recoverable ==
  {acked} \cup (IF limbo = NoSlot THEN {} ELSE {limbo})
          \cup (IF fallback THEN {prior} ELSE {})

(* The service opens on a recoverable document, less what has expired.      *)
Reopen ==
  /\ ~open
  /\ acked' \in Document
  /\ \E doc \in Recoverable : Prune(acked', wall) = Prune(doc, wall)
  /\ prior' = acked'
  /\ limbo' = NoSlot
  /\ fallback' = FALSE
  /\ open' = TRUE
  /\ UNCHANGED wall

RegisterNext == Pass \/ Replace \/ Strand \/ Close \/ LoseAcknowledged \/ Reopen

RegisterSpec == RegisterInit /\ [][RegisterNext]_registerVars
=============================================================================

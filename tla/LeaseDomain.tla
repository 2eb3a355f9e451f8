---------------------------- MODULE LeaseDomain ----------------------------
(***************************************************************************)
(* The pure part of the activation registry (src/domain.py): the document   *)
(* of activation leases, rate leases and recovery reports, and the          *)
(* functions that map a document and an instant to a new document.          *)
(*                                                                         *)
(* A lease is its expiry time; 0 stands for "no lease", which is the same   *)
(* thing as a lease that expired at 0 because instants start at 0 and a     *)
(* lease is alive only while expires_at > now.  What a lease carries beside *)
(* its expiry (creator, creation time, source, the numbers of a rate        *)
(* window) is not read by these functions and is left out.                  *)
(***************************************************************************)
EXTENDS Integers, FiniteSets

CONSTANTS
  Scope,              \* group conversations (unified message origins)
  Target,             \* QQ ids
  MaxTargetsPerScope, \* limits.max_targets_per_scope
  MaxTargetsTotal,    \* limits.max_targets_total
  ReportSeconds       \* limits.recovery_report_seconds

ASSUME LimitAssumption ==
  /\ MaxTargetsPerScope \in Nat \ {0}
  /\ MaxTargetsTotal \in Nat \ {0}
  /\ ReportSeconds \in Nat \ {0}

Key == Scope \X Target

NoLease == 0

Report == [at: Nat, targets: SUBSET Target, expires: Nat]

NoReport == [at |-> 0, targets |-> {}, expires |-> 0]

(* report_id is a digest of the scope, the instant and the targets. *)
ReportId == [at: Nat, targets: SUBSET Target]

IdOf(report) == [at |-> report.at, targets |-> report.targets]

NoId == [at |-> 0, targets |-> {}]

Document ==
  [activations: [Key -> Nat], rates: [Key -> Nat], reports: [Scope -> Report]]

EmptyDocument ==
  [activations |-> [k \in Key |-> NoLease],
   rates       |-> [k \in Key |-> NoLease],
   reports     |-> [s \in Scope |-> NoReport]]

Operation ==
  {"enable", "renew", "disable", "set_rate", "clear_rate", "restore", "acknowledge"}

Request ==
  [op: Operation, scope: Scope, targets: SUBSET Target, duration: Nat \ {0}, id: ReportId]

(***************************************************************************)
(* prune_state: expired leases and reports go, and so does a rate lease     *)
(* without a live activation lease or one that would outlive it.            *)
(***************************************************************************)
PruneLeases(leases, now) ==
  [k \in Key |-> IF leases[k] > now THEN leases[k] ELSE NoLease]

Prune(doc, now) ==
  [activations |-> PruneLeases(doc.activations, now),
   rates       |-> [k \in Key |->
                     IF doc.rates[k] > now /\ doc.rates[k] <= doc.activations[k]
                     THEN doc.rates[k] ELSE NoLease],
   reports     |-> [s \in Scope |->
                     IF doc.reports[s].expires > now THEN doc.reports[s] ELSE NoReport]]

Live(leases) == {k \in Key : leases[k] # NoLease}

InScope(s) == {k \in Key : k[1] = s}

Named(req) == {k \in Key : k[1] = req.scope /\ k[2] \in req.targets}

(* active_leases: the reads that decide about one message. *)
ActivationAlive(doc, k, now) == doc.activations[k] > now

RateAlive(doc, k, now) == ActivationAlive(doc, k, now) /\ doc.rates[k] > now

----------------------------------------------------------------------------
(* Each mutation returns the new document, the rows its receipt reports as  *)
(* changed, and the keys whose sliding window it resets.                    *)

Result(doc, changed, reset) == [doc |-> doc, changed |-> changed, reset |-> reset]

(* Deviation: the capacities are exceeded by one before they reject.        *)
EnableRejectedLate(doc, req, now) ==
  LET active == Live(Prune(doc, now).activations)
      fresh  == Named(req) \ active
  IN  \/ req.op = "renew" /\ fresh # {}
      \/ /\ fresh # {}
         /\ \/ Cardinality((active \cap InScope(req.scope)) \cup fresh) > MaxTargetsPerScope + 1
            \/ Cardinality(active \cup fresh) > MaxTargetsTotal + 1

(* enable_activation's DomainErrors: a renewal of an absent lease, and the  *)
(* two capacities, which only new keys can exceed.                          *)
EnableRejected(doc, req, now) ==
  LET clean  == Prune(doc, now)
      active == Live(clean.activations)
      fresh  == Named(req) \ active
  IN  \/ req.op = "renew" /\ fresh # {}
      \/ /\ fresh # {}
         /\ \/ Cardinality((active \cap InScope(req.scope)) \cup fresh) > MaxTargetsPerScope
            \/ Cardinality(active \cup fresh) > MaxTargetsTotal

(* enable_activation: every named key gets a new lease; a rate lease that   *)
(* would outlive the new activation lease is removed with it.               *)
Enable(doc, req, now) ==
  LET clean  == Prune(doc, now)
      expiry == now + req.duration
  IN  Result([clean EXCEPT
                !.activations = [k \in Key |-> IF k \in Named(req) THEN expiry ELSE @[k]],
                !.rates = [k \in Key |-> IF k \in Named(req) /\ @[k] > expiry
                                         THEN NoLease ELSE @[k]]],
             Named(req), Named(req))

(* disable_activation takes the rate lease along. *)
Disable(doc, req, now) ==
  LET clean == Prune(doc, now)
  IN  Result([clean EXCEPT
                !.activations = [k \in Key |-> IF k \in Named(req) THEN NoLease ELSE @[k]],
                !.rates = [k \in Key |-> IF k \in Named(req) THEN NoLease ELSE @[k]]],
             Named(req) \cap Live(clean.activations), Named(req))

SetRateRejected(doc, req, now) ==
  ~(Named(req) \subseteq Live(Prune(doc, now).activations))

(* Deviation: the limit may outlive the activation lease.                   *)
SetRateUnclamped(doc, req, now) ==
  LET clean == Prune(doc, now)
  IN  Result([clean EXCEPT !.rates =
                [k \in Key |-> IF k \in Named(req) THEN now + req.duration ELSE @[k]]],
             Named(req), Named(req))

(* set_rate: the limit is clamped to the activation lease it limits. *)
SetRate(doc, req, now) ==
  LET clean    == Prune(doc, now)
      asked    == now + req.duration
      clamp(k) == IF asked <= clean.activations[k] THEN asked ELSE clean.activations[k]
  IN  Result([clean EXCEPT !.rates =
                [k \in Key |-> IF k \in Named(req) THEN clamp(k) ELSE @[k]]],
             Named(req), Named(req))

ClearRate(doc, req, now) ==
  LET clean == Prune(doc, now)
  IN  Result([clean EXCEPT !.rates =
                [k \in Key |-> IF k \in Named(req) THEN NoLease ELSE @[k]]],
             Named(req) \cap Live(clean.rates), Named(req))

(* restore_scope_to_native: the whole scope loses its leases, and a report  *)
(* of what it had takes the place of an earlier report of that scope.       *)
RestoreNative(doc, req, now) ==
  LET clean    == Prune(doc, now)
      affected == Live(clean.activations) \cap InScope(req.scope)
      report   == [at |-> now, targets |-> {k[2] : k \in affected},
                   expires |-> now + ReportSeconds]
      without(leases) == [k \in Key |-> IF k \in affected THEN NoLease ELSE leases[k]]
  IN  IF affected = {} THEN Result(clean, {}, {})
      ELSE Result([activations |-> without(clean.activations),
                   rates       |-> without(clean.rates),
                   reports     |-> [clean.reports EXCEPT ![req.scope] = report]],
                  affected, affected)

(* Deviation: whatever report is pending is removed.                        *)
AcknowledgeAny(doc, req, now) ==
  LET clean == Prune(doc, now)
  IN  IF clean.reports[req.scope] = NoReport
      THEN Result(clean, {}, {})
      ELSE Result([clean EXCEPT !.reports[req.scope] = NoReport], {req.scope}, {})

(* acknowledge_recovery removes the report only under the id it was shown   *)
(* with.                                                                    *)
Acknowledge(doc, req, now) ==
  LET clean  == Prune(doc, now)
      report == clean.reports[req.scope]
  IN  IF report = NoReport \/ IdOf(report) # req.id
      THEN Result(clean, {}, {})
      ELSE Result([clean EXCEPT !.reports[req.scope] = NoReport], {req.scope}, {})

Rejected(doc, req, now) ==
  \/ req.op \in {"enable", "renew"} /\ EnableRejected(doc, req, now)
  \/ req.op = "set_rate" /\ SetRateRejected(doc, req, now)

Apply(doc, req, now) ==
  CASE req.op \in {"enable", "renew"} -> Enable(doc, req, now)
    [] req.op = "disable"             -> Disable(doc, req, now)
    [] req.op = "set_rate"            -> SetRate(doc, req, now)
    [] req.op = "clear_rate"          -> ClearRate(doc, req, now)
    [] req.op = "restore"             -> RestoreNative(doc, req, now)
    [] req.op = "acknowledge"         -> Acknowledge(doc, req, now)

(* The rows of a receipt that carry an expires_at already passed at the     *)
(* acknowledgement.                                                         *)
ExpiredRow(doc, req, row, now) ==
  \/ req.op \in {"enable", "renew"} /\ doc.activations[row] <= now
  \/ req.op = "set_rate" /\ doc.rates[row] <= now
=============================================================================

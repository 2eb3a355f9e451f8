--------------------------- MODULE OperatorAccess ---------------------------
(***************************************************************************)
(* AccessService (src/access_service.py, src/access_domain.py): an          *)
(* administrator grants an operator of a scope the use of the tools for a   *)
(* while, and revokes it.                                                   *)
(*                                                                         *)
(* A mutation is admitted by storage_ready before it queues for the lock,   *)
(* and suspends in its two puts.  terminate only lowers the flag: a         *)
(* mutation that is queued or storing then still goes on, with the lock and *)
(* the memory of its own instance, maybe after the next one has loaded.     *)
(***************************************************************************)
EXTENDS Integers, FiniteSets, SlotStore

CONSTANTS
  Scope, Operator,
  Caller,      \* calls of manage, by administrators
  NoDocument,  \* a slot of the store that was never written, or no selection
  MaxPerScope, \* limits.max_per_scope
  MaxTotal,    \* limits.max_total
  Durations,   \* the durations asked for
  Drained,     \* the host loads a new instance only when no call is under way
  Bound,       \* bound: how often each kind of event may happen
  MaxTime      \* bound: the last instant of the wall clock

VARIABLES
  wall,       \* the wall clock
  svc,        \* the instance the host runs, and its storage_ready
  memory,     \* _state of every instance
  calls,      \* the locals of the mutations, and who holds the lock
  primary, backup, \* the two slots of the store
  spent,      \* the bounded events so far
  granted,    \* history: acknowledged grants that nothing has touched since
  denied      \* history: acknowledged revocations that no grant followed

vars == <<wall, svc, memory, calls, primary, backup, spent, granted, denied>>

Key == Scope \X Operator
Instance == 1 .. Bound.boot

(* Of a grant only its expires_at is kept; 0 is no grant.                   *)
Document == [Key -> Nat]
Empty == [k \in Key |-> 0]

BoundNames == {"fault", "boot", "crash"}

ASSUME AccessAssumption ==
  /\ NoDocument \notin Document
  /\ Durations \subseteq Nat \ {0}
  /\ Drained \in BOOLEAN
  /\ Bound \in [BoundNames -> Nat]
  /\ MaxTime \in Nat

CanSpend(n) == spent[n] < Bound[n]
Spend(n) == spent' = [spent EXCEPT ![n] = @ + 1]

Operation == {"none", "grant", "renew", "revoke"}

CallRecord ==
  [step: {"idle", "waiting", "backup", "primary", "done"}, op: Operation, key: SUBSET Key,
   duration: Nat, instance: Nat, previous: Document, candidate: Document]

IdleCall ==
  [step |-> "idle", op |-> "none", key |-> {}, duration |-> 0, instance |-> 0,
   previous |-> Empty, candidate |-> Empty]

Done == [IdleCall EXCEPT !.step = "done"]

Init ==
  /\ wall = 0
  /\ svc = [instance |-> 0, ready |-> FALSE]
  /\ memory = [i \in Instance |-> Empty]
  /\ calls = [c \in Caller |-> IdleCall]
  /\ primary = NoDocument /\ backup = NoDocument
  /\ spent = [n \in BoundNames |-> 0]
  /\ granted = Empty
  /\ denied = {}

Tick ==
  /\ wall < MaxTime
  /\ wall' = wall + 1
  /\ UNCHANGED <<svc, memory, calls, primary, backup, spent, granted, denied>>
----------------------------------------------------------------------------
(* The grants: src/access_domain.py.                                        *)

(* prune_access_state                                                       *)
Prune(state) == [k \in Key |-> IF state[k] > wall THEN state[k] ELSE 0]

Present(state) == {k \in Key : state[k] # 0}

(* grant_operator_access rejects: a renewal of what is not there, or new    *)
(* grants beyond a capacity.                                                *)
Rejected(clean, op, keys) ==
  LET after == Present(clean) \cup keys
      new   == keys \ Present(clean)
  IN  \/ op = "renew" /\ new # {}
      \/ /\ op # "revoke" /\ new # {}
         /\ \/ \E s \in Scope : Cardinality({k \in after : k[1] = s}) > MaxPerScope
            \/ Cardinality(after) > MaxTotal

(* grant_operator_access, revoke_operator_access                            *)
Mutation(clean, op, keys, duration) ==
  [k \in Key |-> IF k \notin keys THEN clean[k]
                 ELSE IF op = "revoke" THEN 0 ELSE wall + duration]

(* has_operator, for the instance that runs                                 *)
HasOperator(k) == svc.ready /\ memory[svc.instance][k] > wall

(* authorize: what lets an actor use a tool.  A call that only restricts    *)
(* needs no grant, nor does the turn of a recovery report to enable.        *)
Authorized(k, isAdmin, restricts, recovers) == isAdmin \/ HasOperator(k) \/ restricts \/ recovers
----------------------------------------------------------------------------
(* manage and _commit.                                                      *)

Manage(c, op, keys, duration) ==
  /\ calls[c].step = "idle"
  /\ svc.ready
  /\ calls' = [calls EXCEPT ![c] =
       [IdleCall EXCEPT !.step = "waiting", !.op = op, !.key = keys, !.duration = duration,
                        !.instance = svc.instance]]
  /\ UNCHANGED <<wall, svc, memory, primary, backup, spent, granted, denied>>

(* Deviation: the lock is not taken.                                        *)
NeverLocked(i) == FALSE

Locked(i) == \E c \in Caller : calls[c].instance = i /\ calls[c].step \in {"backup", "primary"}

(* Deviation: a revocation of what memory does not hold is not stored.      *)
AcquireUnlessAbsent(c) ==
  LET call  == calls[c]
      clean == Prune(memory[call.instance])
      absent == call.op = "revoke" /\ call.key \cap Present(clean) = {}
  IN  /\ call.step = "waiting" /\ ~Locked(call.instance)
      /\ IF Rejected(clean, call.op, call.key) \/ absent
         THEN /\ calls' = [calls EXCEPT ![c] = Done]
              /\ denied' = IF call.op = "revoke" THEN denied \cup call.key ELSE denied
              /\ UNCHANGED granted
         ELSE /\ calls' = [calls EXCEPT ![c].step = "backup", ![c].previous = clean,
                  ![c].candidate = Mutation(clean, call.op, call.key, call.duration)]
              /\ granted' = [k \in Key |-> IF k \in call.key THEN 0 ELSE granted[k]]
              /\ denied' = IF call.op = "revoke" THEN denied ELSE denied \ call.key
      /\ UNCHANGED <<wall, svc, memory, primary, backup, spent>>

(* Under the lock the mutation is computed; storage_ready is not asked for  *)
(* again.                                                                   *)
Acquire(c) ==
  LET call  == calls[c]
      clean == Prune(memory[call.instance])
  IN  /\ call.step = "waiting" /\ ~Locked(call.instance)
      /\ IF Rejected(clean, call.op, call.key)
         THEN calls' = [calls EXCEPT ![c] = Done] /\ UNCHANGED <<granted, denied>>
         ELSE /\ calls' = [calls EXCEPT ![c].step = "backup", ![c].previous = clean,
                  ![c].candidate = Mutation(clean, call.op, call.key, call.duration)]
              /\ granted' = [k \in Key |-> IF k \in call.key THEN 0 ELSE granted[k]]
              /\ denied' = IF call.op = "revoke" THEN denied ELSE denied \ call.key
      /\ UNCHANGED <<wall, svc, memory, primary, backup, spent>>

(* A put that raises: the caller is told so, and memory stays as it was.    *)
PutBackup(c) ==
  /\ calls[c].step = "backup"
  /\ \E put \in PutResults(backup, calls[c].previous, CanSpend("fault")) :
       /\ backup' = put.slot
       /\ IF put.verdict = "ok"
          THEN calls' = [calls EXCEPT ![c].step = "primary"] /\ UNCHANGED spent
          ELSE calls' = [calls EXCEPT ![c] = Done] /\ Spend("fault")
  /\ UNCHANGED <<wall, svc, memory, primary, granted, denied>>

(* The mutation is in force and the caller is told "ok".                    *)
PutPrimary(c) ==
  LET call == calls[c]
  IN  /\ call.step = "primary"
      /\ calls' = [calls EXCEPT ![c] = Done]
      /\ \E put \in PutResults(primary, call.candidate, CanSpend("fault")) :
           /\ primary' = put.slot
           /\ IF put.verdict = "ok"
              THEN /\ memory' = [memory EXCEPT ![call.instance] = call.candidate]
                   /\ granted' = IF call.op = "revoke" THEN granted
                                 ELSE [k \in Key |-> IF k \in call.key THEN call.candidate[k]
                                                     ELSE granted[k]]
                   /\ denied' = IF call.op = "revoke" THEN denied \cup call.key ELSE denied
                   /\ UNCHANGED spent
              ELSE Spend("fault") /\ UNCHANGED <<memory, granted, denied>>
      /\ UNCHANGED <<wall, svc, backup>>
----------------------------------------------------------------------------
(* initialize, terminate, and the death of the process.                     *)

UnderWay == {c \in Caller : calls[c].step \notin {"idle", "done"}}

(* initialize stores nothing.  With a slot that cannot be read it takes the *)
(* other, or stays without storage; one that starts from the backup slot    *)
(* undoes the last mutation.                                                *)
Initialize ==
  /\ ~svc.ready
  /\ CanSpend("boot")
  /\ Drained => UnderWay = {}
  /\ \E readable \in SUBSET {"primary", "backup"} :
       LET document == Select(primary, backup, readable, NoDocument)
           intact   == readable = {"primary", "backup"}
           fresh    == intact /\ document = NoDocument
           instance == svc.instance + 1
       IN  /\ intact \/ CanSpend("fault")
           /\ spent' = [spent EXCEPT !["boot"] = @ + 1,
                                     !["fault"] = IF intact THEN @ ELSE @ + 1]
           /\ svc' = [instance |-> instance, ready |-> fresh \/ document # NoDocument]
           /\ memory' = IF document = NoDocument THEN memory
                        ELSE [memory EXCEPT ![instance] = Prune(document)]
           /\ IF "primary" \in readable
              THEN UNCHANGED <<granted, denied>>
              ELSE /\ granted' = Empty
                   /\ denied' = {}
  /\ UNCHANGED <<wall, calls, primary, backup>>

Terminate ==
  /\ svc.ready
  /\ svc' = [svc EXCEPT !.ready = FALSE]
  /\ UNCHANGED <<wall, memory, calls, primary, backup, spent, granted, denied>>

Crash ==
  /\ svc.instance > 0
  /\ CanSpend("crash") /\ Spend("crash")
  /\ svc' = [svc EXCEPT !.ready = FALSE]
  /\ calls' = [c \in Caller |-> IF c \in UnderWay THEN Done ELSE calls[c]]
  /\ UNCHANGED <<wall, memory, primary, backup, granted, denied>>

Next ==
  \/ Tick \/ Initialize \/ Terminate \/ Crash
  \/ \E c \in Caller :
       \/ Acquire(c) \/ PutBackup(c) \/ PutPrimary(c)
       \/ \E s \in Scope, operators \in SUBSET Operator \ {{}}, d \in Durations :
            \/ \E op \in {"grant", "renew"} : Manage(c, op, {s} \X operators, d)
            \/ Manage(c, "revoke", {s} \X operators, 0)

Spec == Init /\ [][Next]_vars
----------------------------------------------------------------------------
(* Every variable has its type, and of one instance one mutation stores.    *)
TypeOK ==
  /\ wall \in 0 .. MaxTime
  /\ svc \in [instance: 0 .. Bound.boot, ready: BOOLEAN]
  /\ memory \in [Instance -> Document]
  /\ calls \in [Caller -> CallRecord]
  /\ \A c, d \in Caller :
       /\ {calls[c].step, calls[d].step} \subseteq {"backup", "primary"}
       /\ calls[c].instance = calls[d].instance
       => c = d
  /\ {primary, backup} \subseteq Document \cup {NoDocument}
  /\ spent \in [BoundNames -> Nat]
  /\ granted \in Document
  /\ denied \subseteq Key

(* A revocation that was acknowledged holds: the operator is not authorised *)
(* again before a new grant begins, whatever failed before or fails after,  *)
(* across crashes and restarts, unless a boot could not read the primary    *)
(* slot.                                                                    *)
RevokedMeansDenied == 
  \A k \in denied : ~Authorized(k, FALSE, FALSE, FALSE)

(* A grant that was acknowledged is served until it expires, is replaced or *)
(* revoked, or a boot could not read the primary slot.                      *)
GrantIsServed == svc.ready => \A k \in Key : granted[k] > wall => HasOperator(k)
=============================================================================

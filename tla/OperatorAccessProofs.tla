------------------------- MODULE OperatorAccessProofs -------------------------
(***************************************************************************)
(* What TLAPS proves of OperatorAccess for any number of sessions,          *)
(* operators and calls of manage, of faults, boots and crashes: the types   *)
(* and the lock, and, when the host loads a new instance only after the     *)
(* calls of the old one have ended, that an acknowledged revocation and an  *)
(* acknowledged grant hold.                                                 *)
(***************************************************************************)
EXTENDS OperatorAccess, TLAPS

(* A call belongs to an instance that was loaded, and an instance that was  *)
(* not has an empty memory.                                                 *)
InstancesInv ==
  /\ svc.instance = spent["boot"]
  /\ svc.ready => svc.instance # 0
  /\ \A c \in UnderWay : calls[c].instance \in 1 .. svc.instance
  /\ \A i \in Instance : i > svc.instance => memory[i] = Empty

Inv == TypeOK /\ InstancesInv

Stores(c) == calls[c].step \in {"backup", "primary"}

(* Nothing that is in force or may come into force grants what was revoked. *)
DeniedInv ==
  \A k \in denied :
    /\ svc.instance # 0 => memory[svc.instance][k] <= wall
    /\ primary \in Document /\ primary[k] <= wall
    /\ \A c \in Caller : Stores(c) => calls[c].candidate[k] <= wall

(* What was granted is in memory, in the primary slot, and in what a        *)
(* mutation is about to store.                                              *)
GrantedInv ==
  \A k \in Key : granted[k] > wall =>
    /\ svc.ready \/ UnderWay # {} => memory[svc.instance][k] = granted[k]
    /\ primary \in Document /\ primary[k] = granted[k]
    /\ \A c \in Caller : Stores(c) => calls[c].candidate[k] = granted[k] /\ k \notin calls[c].key

(* What a revocation is about to store grants none of its operators.        *)
RevocationInv ==
  \A c \in Caller : Stores(c) /\ calls[c].op = "revoke" =>
    \A k \in calls[c].key : calls[c].candidate[k] <= wall

(* The calls under way are of the instance the host runs, or ran last.      *)
DrainedInv ==
  /\ Inv
  /\ \A c \in UnderWay : calls[c].instance = svc.instance
  /\ RevocationInv
  /\ DeniedInv
  /\ GrantedInv
----------------------------------------------------------------------------
(* The operators of the model.                                              *)

(* Pruning keeps what is alive, and nothing else.                           *)
LEMMA PruneType ==
  ASSUME NEW state \in Document, wall \in Nat
  PROVE  /\ Prune(state) \in Document
         /\ \A k \in Key : Prune(state)[k] > wall <=> state[k] > wall
         /\ \A k \in Key : Prune(state)[k] > wall => Prune(state)[k] = state[k]
BY DEF Prune, Document

(* The records of an idle and of a finished call are calls.                 *)
LEMMA EmptyType == Empty \in Document /\ IdleCall \in CallRecord /\ Done \in CallRecord
<1>1. Empty \in Document
  BY DEF Empty, Document
<1>2. IdleCall \in CallRecord
  BY <1>1 DEF IdleCall, CallRecord, Operation
<1> QED
  BY <1>1, <1>2 DEF Done, CallRecord

(* A mutation leaves the grants it does not name.                           *)
LEMMA MutationType ==
  ASSUME NEW clean \in Document, wall \in Nat, NEW op \in Operation, NEW keys \in SUBSET Key,
         NEW duration \in Nat
  PROVE  /\ Mutation(clean, op, keys, duration) \in Document
         /\ \A k \in Key \ keys : Mutation(clean, op, keys, duration)[k] = clean[k]
         /\ op = "revoke" => \A k \in keys : Mutation(clean, op, keys, duration)[k] = 0
BY DEF Mutation, Document

(* A put stores the new document or leaves the old one, and raises only     *)
(* within the bound.                                                        *)
LEMMA PutResultsAre ==
  ASSUME NEW old, NEW new, NEW mayFail \in BOOLEAN, NEW put \in PutResults(old, new, mayFail)
  PROVE  /\ put.slot \in {old, new}
         /\ put.verdict = "ok" => put.slot = new
         /\ put.verdict # "ok" => mayFail
<1>1. \/ put = [slot |-> new, verdict |-> "ok"]
      \/ mayFail /\ \E s \in {old, new} : put = [slot |-> s, verdict |-> "unknown"]
      \/ mayFail /\ put = [slot |-> old, verdict |-> "failed"]
  BY DEF PutResults
<1>2. CASE put = [slot |-> new, verdict |-> "ok"]
  BY <1>2
<1>3. ASSUME mayFail, NEW s \in {old, new}, put = [slot |-> s, verdict |-> "unknown"]
      PROVE  put.slot \in {old, new} /\ put.verdict = "unknown"
  BY <1>3
<1>4. CASE mayFail /\ put = [slot |-> old, verdict |-> "failed"]
  BY <1>4
<1> QED
  BY <1>1, <1>2, <1>3, <1>4
----------------------------------------------------------------------------
(* Types, and the lock.                                                     *)

(* The bounded events stay natural numbers.                                 *)
LEMMA SpendType ==
  ASSUME Inv, NEW n \in {"fault", "crash"}, Spend(n)
  PROVE  spent' \in [BoundNames -> Nat] /\ spent'["boot"] = spent["boot"]
BY DEF Inv, TypeOK, Spend, BoundNames

(* One call of one instance is all that changes.                            *)
LEMMA CallTypes ==
  ASSUME Inv, NEW c \in Caller, Acquire(c) \/ PutBackup(c) \/ PutPrimary(c)
  PROVE  Inv'
<1>0. /\ calls \in [Caller -> CallRecord] /\ calls[c] \in CallRecord /\ Done \in CallRecord
      /\ wall \in Nat /\ Empty \in Document
  BY EmptyType, AccessAssumption DEF Inv, TypeOK
<1>1. calls[c].instance \in Instance /\ memory[calls[c].instance] \in Document /\ c \in UnderWay
      /\ calls[c].instance <= svc.instance
  BY AccessAssumption DEF Inv, InstancesInv, TypeOK, Acquire, PutBackup, PutPrimary, UnderWay,
                          Instance, BoundNames
<1> DEFINE clean == Prune(memory[calls[c].instance])
           candidate == Mutation(clean, calls[c].op, calls[c].key, calls[c].duration)
<1>2. clean \in Document /\ candidate \in Document
  <2>1. clean \in Document
    BY <1>0, <1>1, PruneType
  <2>2. calls[c].op \in Operation /\ calls[c].key \in SUBSET Key /\ calls[c].duration \in Nat
    BY <1>0 DEF CallRecord
  <2> QED
    BY <1>0, <2>1, <2>2, MutationType
<1>3. /\ calls' \in [Caller -> CallRecord]
      /\ \A d \in Caller \ {c} : calls'[d] = calls[d]
      /\ \/ calls'[c] = Done
         \/ calls'[c].instance = calls[c].instance /\ Stores(c)
         \/ calls'[c].instance = calls[c].instance /\ ~Locked(calls[c].instance)
  <2>1. CASE calls' = [calls EXCEPT ![c] = Done]
    BY <1>0, <2>1
  <2>2. CASE Acquire(c) /\ calls' # [calls EXCEPT ![c] = Done]
    <3>1. calls' = [calls EXCEPT ![c].step = "backup", ![c].previous = clean,
                                 ![c].candidate = candidate]
          /\ ~Locked(calls[c].instance)
      BY <2>2 DEF Acquire
    <3>2. [calls[c] EXCEPT !.step = "backup", !.previous = clean, !.candidate = candidate]
            \in CallRecord
      BY <1>0, <1>2 DEF CallRecord
    <3> QED
      BY <1>0, <3>1, <3>2 DEF CallRecord
  <2>3. CASE PutBackup(c) /\ calls' # [calls EXCEPT ![c] = Done]
    <3>1. calls' = [calls EXCEPT ![c].step = "primary"] /\ Stores(c)
      BY <2>3 DEF PutBackup, Stores
    <3> QED
      BY <1>0, <3>1 DEF CallRecord
  <2> QED
    BY <2>1, <2>2, <2>3 DEF PutPrimary
<1>4. /\ \A d \in Caller \ {c} : Stores(d)' <=> Stores(d)
      /\ calls'[c] = Done => ~Stores(c)'
  BY <1>3 DEF Stores, Done, IdleCall
<1>5. ASSUME NEW d \in Caller, NEW e \in Caller, Stores(d)', Stores(e)',
             calls'[d].instance = calls'[e].instance
      PROVE  d = e
  <2>1. ASSUME NEW f \in Caller, NEW g \in Caller, Stores(f), Stores(g),
               calls[f].instance = calls[g].instance
        PROVE  f = g
    BY <2>1 DEF Inv, TypeOK, Stores
  <2>2. ASSUME NEW f \in Caller \ {c}, Stores(f), calls[f].instance = calls[c].instance
        PROVE  Locked(calls[c].instance)
    BY <2>2 DEF Locked, Stores
  <2> QED
    BY <1>3, <1>4, <1>5, <2>1, <2>2
<1>6. /\ svc' = svc /\ wall' = wall
      /\ memory' \in [Instance -> Document]
      /\ \A i \in Instance : i > svc.instance => memory'[i] = memory[i]
  BY <1>0, <1>1 DEF Acquire, PutBackup, PutPrimary, CallRecord, Inv, TypeOK
<1>7. {primary', backup'} \subseteq Document \cup {NoDocument}
  <2>1. calls[c].previous \in Document /\ calls[c].candidate \in Document
        /\ CanSpend("fault") \in BOOLEAN
    BY <1>0 DEF CallRecord, CanSpend
  <2>2. CASE Acquire(c)
    BY <2>2 DEF Acquire, Inv, TypeOK
  <2>3. CASE PutBackup(c)
    <3>1. PICK put \in PutResults(backup, calls[c].previous, CanSpend("fault")) : backup' = put.slot
      BY <2>3 DEF PutBackup
    <3>2. put.slot \in {backup, calls[c].previous}
      BY <2>1, PutResultsAre
    <3> QED
      BY <2>1, <2>3, <3>1, <3>2 DEF PutBackup, Inv, TypeOK
  <2>4. CASE PutPrimary(c)
    <3>1. PICK put \in PutResults(primary, calls[c].candidate, CanSpend("fault")) :
            primary' = put.slot
      BY <2>4 DEF PutPrimary
    <3>2. put.slot \in {primary, calls[c].candidate}
      BY <2>1, PutResultsAre
    <3> QED
      BY <2>1, <2>4, <3>1, <3>2 DEF PutPrimary, Inv, TypeOK
  <2> QED
    BY <2>2, <2>3, <2>4
<1>8. spent' \in [BoundNames -> Nat] /\ spent'["boot"] = spent["boot"]
  <2>1. spent' = spent \/ Spend("fault")
    BY DEF Acquire, PutBackup, PutPrimary
  <2> QED
    BY <2>1, SpendType DEF Inv, TypeOK
<1>9. granted' \in Document /\ denied' \subseteq Key
  <2>1. granted \in Document /\ denied \subseteq Key /\ calls[c].key \subseteq Key
        /\ calls[c].candidate \in Document
    BY <1>0 DEF Inv, TypeOK, CallRecord
  <2>2. \/ granted' = granted
        \/ granted' = [k \in Key |-> IF k \in calls[c].key THEN 0 ELSE granted[k]]
        \/ granted' = [k \in Key |-> IF k \in calls[c].key THEN calls[c].candidate[k]
                                    ELSE granted[k]]
    BY DEF Acquire, PutBackup, PutPrimary
  <2>3. denied' \subseteq denied \cup calls[c].key
    BY DEF Acquire, PutBackup, PutPrimary
  <2> QED
    BY <2>1, <2>2, <2>3 DEF Document
<1>10. TypeOK'
  BY <1>3, <1>5, <1>6, <1>7, <1>8, <1>9 DEF Inv, TypeOK, Stores
<1>11. InstancesInv'
  <2>1. ASSUME NEW d \in UnderWay' PROVE calls'[d].instance \in 1 .. svc'.instance
    <3>1. CASE d = c
      BY <1>1, <1>3, <1>6, <2>1, <3>1 DEF UnderWay, Inv, InstancesInv, Done, IdleCall
    <3>2. CASE d # c
      BY <1>3, <1>6, <2>1, <3>2 DEF UnderWay, Inv, InstancesInv
    <3> QED
      BY <3>1, <3>2
  <2> QED
    BY <1>6, <1>8, <2>1 DEF Inv, InstancesInv
<1> QED
  BY <1>10, <1>11 DEF Inv

(* The slot an instance starts from.                                        *)
LEMMA SelectIs ==
  ASSUME Inv, NEW readable
  PROVE  /\ Select(primary, backup, readable, NoDocument) \in Document \cup {NoDocument}
         /\ "primary" \in readable /\ primary # NoDocument
              => Select(primary, backup, readable, NoDocument) = primary
BY DEF Select, Inv, TypeOK

(* initialize loads a new instance; all the others are left alone.          *)
LEMMA InitializeIs ==
  ASSUME Inv, Initialize
  PROVE  /\ UNCHANGED <<wall, calls, primary, backup>>
         /\ svc'.instance = svc.instance + 1 /\ svc'.instance \in Instance
         /\ svc' \in [instance: 0 .. Bound.boot, ready: BOOLEAN]
         /\ spent' \in [BoundNames -> Nat] /\ spent'["boot"] = spent["boot"] + 1
         /\ \A i \in Instance : i # svc'.instance => memory'[i] = memory[i]
         /\ memory' \in [Instance -> Document]
         /\ \/ granted' = Empty /\ denied' = {}
            \/ /\ UNCHANGED <<granted, denied>>
               /\ primary \in Document => memory'[svc'.instance] = Prune(primary)
<1>1. PICK readable \in SUBSET {"primary", "backup"} :
       LET document == Select(primary, backup, readable, NoDocument)
           intact   == readable = {"primary", "backup"}
           fresh    == intact /\ document = NoDocument
           instance == svc.instance + 1
       IN  /\ intact \/ CanSpend("fault")
           /\ spent' = [spent EXCEPT !["boot"] = @ + 1,
                                     !["fault"] = IF intact THEN @ ELSE @ + 1]
           /\ svc' = [instance |-> instance, ready |-> fresh \/ document # NoDocument]
           /\ memory' = IF document = NoDocument THEN memory
                        ELSE [memory EXCEPT ![instance] = Prune(document)]
           /\ IF "primary" \in readable
              THEN UNCHANGED <<granted, denied>>
              ELSE granted' = Empty /\ denied' = {}
  BY DEF Initialize
<1> DEFINE document == Select(primary, backup, readable, NoDocument)
<1>2. /\ document \in Document \cup {NoDocument}
      /\ "primary" \in readable /\ primary # NoDocument => document = primary
  BY SelectIs
<1>3. svc.instance \in Nat /\ svc.instance + 1 \in 1 .. Bound["boot"]
  BY AccessAssumption DEF Inv, TypeOK, InstancesInv, Initialize, CanSpend, BoundNames
<1>4. svc.instance + 1 \in Instance
  BY <1>3 DEF Instance
<1>5. /\ svc'.instance = svc.instance + 1
      /\ svc' \in [instance: 0 .. Bound.boot, ready: BOOLEAN]
  <2>1. PICK ready \in BOOLEAN : svc' = [instance |-> svc.instance + 1, ready |-> ready]
    BY <1>1
  <2>2. svc.instance + 1 \in 0 .. Bound.boot
    BY <1>3
  <2> QED
    BY <2>1, <2>2
<1>6. spent' \in [BoundNames -> Nat] /\ spent'["boot"] = spent["boot"] + 1
  BY <1>1 DEF Inv, TypeOK, BoundNames
<1>7. /\ memory' \in [Instance -> Document]
      /\ \A i \in Instance : i # svc.instance + 1 => memory'[i] = memory[i]
      /\ document # NoDocument => memory'[svc.instance + 1] = Prune(document)
  <2>1. document # NoDocument => Prune(document) \in Document
    BY <1>2, PruneType, AccessAssumption DEF Inv, TypeOK
  <2>2. memory' = IF document = NoDocument THEN memory
                  ELSE [memory EXCEPT ![svc.instance + 1] = Prune(document)]
    BY <1>1
  <2> HIDE DEF document
  <2> QED
    BY <1>4, <2>1, <2>2 DEF Inv, TypeOK
<1>8. \/ granted' = Empty /\ denied' = {}
      \/ /\ UNCHANGED <<granted, denied>>
         /\ primary \in Document => memory'[svc'.instance] = Prune(primary)
  <2>1. \/ granted' = Empty /\ denied' = {}
        \/ UNCHANGED <<granted, denied>> /\ "primary" \in readable
    BY <1>1
  <2>2. primary \in Document => primary # NoDocument
    BY AccessAssumption
  <2> QED
    BY <1>2, <1>5, <1>7, <2>1, <2>2
<1> QED
  BY <1>4, <1>5, <1>6, <1>7, <1>8 DEF Initialize

(* A call that manage admits belongs to the instance that runs.             *)
LEMMA ManageIs ==
  ASSUME Inv, NEW c \in Caller, NEW s \in Scope, NEW operators \in SUBSET Operator,
         NEW op \in {"grant", "renew", "revoke"}, NEW duration \in Nat,
         Manage(c, op, {s} \X operators, duration)
  PROVE  /\ calls' \in [Caller -> CallRecord]
         /\ \A d \in Caller \ {c} : calls'[d] = calls[d]
         /\ calls'[c].step = "waiting" /\ calls'[c].instance = svc.instance
         /\ svc.ready /\ ~Stores(c)
         /\ UNCHANGED <<wall, svc, memory, primary, backup, spent, granted, denied>>
<1> DEFINE new == [IdleCall EXCEPT !.step = "waiting", !.op = op, !.key = {s} \X operators,
                                   !.duration = duration, !.instance = svc.instance]
<1>1. {s} \X operators \subseteq Key /\ svc.instance \in Nat
  BY AccessAssumption DEF Key, Inv, TypeOK, BoundNames
<1>2. new \in CallRecord /\ new.step = "waiting" /\ new.instance = svc.instance
  BY <1>1, EmptyType DEF IdleCall, CallRecord, Operation
<1>3. calls' = [calls EXCEPT ![c] = new]
  BY DEF Manage
<1> HIDE DEF new
<1> QED
  BY <1>2, <1>3 DEF Manage, Inv, TypeOK, Stores

(* What the steps of the host and of the clock do to the calls.             *)
LEMMA HostSteps ==
  ASSUME Inv, Tick \/ Terminate \/ Crash
  PROVE  /\ UNCHANGED <<memory, primary, backup, granted, denied>>
         /\ wall' \in 0 .. MaxTime /\ wall' >= wall
         /\ svc'.instance = svc.instance /\ (svc'.ready => svc.ready)
         /\ svc' \in [instance: 0 .. Bound.boot, ready: BOOLEAN]
         /\ spent' \in [BoundNames -> Nat] /\ spent'["boot"] = spent["boot"]
         /\ calls' \in [Caller -> CallRecord]
         /\ \A c \in Caller : calls'[c] = calls[c] \/ calls'[c] = Done
         /\ UnderWay' \subseteq UnderWay
<1>1. CASE Tick
  BY <1>1, AccessAssumption DEF Tick, Inv, TypeOK, UnderWay
<1>2. ASSUME svc' = [svc EXCEPT !.ready = FALSE]
      PROVE  /\ svc'.instance = svc.instance /\ svc'.ready = FALSE
             /\ svc' \in [instance: 0 .. Bound.boot, ready: BOOLEAN]
  BY <1>2 DEF Inv, TypeOK
<1>3. CASE Terminate
  <2>1. svc' = [svc EXCEPT !.ready = FALSE]
    BY <1>3 DEF Terminate
  <2>2. /\ svc'.instance = svc.instance /\ svc'.ready = FALSE
        /\ svc' \in [instance: 0 .. Bound.boot, ready: BOOLEAN]
    BY <1>2, <2>1
  <2> QED
    BY <1>3, <2>2, AccessAssumption DEF Terminate, Inv, TypeOK, UnderWay
<1>4. CASE Crash
  <2>1. svc' = [svc EXCEPT !.ready = FALSE]
    BY <1>4 DEF Crash
  <2>2. /\ svc'.instance = svc.instance /\ svc'.ready = FALSE
        /\ svc' \in [instance: 0 .. Bound.boot, ready: BOOLEAN]
    BY <1>2, <2>1
  <2>3. spent' \in [BoundNames -> Nat] /\ spent'["boot"] = spent["boot"]
    BY <1>4, SpendType DEF Crash
  <2>4. /\ calls' \in [Caller -> CallRecord]
        /\ \A c \in Caller : calls'[c] = IF c \in UnderWay THEN Done ELSE calls[c]
    BY <1>4, EmptyType DEF Crash, Inv, TypeOK
  <2>5. UnderWay' \subseteq UnderWay
    BY <2>4 DEF UnderWay, Done, IdleCall
  <2>6. /\ UNCHANGED <<memory, primary, backup, granted, denied, wall>>
        /\ wall \in 0 .. MaxTime /\ wall >= wall
    BY <1>4, AccessAssumption DEF Crash, Inv, TypeOK
  <2> QED
    BY <2>2, <2>3, <2>4, <2>5, <2>6
<1> QED
  BY <1>1, <1>3, <1>4

(* Every step keeps the invariant.                                          *)
LEMMA NextInv == Inv /\ [Next]_vars => Inv'
<1> SUFFICES ASSUME Inv, [Next]_vars PROVE Inv'
  OBVIOUS
<1>1. CASE UNCHANGED vars
  BY <1>1 DEF vars, Inv, TypeOK, InstancesInv, UnderWay
<1>2. ASSUME NEW c \in Caller, Acquire(c) \/ PutBackup(c) \/ PutPrimary(c) PROVE Inv'
  BY <1>2, CallTypes
<1>3. ASSUME NEW c \in Caller, NEW s \in Scope, NEW operators \in SUBSET Operator,
             NEW op \in {"grant", "renew", "revoke"}, NEW duration \in Nat,
             Manage(c, op, {s} \X operators, duration)
      PROVE  Inv'
  <2>1. /\ calls' \in [Caller -> CallRecord]
        /\ \A d \in Caller \ {c} : calls'[d] = calls[d]
        /\ calls'[c].step = "waiting" /\ calls'[c].instance = svc.instance
        /\ svc.ready
        /\ UNCHANGED <<wall, svc, memory, primary, backup, spent, granted, denied>>
    BY <1>3, ManageIs
  <2>2. svc.instance \in 1 .. svc.instance
    BY <2>1, AccessAssumption DEF Inv, TypeOK, InstancesInv, BoundNames
  <2>3. ASSUME NEW d \in Caller, NEW e \in Caller,
               {calls'[d].step, calls'[e].step} \subseteq {"backup", "primary"},
               calls'[d].instance = calls'[e].instance
        PROVE  d = e
    <3>1. d # c /\ e # c
      BY <2>1, <2>3
    <3> QED
      BY <2>1, <2>3, <3>1 DEF Inv, TypeOK
  <2>4. TypeOK'
    BY <2>1, <2>3 DEF Inv, TypeOK
  <2>5. ASSUME NEW d \in UnderWay' PROVE calls'[d].instance \in 1 .. svc'.instance
    <3>1. CASE d = c
      BY <2>1, <2>2, <3>1
    <3>2. CASE d # c
      BY <2>1, <2>5, <3>2 DEF UnderWay, Inv, InstancesInv
    <3> QED
      BY <3>1, <3>2
  <2> QED
    BY <2>1, <2>4, <2>5 DEF Inv, InstancesInv
<1>4. CASE Initialize
  <2>1. /\ UNCHANGED <<wall, calls, primary, backup>>
        /\ svc'.instance = svc.instance + 1 /\ svc'.instance \in Instance
        /\ svc' \in [instance: 0 .. Bound.boot, ready: BOOLEAN]
        /\ spent' \in [BoundNames -> Nat] /\ spent'["boot"] = spent["boot"] + 1
        /\ \A i \in Instance : i # svc'.instance => memory'[i] = memory[i]
        /\ memory' \in [Instance -> Document]
        /\ \/ granted' = Empty /\ denied' = {}
           \/ UNCHANGED <<granted, denied>>
    BY <1>4, InitializeIs
  <2>2. svc.instance \in Nat
    BY AccessAssumption DEF Inv, TypeOK, BoundNames
  <2>3. TypeOK'
    BY <2>1, EmptyType DEF Inv, TypeOK
  <2>4. \A d \in UnderWay' : calls'[d].instance \in 1 .. svc'.instance
    BY <2>1, <2>2 DEF UnderWay, Inv, InstancesInv
  <2>5. \A i \in Instance : i > svc'.instance => memory'[i] = Empty
    BY <2>1, <2>2 DEF Inv, InstancesInv, Instance
  <2> QED
    BY <2>1, <2>2, <2>3, <2>4, <2>5 DEF Inv, InstancesInv
<1>5. CASE Tick \/ Terminate \/ Crash
  <2>1. /\ UNCHANGED <<memory, primary, backup, granted, denied>>
        /\ wall' \in 0 .. MaxTime
        /\ svc'.instance = svc.instance /\ (svc'.ready => svc.ready)
        /\ svc' \in [instance: 0 .. Bound.boot, ready: BOOLEAN]
        /\ spent' \in [BoundNames -> Nat] /\ spent'["boot"] = spent["boot"]
        /\ calls' \in [Caller -> CallRecord]
        /\ \A c \in Caller : calls'[c] = calls[c] \/ calls'[c] = Done
        /\ UnderWay' \subseteq UnderWay
    BY <1>5, HostSteps
  <2>2. ASSUME NEW d \in Caller, calls'[d].step \in {"backup", "primary"}
        PROVE  calls'[d] = calls[d]
    BY <2>1, <2>2 DEF Done, IdleCall
  <2>3. ASSUME NEW d \in Caller, NEW e \in Caller,
               {calls'[d].step, calls'[e].step} \subseteq {"backup", "primary"},
               calls'[d].instance = calls'[e].instance
        PROVE  d = e
    BY <2>2, <2>3 DEF Inv, TypeOK
  <2>4. TypeOK'
    BY <2>1, <2>3 DEF Inv, TypeOK
  <2>5. ASSUME NEW d \in UnderWay' PROVE calls'[d].instance \in 1 .. svc'.instance
    <3>1. d \in UnderWay /\ calls'[d] = calls[d]
      BY <2>1, <2>5 DEF UnderWay, Done, IdleCall
    <3> QED
      BY <2>1, <3>1 DEF Inv, InstancesInv
  <2> QED
    BY <2>1, <2>4, <2>5 DEF Inv, InstancesInv
<1> QED
  <2>1. Durations \subseteq Nat /\ 0 \in Nat
    BY AccessAssumption
  <2>2. ASSUME NEW c \in Caller, NEW s \in Scope, NEW operators \in SUBSET Operator,
               NEW d \in Durations,
               \/ \E op \in {"grant", "renew"} : Manage(c, op, {s} \X operators, d)
               \/ Manage(c, "revoke", {s} \X operators, 0)
        PROVE  Inv'
    <3>1. CASE Manage(c, "grant", {s} \X operators, d)
      BY <1>3, <2>1, <3>1
    <3>2. CASE Manage(c, "renew", {s} \X operators, d)
      BY <1>3, <2>1, <3>2
    <3>3. CASE Manage(c, "revoke", {s} \X operators, 0)
      BY <1>3, <2>1, <3>3
    <3> QED
      BY <2>2, <3>1, <3>2, <3>3
  <2> QED
    BY <1>1, <1>2, <1>4, <1>5, <2>2 DEF Next

(* The invariant holds at the start.                                        *)
LEMMA InitInv == Init => Inv
<1> SUFFICES ASSUME Init PROVE Inv
  OBVIOUS
<1>1. TypeOK
  BY EmptyType, AccessAssumption DEF Init, TypeOK, BoundNames, IdleCall
<1>2. InstancesInv
  BY DEF Init, InstancesInv, UnderWay, IdleCall, BoundNames
<1> QED
  BY <1>1, <1>2 DEF Inv
----------------------------------------------------------------------------
(* Receipts.                                                                *)

(* The calls of the instance that runs, one of which may store.             *)
LEMMA OneStores ==
  ASSUME DrainedInv, NEW c \in UnderWay
  PROVE  /\ calls[c].instance = svc.instance /\ svc.instance \in Instance /\ svc.instance # 0
         /\ memory[svc.instance] \in Document /\ calls[c] \in CallRecord /\ wall \in Nat
         /\ Stores(c) \/ ~Locked(svc.instance) => \A d \in Caller \ {c} : ~Stores(d)
<1>1. calls[c].instance = svc.instance /\ calls[c].instance \in 1 .. svc.instance
      /\ svc.instance \in 0 .. Bound.boot /\ Bound.boot \in Nat /\ c \in Caller
  BY AccessAssumption DEF DrainedInv, Inv, InstancesInv, TypeOK, BoundNames, UnderWay
<1>2. svc.instance \in Instance /\ svc.instance # 0
  BY <1>1 DEF Instance
<1>3. ASSUME NEW d \in Caller \ {c}, Stores(d), Stores(c) \/ ~Locked(svc.instance) PROVE FALSE
  <2>1. calls[d].instance = svc.instance
    BY <1>3 DEF DrainedInv, UnderWay, Stores
  <2>2. CASE Stores(c)
    BY <1>1, <1>3, <2>1, <2>2 DEF DrainedInv, Inv, TypeOK, Stores
  <2>3. CASE ~Locked(svc.instance)
    BY <1>3, <2>1, <2>3 DEF Locked, Stores
  <2> QED
    BY <1>3, <2>2, <2>3
<1> QED
  BY <1>1, <1>2, <1>3, AccessAssumption DEF DrainedInv, Inv, TypeOK

(* The mutation is computed from memory: what was revoked stays out, what   *)
(* was granted to others stays in.                                          *)
LEMMA AcquireKeeps ==
  ASSUME DrainedInv, NEW c \in Caller, Acquire(c)
  PROVE  RevocationInv' /\ DeniedInv' /\ GrantedInv'
<1>0. c \in UnderWay
  BY DEF Acquire, UnderWay
<1>1. /\ calls[c].instance = svc.instance /\ svc.instance \in Instance /\ svc.instance # 0
      /\ memory[svc.instance] \in Document /\ calls[c] \in CallRecord /\ wall \in Nat
      /\ \A d \in Caller \ {c} : ~Stores(d)
  BY <1>0, OneStores DEF Acquire
<1>2. calls \in [Caller -> CallRecord] /\ granted \in Document /\ denied \subseteq Key
      /\ UNCHANGED <<wall, svc, memory, primary>>
  BY DEF DrainedInv, Inv, TypeOK, Acquire
<1>3. /\ \A d \in Caller \ {c} : calls'[d] = calls[d] /\ ~Stores(d)'
  BY <1>1, <1>2 DEF Acquire, Stores
<1> DEFINE clean == Prune(memory[svc.instance])
<1>4. CASE Rejected(clean, calls[c].op, calls[c].key)
  <2>1. calls'[c] = Done /\ UNCHANGED <<granted, denied>>
    BY <1>1, <1>2, <1>4 DEF Acquire
  <2>2. \A d \in Caller : ~Stores(d)'
    BY <1>3, <2>1 DEF Stores, Done, IdleCall
  <2> QED
    BY <1>0, <1>2, <2>1, <2>2 DEF DrainedInv, RevocationInv, DeniedInv, GrantedInv
<1>5. CASE ~Rejected(clean, calls[c].op, calls[c].key)
  <2>1. PICK candidate :
          /\ candidate = Mutation(clean, calls[c].op, calls[c].key, calls[c].duration)
          /\ calls' = [calls EXCEPT ![c].step = "backup", ![c].previous = clean,
                                    ![c].candidate = candidate]
          /\ granted' = [k \in Key |-> IF k \in calls[c].key THEN 0 ELSE granted[k]]
          /\ denied' = IF calls[c].op = "revoke" THEN denied ELSE denied \ calls[c].key
    BY <1>1, <1>5 DEF Acquire
  <2>2. /\ calls'[c].candidate = candidate /\ calls'[c].key = calls[c].key
        /\ calls'[c].op = calls[c].op
    BY <1>1, <1>2, <2>1 DEF CallRecord
  <2>3. /\ clean \in Document
        /\ \A k \in Key : clean[k] > wall <=> memory[svc.instance][k] > wall
        /\ \A k \in Key : clean[k] > wall => clean[k] = memory[svc.instance][k]
    BY <1>1, PruneType
  <2>4. /\ candidate \in Document
        /\ \A k \in Key \ calls[c].key : candidate[k] = clean[k]
        /\ calls[c].op = "revoke" => \A k \in calls[c].key : candidate[k] = 0
    <3>1. calls[c].op \in Operation /\ calls[c].key \in SUBSET Key /\ calls[c].duration \in Nat
      BY <1>1 DEF CallRecord
    <3>2. clean \in Document /\ wall \in Nat
      BY <1>1, <2>3
    <3> HIDE DEF clean
    <3> QED
      BY <2>1, <3>1, <3>2 DEF Mutation, Document
  <2> HIDE DEF clean
  <2>5. RevocationInv'
    BY <1>1, <1>2, <1>3, <2>2, <2>4 DEF RevocationInv
  <2>6. DeniedInv'
    <3>1. ASSUME NEW k \in denied' PROVE candidate[k] <= wall
      <4>1. k \in denied /\ k \in Key
        BY <1>2, <2>1, <3>1
      <4>2. CASE k \in calls[c].key
        BY <1>1, <2>1, <2>4, <3>1, <4>2
      <4>3. CASE k \notin calls[c].key
        <5>1. memory[svc.instance][k] <= wall /\ memory[svc.instance][k] \in Nat
              /\ clean[k] \in Nat
          BY <1>1, <2>3, <4>1 DEF DrainedInv, DeniedInv, Document
        <5>2. ~(clean[k] > wall)
          BY <1>1, <2>3, <4>1, <5>1
        <5> QED
          BY <1>1, <2>4, <4>1, <4>3, <5>1, <5>2
      <4> QED
        BY <4>2, <4>3
    <3>2. denied' \subseteq denied
      BY <2>1
    <3> QED
      BY <1>2, <1>3, <2>2, <3>1, <3>2 DEF DrainedInv, DeniedInv
  <2>7. GrantedInv'
    <3> SUFFICES ASSUME NEW k \in Key, granted'[k] > wall
                 PROVE  /\ memory[svc.instance][k] = granted'[k]
                        /\ primary \in Document /\ primary[k] = granted'[k]
                        /\ candidate[k] = granted'[k] /\ k \notin calls[c].key
      BY <1>2, <1>3, <2>2 DEF GrantedInv
    <3>1. k \notin calls[c].key /\ granted'[k] = granted[k]
      BY <1>1, <2>1
    <3>2. /\ memory[svc.instance][k] = granted[k]
          /\ primary \in Document /\ primary[k] = granted[k]
      BY <1>0, <3>1 DEF DrainedInv, GrantedInv
    <3> QED
      BY <2>3, <2>4, <3>1, <3>2
  <2> QED
    BY <2>5, <2>6, <2>7
<1> QED
  BY <1>4, <1>5

(* The put of the backup slot changes nothing that counts.                  *)
LEMMA PutBackupKeeps ==
  ASSUME DrainedInv, NEW c \in Caller, PutBackup(c)
  PROVE  RevocationInv' /\ DeniedInv' /\ GrantedInv'
<1>1. /\ calls \in [Caller -> CallRecord] /\ Stores(c) /\ c \in UnderWay
      /\ UNCHANGED <<wall, svc, memory, primary, granted, denied>>
  BY DEF DrainedInv, Inv, TypeOK, PutBackup, Stores, UnderWay
<1>2. /\ \A d \in Caller \ {c} : calls'[d] = calls[d]
      /\ \/ calls'[c] = Done
         \/ /\ calls'[c].candidate = calls[c].candidate /\ calls'[c].key = calls[c].key
            /\ calls'[c].op = calls[c].op
  BY <1>1 DEF PutBackup, CallRecord
<1>3. ASSUME NEW d \in Caller, Stores(d)'
      PROVE  /\ Stores(d) /\ calls'[d].candidate = calls[d].candidate
             /\ calls'[d].key = calls[d].key /\ calls'[d].op = calls[d].op
  <2>1. CASE d = c
    BY <1>1, <1>2, <1>3, <2>1 DEF Stores, Done, IdleCall
  <2>2. CASE d # c
    BY <1>2, <1>3, <2>2 DEF Stores
  <2> QED
    BY <2>1, <2>2
<1>4. RevocationInv'
  BY <1>1, <1>3 DEF DrainedInv, RevocationInv
<1>5. DeniedInv'
  BY <1>1, <1>3 DEF DrainedInv, DeniedInv
<1>6. GrantedInv'
  BY <1>1, <1>3 DEF DrainedInv, GrantedInv
<1> QED
  BY <1>4, <1>5, <1>6

(* The mutation comes into force, or the primary slot holds it and memory   *)
(* does not, or neither.                                                    *)
LEMMA PutPrimaryKeeps ==
  ASSUME DrainedInv, NEW c \in Caller, PutPrimary(c)
  PROVE  RevocationInv' /\ DeniedInv' /\ GrantedInv'
<1>0. c \in UnderWay /\ Stores(c)
  BY DEF PutPrimary, UnderWay, Stores
<1>1. /\ calls[c].instance = svc.instance /\ svc.instance \in Instance
      /\ memory[svc.instance] \in Document /\ calls[c] \in CallRecord /\ wall \in Nat
      /\ \A d \in Caller \ {c} : ~Stores(d)
  BY <1>0, OneStores
<1>2. /\ calls \in [Caller -> CallRecord] /\ memory \in [Instance -> Document]
      /\ denied \subseteq Key /\ UNCHANGED <<wall, svc>>
      /\ calls[c].candidate \in Document /\ calls[c].key \subseteq Key
  BY <1>1 DEF DrainedInv, Inv, TypeOK, PutPrimary, CallRecord
<1>3. \A d \in Caller : ~Stores(d)'
  <2>1. calls'[c] = Done /\ \A d \in Caller \ {c} : calls'[d] = calls[d]
    BY <1>2 DEF PutPrimary
  <2> QED
    BY <1>1, <2>1 DEF Stores, Done, IdleCall
<1>4. PICK put \in PutResults(primary, calls[c].candidate, CanSpend("fault")) :
        /\ primary' = put.slot
        /\ IF put.verdict = "ok"
           THEN /\ memory' = [memory EXCEPT ![calls[c].instance] = calls[c].candidate]
                /\ granted' = IF calls[c].op = "revoke" THEN granted
                              ELSE [k \in Key |-> IF k \in calls[c].key
                                                  THEN calls[c].candidate[k] ELSE granted[k]]
                /\ denied' = IF calls[c].op = "revoke" THEN denied \cup calls[c].key ELSE denied
                /\ UNCHANGED spent
           ELSE Spend("fault") /\ UNCHANGED <<memory, granted, denied>>
  BY DEF PutPrimary
<1>5. /\ put.slot \in {primary, calls[c].candidate}
      /\ put.verdict = "ok" => put.slot = calls[c].candidate
  <2>1. CanSpend("fault") \in BOOLEAN
    BY DEF CanSpend
  <2> QED
    BY <2>1, PutResultsAre
<1>6. \A k \in denied : /\ memory[svc.instance][k] <= wall
                        /\ primary \in Document /\ primary[k] <= wall
                        /\ calls[c].candidate[k] <= wall
  BY <1>0, <1>1, OneStores DEF DrainedInv, DeniedInv
<1>7. \A k \in Key : granted[k] > wall =>
        /\ memory[svc.instance][k] = granted[k]
        /\ primary \in Document /\ primary[k] = granted[k]
        /\ calls[c].candidate[k] = granted[k] /\ k \notin calls[c].key
  BY <1>0, <1>1 DEF DrainedInv, GrantedInv
<1>8. CASE put.verdict = "ok"
  <2>1. primary' = calls[c].candidate /\ memory'[svc.instance] = calls[c].candidate
    BY <1>1, <1>2, <1>4, <1>5, <1>8
  <2>2. \A k \in denied' : calls[c].candidate[k] <= wall
    BY <1>0, <1>4, <1>6, <1>8 DEF DrainedInv, RevocationInv
  <2>3. \A k \in Key : granted'[k] > wall => calls[c].candidate[k] = granted'[k]
    BY <1>4, <1>7, <1>8
  <2> QED
    BY <1>2, <1>3, <2>1, <2>2, <2>3 DEF RevocationInv, DeniedInv, GrantedInv
<1>9. CASE put.verdict # "ok"
  <2>1. /\ UNCHANGED <<memory, granted, denied>>
        /\ primary' \in {primary, calls[c].candidate}
    BY <1>4, <1>5, <1>9
  <2> QED
    BY <1>2, <1>3, <1>6, <1>7, <2>1 DEF RevocationInv, DeniedInv, GrantedInv
<1> QED
  BY <1>8, <1>9

(* Every step keeps what drained reloads add to the invariant.              *)
LEMMA NextDrainedInv == Drained /\ DrainedInv /\ [Next]_vars => DrainedInv'
<1> SUFFICES ASSUME Drained, DrainedInv, [Next]_vars PROVE DrainedInv'
  OBVIOUS
<1>0. /\ Inv' /\ wall \in Nat /\ calls \in [Caller -> CallRecord] /\ denied \subseteq Key
      /\ svc.instance \in Nat /\ memory \in [Instance -> Document] /\ granted \in Document
  BY NextInv, AccessAssumption DEF DrainedInv, Inv, TypeOK, BoundNames
<1>1. CASE UNCHANGED vars
  BY <1>0, <1>1 DEF vars, DrainedInv, RevocationInv, DeniedInv, GrantedInv, UnderWay, Stores
<1>2. ASSUME NEW c \in Caller, Acquire(c) \/ PutBackup(c) \/ PutPrimary(c) PROVE DrainedInv'
  <2>1. RevocationInv' /\ DeniedInv' /\ GrantedInv'
    BY <1>2, AcquireKeeps, PutBackupKeeps, PutPrimaryKeeps
  <2>2. ASSUME NEW d \in UnderWay' PROVE d \in UnderWay /\ calls'[d].instance = calls[d].instance
    <3>1. d = c => c \in UnderWay
      BY <1>2 DEF UnderWay, Acquire, PutBackup, PutPrimary
    <3>2. d # c => calls'[d] = calls[d]
      BY <1>0, <1>2, <2>2 DEF UnderWay, Acquire, PutBackup, PutPrimary
    <3>3. calls'[c] = Done \/ calls'[c].instance = calls[c].instance
      BY <1>0, <1>2 DEF Acquire, PutBackup, PutPrimary, CallRecord
    <3> QED
      BY <2>2, <3>1, <3>2, <3>3 DEF UnderWay, Done, IdleCall
  <2>3. svc' = svc
    BY <1>2 DEF Acquire, PutBackup, PutPrimary
  <2> QED
    BY <1>0, <2>1, <2>2, <2>3 DEF DrainedInv
<1>3. ASSUME NEW c \in Caller, NEW s \in Scope, NEW operators \in SUBSET Operator,
             NEW op \in {"grant", "renew", "revoke"}, NEW duration \in Nat,
             Manage(c, op, {s} \X operators, duration)
      PROVE  DrainedInv'
  <2>1. /\ \A d \in Caller \ {c} : calls'[d] = calls[d]
        /\ calls'[c].step = "waiting" /\ calls'[c].instance = svc.instance
        /\ svc.ready
        /\ UNCHANGED <<wall, svc, memory, primary, backup, spent, granted, denied>>
    BY <1>3, ManageIs DEF DrainedInv
  <2>2. ASSUME NEW d \in Caller, Stores(d)' PROVE Stores(d) /\ calls'[d] = calls[d]
    BY <2>1, <2>2 DEF Stores
  <2>3. \A d \in UnderWay' : calls'[d].instance = svc'.instance
    BY <2>1 DEF DrainedInv, UnderWay
  <2>4. RevocationInv' /\ DeniedInv' /\ GrantedInv'
    BY <2>1, <2>2 DEF DrainedInv, RevocationInv, DeniedInv, GrantedInv
  <2> QED
    BY <1>0, <2>3, <2>4 DEF DrainedInv
<1>4. CASE Initialize
  <2>1. /\ UNCHANGED <<wall, calls, primary, backup>> /\ svc'.instance \in Instance
        /\ \/ granted' = Empty /\ denied' = {}
           \/ /\ UNCHANGED <<granted, denied>>
              /\ primary \in Document => memory'[svc'.instance] = Prune(primary)
    BY <1>4, InitializeIs DEF DrainedInv
  <2>2. UnderWay = {} /\ UnderWay' = {} /\ \A d \in Caller : ~Stores(d)'
    BY <1>4, <2>1 DEF Initialize, UnderWay, Stores
  <2>3. RevocationInv'
    BY <2>2 DEF RevocationInv
  <2>4. DeniedInv'
    <3> SUFFICES ASSUME NEW k \in denied'
                 PROVE  /\ memory'[svc'.instance][k] <= wall
                        /\ primary \in Document /\ primary[k] <= wall
      BY <2>1, <2>2 DEF DeniedInv
    <3>1. /\ k \in denied /\ k \in Key /\ primary \in Document /\ primary[k] <= wall
          /\ memory'[svc'.instance] = Prune(primary)
      BY <1>0, <2>1 DEF DrainedInv, DeniedInv
    <3>2. Prune(primary)[k] \in Nat /\ ~(Prune(primary)[k] > wall)
      <4>1. primary[k] \in Nat
        BY <3>1 DEF Document
      <4>2. Prune(primary)[k] = 0
        BY <1>0, <3>1, <4>1 DEF Prune
      <4> QED
        BY <1>0, <4>2
    <3> QED
      BY <1>0, <3>1, <3>2
  <2>5. GrantedInv'
    <3> SUFFICES ASSUME NEW k \in Key, granted'[k] > wall
                 PROVE  /\ memory'[svc'.instance][k] = granted'[k]
                        /\ primary \in Document /\ primary[k] = granted'[k]
      BY <2>1, <2>2 DEF GrantedInv
    <3>1. granted' # Empty
      BY <1>0 DEF Empty
    <3>2. /\ UNCHANGED granted
          /\ primary \in Document /\ primary[k] = granted[k]
          /\ memory'[svc'.instance] = Prune(primary)
      BY <2>1, <3>1 DEF DrainedInv, GrantedInv
    <3> QED
      BY <1>0, <3>2, PruneType
  <2> QED
    BY <1>0, <2>2, <2>3, <2>4, <2>5 DEF DrainedInv
<1>5. CASE Tick \/ Terminate \/ Crash
  <2>1. /\ UNCHANGED <<memory, primary, backup, granted, denied>>
        /\ wall' \in Nat /\ wall' >= wall
        /\ svc'.instance = svc.instance /\ (svc'.ready => svc.ready)
        /\ \A c \in Caller : calls'[c] = calls[c] \/ calls'[c] = Done
        /\ UnderWay' \subseteq UnderWay
    BY <1>5, HostSteps, AccessAssumption DEF DrainedInv
  <2>2. ASSUME NEW d \in Caller, Stores(d)' PROVE Stores(d) /\ calls'[d] = calls[d]
    BY <2>1, <2>2 DEF Stores, Done, IdleCall
  <2>3. \A d \in UnderWay' : calls'[d].instance = svc'.instance
    BY <2>1 DEF DrainedInv, UnderWay, Done, IdleCall
  <2>4. ASSUME NEW x \in Nat, x <= wall PROVE x <= wall'
    BY <1>0, <2>1, <2>4
  <2>5. RevocationInv'
    <3>1. ASSUME NEW d \in Caller, NEW k \in calls[d].key PROVE calls[d].candidate[k] \in Nat
      BY <1>0 DEF CallRecord, Document
    <3> QED
      BY <2>2, <2>4, <3>1 DEF DrainedInv, RevocationInv
  <2>6. DeniedInv'
    <3> SUFFICES ASSUME NEW k \in denied
                 PROVE  /\ svc.instance # 0 => memory[svc.instance][k] <= wall'
                        /\ primary \in Document /\ primary[k] <= wall'
                        /\ \A d \in Caller : Stores(d) => calls[d].candidate[k] <= wall'
      BY <2>1, <2>2 DEF DeniedInv
    <3>1. /\ svc.instance # 0 => memory[svc.instance][k] \in Nat
          /\ primary \in Document => primary[k] \in Nat
          /\ \A d \in Caller : calls[d].candidate[k] \in Nat
      <4>1. svc.instance # 0 => svc.instance \in Instance
        BY AccessAssumption DEF DrainedInv, Inv, TypeOK, Instance, BoundNames
      <4> QED
        BY <1>0, <4>1 DEF CallRecord, Document
    <3> QED
      BY <2>4, <3>1 DEF DrainedInv, DeniedInv
  <2>7. GrantedInv'
    <3> SUFFICES ASSUME NEW k \in Key, granted[k] > wall'
                 PROVE  /\ svc'.ready \/ UnderWay' # {} => memory[svc.instance][k] = granted[k]
                        /\ primary \in Document /\ primary[k] = granted[k]
                        /\ \A c \in Caller : Stores(c) =>
                             calls[c].candidate[k] = granted[k] /\ k \notin calls[c].key
      BY <2>1, <2>2 DEF GrantedInv
    <3>1. granted[k] > wall
      BY <1>0, <2>1 DEF Document
    <3> QED
      BY <2>1, <3>1 DEF DrainedInv, GrantedInv
  <2> QED
    BY <1>0, <2>3, <2>5, <2>6, <2>7 DEF DrainedInv
<1> QED
  <2>1. Durations \subseteq Nat /\ 0 \in Nat
    BY AccessAssumption
  <2>2. ASSUME NEW c \in Caller, NEW s \in Scope, NEW operators \in SUBSET Operator,
               NEW d \in Durations,
               \/ \E op \in {"grant", "renew"} : Manage(c, op, {s} \X operators, d)
               \/ Manage(c, "revoke", {s} \X operators, 0)
        PROVE  DrainedInv'
    <3>1. CASE Manage(c, "grant", {s} \X operators, d)
      BY <1>3, <2>1, <3>1
    <3>2. CASE Manage(c, "renew", {s} \X operators, d)
      BY <1>3, <2>1, <3>2
    <3>3. CASE Manage(c, "revoke", {s} \X operators, 0)
      BY <1>3, <2>1, <3>3
    <3> QED
      BY <2>2, <3>1, <3>2, <3>3
  <2> QED
    BY <1>1, <1>2, <1>4, <1>5, <2>2 DEF Next

(* It holds at the start.                                                   *)
LEMMA InitDrainedInv == Init => DrainedInv
<1> SUFFICES ASSUME Init PROVE DrainedInv
  OBVIOUS
<1>1. /\ denied = {} /\ granted = Empty /\ wall = 0 /\ UnderWay = {}
      /\ \A c \in Caller : ~Stores(c)
  BY DEF Init, UnderWay, Stores, IdleCall
<1> QED
  BY <1>1, InitInv DEF DrainedInv, RevocationInv, DeniedInv, GrantedInv, Empty
----------------------------------------------------------------------------
(* The properties.                                                          *)

(* Every variable has its type, and of one instance one mutation stores at  *)
(* a time, also while calls of a terminated instance go on.                 *)
THEOREM AccessTypes == Spec => []TypeOK
<1>1. Inv => TypeOK
  BY DEF Inv
<1> QED
  BY <1>1, InitInv, NextInv, PTL DEF Spec

(* It holds in every reachable state.                                       *)
LEMMA AlwaysDrainedInv == Drained => (Spec => []DrainedInv)
<1> SUFFICES ASSUME Drained PROVE Spec => []DrainedInv
  OBVIOUS
<1>1. DrainedInv /\ [Next]_vars => DrainedInv'
  BY NextDrainedInv
<1> QED
  BY <1>1, InitDrainedInv, PTL DEF Spec

(* A revocation that was acknowledged holds until a new grant begins, if    *)
(* the host loads a new instance only after the calls of the old one have   *)
(* ended.                                                                   *)
THEOREM RevocationHolds == Drained => (Spec => []RevokedMeansDenied)
<1> SUFFICES ASSUME Drained PROVE Spec => []RevokedMeansDenied
  OBVIOUS
<1>1. DrainedInv => RevokedMeansDenied
  <2> SUFFICES ASSUME DrainedInv, NEW k \in denied, svc.ready, memory[svc.instance][k] > wall
               PROVE  FALSE
    BY DEF RevokedMeansDenied, Authorized, HasOperator
  <2>1. svc.instance \in Instance /\ k \in Key /\ wall \in Nat /\ svc.instance # 0
    BY AccessAssumption DEF DrainedInv, Inv, InstancesInv, TypeOK, Instance, BoundNames
  <2>2. memory[svc.instance][k] \in Nat /\ memory[svc.instance][k] <= wall
    BY <2>1 DEF DrainedInv, DeniedInv, Inv, TypeOK, Document
  <2> QED
    BY <2>1, <2>2
<1> QED
  BY <1>1, AlwaysDrainedInv, PTL

(* A grant that was acknowledged is served until it expires, is replaced or *)
(* revoked, under the same condition.                                       *)
THEOREM GrantHolds == Drained => (Spec => []GrantIsServed)
<1> SUFFICES ASSUME Drained PROVE Spec => []GrantIsServed
  OBVIOUS
<1>1. DrainedInv => GrantIsServed
  BY DEF DrainedInv, GrantedInv, GrantIsServed, HasOperator
<1> QED
  BY <1>1, AlwaysDrainedInv, PTL
=============================================================================

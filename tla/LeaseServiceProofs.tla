-------------------------- MODULE LeaseServiceProofs --------------------------
(***************************************************************************)
(* What TLAPS proves of LeaseService for every number of conversations,     *)
(* targets and callers, and for any number of faults, crashes and boots:    *)
(* the types, what is served, what the two slots hold, that the service     *)
(* implements LeaseRegister, the capacities and the rate windows, and what  *)
(* a receipt may say and a commit may change.                               *)
(***************************************************************************)
EXTENDS LeaseService, LeaseDomainProofs

----------------------------------------------------------------------------
(* Types.                                                                   *)

(* The request of an idle task is a request.                                *)
LEMMA NoRequestType ==
  /\ NoRequest \in Request
  /\ \A s \in Scope, id \in ReportId :
       [NoRequest EXCEPT !.scope = s, !.id = id] \in Request
<1>1. (CHOOSE s \in Scope : TRUE) \in Scope
  BY ServiceAssumption
<1>2. NoRequest \in Request
  BY <1>1 DEF NoRequest, Request, Operation, NoId, ReportId
<1> QED
  BY <1>2 DEF Request

(* A fresh task and a fresh commit have their types.                        *)
LEMMA IdleType == IdleCall \in CallRecord /\ NoCommit \in CommitRecord
<1>1. IdleCall \in CallRecord
  BY NoRequestType DEF IdleCall, CallRecord, Step, Outcome
<1>2. NoCommit \in CommitRecord
  BY EmptyDocumentType DEF NoCommit, CommitRecord
<1> QED
  BY <1>1, <1>2

(* A new instance starts with typed memory.                                 *)
LEMMA FreshMemoryType ==
  ASSUME FreshMemory
  PROVE  /\ state' \in Document
         /\ holder' \in Caller \cup {NoCaller}
         /\ commit' \in [Caller -> CommitRecord]
         /\ call' \in [Caller -> CallRecord]
         /\ usage' \in [Key -> SUBSET Event]
         /\ grants' \in [Key -> SUBSET Event]
         /\ since' \in [Key -> Nat]
BY IdleType, EmptyDocumentType DEF FreshMemory

(* The bounds are counted in natural numbers.                               *)
LEMMA SpendType ==
  ASSUME TypeOK, NEW what \in BoundNames, NEW cond \in BOOLEAN,
         Spend(what) \/ SpendIf(cond, what)
  PROVE  spent' \in [BoundNames -> Nat]
BY DEF TypeOK, Spend, SpendIf

(* A put leaves a document in its slot.                                     *)
LEMMA PutType ==
  ASSUME TypeOK, NEW slot \in {"primary", "backup"}, NEW doc \in Document,
         NEW put \in PutResults(slot, doc), Put(slot, put)
  PROVE  /\ slots' \in [{"primary", "backup"} -> Document \cup {NoSlot}]
         /\ spent' \in [BoundNames -> Nat]
<1>1. put.content \in Document \cup {NoSlot}
  BY DEF PutResults, TypeOK
<1>2. spent' \in [BoundNames -> Nat]
  BY SpendType DEF Put, BoundNames
<1> QED
  BY <1>1, <1>2 DEF Put, TypeOK

(* Releasing the lock keeps its types.                                      *)
LEMMA ReleaseType ==
  ASSUME TypeOK, NEW c \in Caller, Release(c)
  PROVE  holder' \in Caller \cup {NoCaller} /\ commit' \in [Caller -> CommitRecord]
BY IdleType DEF TypeOK, Release

(* The except branches of a commit keep the types.                          *)
LEMMA CommitFailsType ==
  ASSUME TypeOK, NEW c \in Caller, NEW put, CommitFails(c, put)
  PROVE  /\ state' \in Document
         /\ usage' \in [Key -> SUBSET Event]
         /\ ready' \in BOOLEAN
         /\ call' \in [Caller -> CallRecord]
         /\ holder' \in Caller \cup {NoCaller}
         /\ commit' \in [Caller -> CommitRecord]
<1>1. holder' \in Caller \cup {NoCaller} /\ commit' \in [Caller -> CommitRecord]
  BY ReleaseType DEF CommitFails
<1>2. state' \in Document
  BY DEF CommitFails, TypeOK, CommitRecord
<1>3. usage' \in [Key -> SUBSET Event]
  BY DEF CommitFails, TypeOK, ClearUsage
<1>4. ready' \in BOOLEAN
  BY DEF CommitFails
<1>5. call' \in [Caller -> CallRecord]
  <2>1. PICK outcome \in {"storage_write_failed", "commit_indeterminate"} :
          call' = [call EXCEPT ![c] = [call[c] EXCEPT !.step = "replied", !.outcome = outcome]]
    <3> DEFINE outcome == IF put.outcome = "failed" THEN "storage_write_failed"
                          ELSE "commit_indeterminate"
    <3>1. call' = [call EXCEPT ![c] = [call[c] EXCEPT !.step = "replied", !.outcome = outcome]]
      BY DEF CommitFails, FailedReply, TypeOK
    <3>2. outcome \in {"storage_write_failed", "commit_indeterminate"}
      OBVIOUS
    <3> QED
      BY <3>1, <3>2
  <2>2. [call[c] EXCEPT !.step = "replied", !.outcome = outcome] \in CallRecord
    BY DEF TypeOK, CallRecord, Step, Outcome
  <2> QED
    BY <2>1, <2>2 DEF TypeOK
<1> QED
  BY <1>1, <1>2, <1>3, <1>4, <1>5

(* The types hold at the start.                                             *)
LEMMA TypeInit == Init => TypeOK
<1> SUFFICES ASSUME Init PROVE TypeOK
  OBVIOUS
<1>1. /\ wall \in Nat /\ mono \in Nat /\ phase \in Phase /\ ready \in BOOLEAN
      /\ fallback \in BOOLEAN /\ holder \in Caller \cup {NoCaller}
  BY DEF Init, Phase
<1>2. slots \in [{"primary", "backup"} -> Document \cup {NoSlot}]
  BY DEF Init
<1>3. /\ state \in Document /\ loaded \in Document /\ acked \in Document /\ prior \in Document
      /\ limbo \in Document \cup {NoSlot}
  BY EmptyDocumentType DEF Init
<1>4. commit \in [Caller -> CommitRecord] /\ call \in [Caller -> CallRecord]
  BY IdleType DEF Init
<1>5. /\ usage \in [Key -> SUBSET Event] /\ grants \in [Key -> SUBSET Event]
      /\ since \in [Key -> Nat] /\ spent \in [BoundNames -> Nat]
  BY DEF Init
<1> QED
  BY <1>1, <1>2, <1>3, <1>4, <1>5 DEF TypeOK

(* initialize keeps the types.                                              *)
LEMMA BootTypes ==
  ASSUME TypeOK, Load \/ BootBackup \/ BootPrimary
  PROVE  TypeOK'
<1>1. CASE Load
  <2>1. PICK primaryError \in BOOLEAN, backupError \in BOOLEAN :
          LET errors == (IF primaryError THEN 1 ELSE 0) + (IF backupError THEN 1 ELSE 0)
              chosen == Select(primaryError, backupError)
          IN  /\ spent' = [spent EXCEPT !.boots = @ + 1, !.faults = @ + errors]
              /\ \/ /\ chosen = {}
                    /\ phase' = "inert"
                    /\ loaded' = EmptyDocument
                    /\ UNCHANGED fallback
                 \/ \E doc \in chosen :
                      /\ phase' = "boot_backup"
                      /\ loaded' = Prune(doc, wall)
                      /\ fallback' = (fallback \/ primaryError)
    BY <1>1 DEF Load
  <2>2. spent' \in [BoundNames -> Nat]
    <3> DEFINE errors == (IF primaryError THEN 1 ELSE 0) + (IF backupError THEN 1 ELSE 0)
    <3>1. errors \in Nat
      OBVIOUS
    <3>2. spent' = [spent EXCEPT !.boots = @ + 1, !.faults = @ + errors]
      BY <2>1
    <3> HIDE DEF errors
    <3>3. spent.boots + 1 \in Nat /\ spent.faults + errors \in Nat
      BY <3>1 DEF TypeOK, BoundNames
    <3> QED
      BY <3>2, <3>3 DEF TypeOK, BoundNames
  <2>3. \A doc \in Select(primaryError, backupError) : doc \in Document
    BY EmptyDocumentType DEF Select, Readable, TypeOK
  <2>4. phase' \in Phase /\ loaded' \in Document /\ fallback' \in BOOLEAN
    BY <2>1, <2>3, EmptyDocumentType, PruneType DEF TypeOK, Phase
  <2>5. FreshMemory /\ ready' = FALSE /\ UNCHANGED <<wall, mono, store, acked, prior, limbo>>
    BY <1>1 DEF Load
  <2> QED
    BY <2>2, <2>4, <2>5, FreshMemoryType DEF TypeOK, store
<1>2. CASE BootBackup
  <2>1. PICK put \in PutResults("backup", loaded) :
          Put("backup", put) /\ phase' \in {"boot_primary", "inert"}
    BY <1>2 DEF BootBackup
  <2>2. /\ slots' \in [{"primary", "backup"} -> Document \cup {NoSlot}]
        /\ spent' \in [BoundNames -> Nat]
    BY <2>1, PutType DEF TypeOK
  <2> QED
    BY <1>2, <2>1, <2>2 DEF BootBackup, TypeOK, Phase, history
<1>3. CASE BootPrimary
  <2>1. PICK put \in PutResults("primary", loaded) :
          /\ Put("primary", put)
          /\ phase' \in {"up", "inert"}
          /\ \/ ready' = TRUE /\ state' = loaded /\ acked' = loaded /\ prior' = loaded
                /\ limbo' = NoSlot /\ fallback' = FALSE
             \/ UNCHANGED <<ready, state, acked, prior, limbo, fallback>>
    BY <1>3 DEF BootPrimary
  <2>2. /\ slots' \in [{"primary", "backup"} -> Document \cup {NoSlot}]
        /\ spent' \in [BoundNames -> Nat]
    BY <2>1, PutType DEF TypeOK
  <2>3. UNCHANGED <<wall, mono, loaded, holder, commit, call, usage, grants, since>>
    BY <1>3 DEF BootPrimary
  <2> QED
    BY <2>1, <2>2, <2>3 DEF TypeOK, Phase
<1> QED
  BY <1>1, <1>2, <1>3

(* The tasks keep the types.                                                *)
LEMMA CallerTypes ==
  ASSUME TypeOK, NEW c \in Caller, CallerStep(c)
  PROVE  TypeOK'
<1>1. ASSUME NEW req \in Requests, Call(c, req) PROVE TypeOK'
  <2>1. [IdleCall EXCEPT !.step = "queued", !.req = req] \in CallRecord
    BY IdleType, ServiceAssumption DEF CallRecord, Step
  <2>2. spent' \in [BoundNames -> Nat]
    BY <1>1, SpendType DEF Call, BoundNames
  <2> QED
    BY <1>1, <2>1, <2>2 DEF Call, TypeOK, store, history
<1>2. ASSUME NEW s \in Scope, StartTurn(c, s) PROVE TypeOK'
  <2> DEFINE report == Prune(state, wall).reports[s]
             turn == [IdleCall EXCEPT !.step = "turn",
                        !.req = [NoRequest EXCEPT !.scope = s, !.id = IdOf(report)]]
  <2>1. IdOf(report) \in ReportId
    <3>1. Prune(state, wall) \in Document
      BY PruneType DEF TypeOK
    <3>2. report \in Report
      BY <3>1 DEF Document
    <3> HIDE DEF report
    <3> QED
      BY <3>2 DEF Report, IdOf, ReportId
  <2>2. turn \in CallRecord
    BY <2>1, IdleType, NoRequestType DEF CallRecord, Step
  <2>3. spent' \in [BoundNames -> Nat]
    BY <1>2, SpendType DEF StartTurn, BoundNames
  <2>4. call' = [call EXCEPT ![c] = turn]
    BY <1>2 DEF StartTurn
  <2> HIDE DEF turn
  <2> QED
    BY <1>2, <2>2, <2>3, <2>4 DEF StartTurn, TypeOK, store, history
<1>3. CASE EndTurn(c)
  <2>1. call' \in [Caller -> CallRecord]
    BY <1>3, IdleType DEF EndTurn, TypeOK, CallRecord, Step
  <2> QED
    BY <1>3, <2>1 DEF EndTurn, TypeOK, store, history
<1>4. CASE Acquire(c)
  <2> DEFINE result == Apply(state, call[c].req, wall)
             locals == [previous |-> Prune(state, wall), candidate |-> Prune(result.doc, wall),
                        changed |-> result.changed, reset |-> result.reset]
  <2>1. call[c].req \in Request
    BY DEF TypeOK, CallRecord
  <2>2. locals \in CommitRecord
    BY <2>1, ApplyType, PruneType DEF TypeOK, CommitRecord
  <2>3. commit' = [commit EXCEPT ![c] = locals]
    BY <1>4 DEF Acquire
  <2>4. call' \in [Caller -> CallRecord]
    BY <1>4 DEF Acquire, TypeOK, CallRecord, Step
  <2> HIDE DEF locals
  <2> QED
    BY <1>4, <2>2, <2>3, <2>4 DEF Acquire, TypeOK, store, history
<1>5. CASE Refuse(c)
  BY <1>5, IdleType DEF Refuse, TypeOK, store, history
<1>6. CASE PutBackup(c)
  <2>1. PICK put \in PutResults("backup", commit[c].previous) :
          /\ Put("backup", put)
          /\ \/ /\ call' = [call EXCEPT ![c].step = "primary"]
                /\ UNCHANGED <<ready, state, holder, commit, usage>>
             \/ CommitFails(c, put)
    BY <1>6 DEF PutBackup
  <2>2. commit[c].previous \in Document
    BY DEF TypeOK, CommitRecord
  <2>3. /\ slots' \in [{"primary", "backup"} -> Document \cup {NoSlot}]
        /\ spent' \in [BoundNames -> Nat]
    BY <2>1, <2>2, PutType
  <2>4. /\ state' \in Document
        /\ usage' \in [Key -> SUBSET Event]
        /\ ready' \in BOOLEAN
        /\ call' \in [Caller -> CallRecord]
        /\ holder' \in Caller \cup {NoCaller}
        /\ commit' \in [Caller -> CommitRecord]
    <3>1. CASE CommitFails(c, put)
      BY <3>1, CommitFailsType
    <3>2. CASE /\ call' = [call EXCEPT ![c].step = "primary"]
               /\ UNCHANGED <<ready, state, holder, commit, usage>>
      BY <3>2 DEF TypeOK, CallRecord, Step
    <3> QED
      BY <2>1, <3>1, <3>2
  <2> QED
    BY <1>6, <2>3, <2>4 DEF PutBackup, TypeOK, history
<1>7. CASE PutPrimary(c)
  <2>1. PICK put \in PutResults("primary", commit[c].candidate) :
          /\ Put("primary", put)
          /\ \/ /\ call' = [call EXCEPT ![c].step = "acking"]
                /\ UNCHANGED <<ready, state, holder, commit, usage, limbo>>
             \/ CommitFails(c, put) /\ limbo' \in {limbo, commit[c].candidate}
    BY <1>7 DEF PutPrimary
  <2>2. commit[c].candidate \in Document
    BY DEF TypeOK, CommitRecord
  <2>3. /\ slots' \in [{"primary", "backup"} -> Document \cup {NoSlot}]
        /\ spent' \in [BoundNames -> Nat]
    BY <2>1, <2>2, PutType
  <2>4. /\ state' \in Document
        /\ usage' \in [Key -> SUBSET Event]
        /\ ready' \in BOOLEAN
        /\ call' \in [Caller -> CallRecord]
        /\ holder' \in Caller \cup {NoCaller}
        /\ commit' \in [Caller -> CommitRecord]
    <3>1. CASE CommitFails(c, put)
      BY <3>1, CommitFailsType
    <3>2. CASE /\ call' = [call EXCEPT ![c].step = "acking"]
               /\ UNCHANGED <<ready, state, holder, commit, usage, limbo>>
      BY <3>2 DEF TypeOK, CallRecord, Step
    <3> QED
      BY <2>1, <3>1, <3>2
  <2>5. limbo' \in Document \cup {NoSlot}
    BY <2>1, <2>2 DEF TypeOK
  <2> QED
    BY <1>7, <2>3, <2>4, <2>5 DEF PutPrimary, TypeOK
<1>8. CASE AcknowledgeCommit(c)
  <2> DEFINE result == Prune(commit[c].candidate, wall)
             applied == EffectiveRows(commit[c].candidate, call[c].req, commit[c].changed, wall)
  <2>1. commit[c] \in CommitRecord
    BY DEF TypeOK
  <2>2. result \in Document /\ applied \subseteq Key \cup Scope
    BY <2>1, PruneType DEF TypeOK, CommitRecord, EffectiveRows
  <2>3. call' = [call EXCEPT ![c] = [call[c] EXCEPT !.step = "replied", !.outcome = "ok",
                                                    !.applied = applied]]
    BY <1>8 DEF AcknowledgeCommit, TypeOK
  <2> HIDE DEF applied
  <2>4. [call[c] EXCEPT !.step = "replied", !.outcome = "ok", !.applied = applied] \in CallRecord
    BY <2>2 DEF TypeOK, CallRecord, Step, Outcome
  <2>5. call' \in [Caller -> CallRecord]
    BY <2>3, <2>4 DEF TypeOK
  <2>6. holder' \in Caller \cup {NoCaller} /\ commit' \in [Caller -> CommitRecord]
    BY <1>8, ReleaseType DEF AcknowledgeCommit
  <2>7. usage' \in [Key -> SUBSET Event]
    BY <1>8 DEF AcknowledgeCommit, ClearUsage, TypeOK
  <2>8. grants' \in [Key -> SUBSET Event] /\ since' \in [Key -> Nat]
    BY <1>8 DEF AcknowledgeCommit, TypeOK, BoundNames
  <2>9. state' = result /\ acked' = result /\ prior' = acked /\ limbo' = NoSlot
    BY <1>8 DEF AcknowledgeCommit
  <2>10. UNCHANGED <<wall, mono, store, phase, ready, loaded, spent, fallback>>
    BY <1>8 DEF AcknowledgeCommit
  <2> QED
    BY <2>2, <2>5, <2>6, <2>7, <2>8, <2>9, <2>10 DEF TypeOK, store
<1>9. CASE Reply(c)
  BY <1>9, IdleType DEF Reply, TypeOK, store, history
<1>10. CASE Cancel(c)
  <2>1. call' \in [Caller -> CallRecord]
    BY <1>10, IdleType DEF Cancel, TypeOK
  <2>2. holder' \in Caller \cup {NoCaller} /\ commit' \in [Caller -> CommitRecord]
    BY <1>10, ReleaseType DEF Cancel, TypeOK
  <2>3. limbo' \in Document \cup {NoSlot}
    BY <1>10 DEF Cancel, TypeOK, CommitRecord
  <2>4. spent' \in [BoundNames -> Nat]
    BY <1>10, SpendType DEF Cancel, BoundNames
  <2> QED
    BY <1>10, <2>1, <2>2, <2>3, <2>4 DEF Cancel, TypeOK, store
<1> QED
  BY <1>1, <1>2, <1>3, <1>4, <1>5, <1>6, <1>7, <1>8, <1>9, <1>10 DEF CallerStep

(* decide, preview and snapshot keep the types.                             *)
LEMMA ReadTypes ==
  ASSUME TypeOK, NEW k \in Key, Decide(k) \/ Preview(k) \/ Snapshot
  PROVE  TypeOK'
<1>1. CASE Decide(k)
  <2>1. spent' \in [BoundNames -> Nat]
    BY <1>1, SpendType DEF Decide, BoundNames
  <2> DEFINE event == [at |-> mono, no |-> spent.decisions]
  <2>2. event \in Event
    BY DEF TypeOK, Event, BoundNames
  <2>3. Recent(usage[k], mono) \subseteq Event
    BY DEF Recent, TypeOK
  <2>4. \/ /\ usage' = [usage EXCEPT ![k] = {}]
           /\ grants' = [grants EXCEPT ![k] = {}]
        \/ usage' = [usage EXCEPT ![k] = Recent(usage[k], mono)] /\ UNCHANGED grants
        \/ /\ usage' = [usage EXCEPT ![k] = Recent(usage[k], mono) \cup {event}]
           /\ grants' = [grants EXCEPT ![k] = @ \cup {event}]
    BY <1>1 DEF Decide
  <2> HIDE DEF event
  <2>5. usage' \in [Key -> SUBSET Event] /\ grants' \in [Key -> SUBSET Event]
    BY <2>2, <2>3, <2>4 DEF TypeOK
  <2> QED
    BY <1>1, <2>1, <2>5 DEF Decide, TypeOK, store
<1>2. CASE Preview(k)
  BY <1>2 DEF Preview, TypeOK, store, history
<1>3. CASE Snapshot
  BY <1>3 DEF Snapshot, Counts, Recent, TypeOK, store, history
<1> QED
  BY <1>1, <1>2, <1>3

(* Every step keeps the types.                                              *)
LEMMA TypeNext == TypeOK /\ [Next]_vars => TypeOK'
<1> SUFFICES ASSUME TypeOK, [Next]_vars PROVE TypeOK'
  OBVIOUS
<1>1. CASE Tick
  BY <1>1 DEF Tick, TypeOK, store, memory, history
<1>2. CASE Load \/ BootBackup \/ BootPrimary
  BY <1>2, BootTypes
<1>3. CASE Terminate
  BY <1>3 DEF Terminate, TypeOK, Phase, store, history
<1>4. CASE Terminated
  BY <1>4 DEF Terminated, TypeOK, Phase, store, history
<1>5. CASE Crash
  <2>1. spent' \in [BoundNames -> Nat]
    BY <1>5, SpendType DEF Crash, BoundNames
  <2>2. limbo' \in Document \cup {NoSlot}
    BY <1>5 DEF Crash, TypeOK, CommitRecord
  <2> QED
    BY <1>5, <2>1, <2>2, FreshMemoryType, EmptyDocumentType DEF Crash, TypeOK, Phase, store
<1>6. ASSUME NEW c \in Caller, CallerStep(c) PROVE TypeOK'
  BY <1>6, CallerTypes
<1>7. ASSUME NEW k \in Key, Decide(k) \/ Preview(k) PROVE TypeOK'
  BY <1>7, ReadTypes
<1>8. CASE Snapshot
  BY <1>8 DEF Snapshot, Counts, Recent, TypeOK, store, history
<1>9. CASE UNCHANGED vars
  BY <1>9 DEF vars, TypeOK
<1> QED
  BY <1>1, <1>2, <1>3, <1>4, <1>5, <1>6, <1>7, <1>8, <1>9 DEF Next

(* Type correctness of the service.                                         *)
THEOREM ServiceTypes == Spec => []TypeOK
BY TypeInit, TypeNext, PTL DEF Spec
----------------------------------------------------------------------------
(* What is served, and what the slots hold.                                 *)

Committing(c) == call[c].step \in {"backup", "primary", "acking"}

(* The tasks inside _commit_mutation are the holder of the lock, and a      *)
(* commit is under way only while the instance is up or closing.            *)
LockInv ==
  /\ \A c \in Caller : Committing(c) <=> holder = c
  /\ holder # NoCaller => phase \in {"up", "closing"}
  /\ ready => phase = "up"

(* Until the first boot is complete nothing is acknowledged.                *)
NothingStored ==
  slots["primary"] = NoSlot =>
    /\ acked = EmptyDocument
    /\ prior = EmptyDocument
    /\ limbo = NoSlot
    /\ holder = NoCaller
    /\ phase # "up"

(* While a commit is under way the snapshot it started from is still the    *)
(* acknowledged one, and the slots are as its puts left them.               *)
CommitInv ==
  \A c \in Caller :
    Committing(c) =>
      /\ state = acked
      /\ SameNow(commit[c].previous, acked)
      /\ call[c].step \in {"primary", "acking"} => SameNow(Contents("backup"), acked)
      /\ call[c].step = "acking" => SameNow(Contents("primary"), commit[c].candidate)

Recovered(doc) ==
  \/ SameNow(doc, acked)
  \/ limbo # NoSlot /\ SameNow(doc, limbo)

(* What initialize selected is a document that may be recovered, and the    *)
(* backup slot gets it first.                                               *)
BootInv ==
  /\ phase \in {"boot_backup", "boot_primary"} =>
       Recovered(loaded) \/ (fallback /\ SameNow(loaded, prior))
  /\ phase = "boot_primary" => SameNow(Contents("backup"), loaded)

(* PrimaryIsAccountedFor and BackupIsOneBehind, less the candidate in       *)
(* flight, which CommitInv speaks about.                                    *)
SlotInv ==
  /\ Recovered(Contents("backup")) \/ SameNow(Contents("backup"), prior)
  /\ (\A c \in Caller : call[c].step # "acking") =>
       Recovered(Contents("primary")) \/ (fallback /\ SameNow(Contents("primary"), prior))

Inv ==
  /\ TypeOK
  /\ LockInv
  /\ ServesAcknowledged
  /\ NothingStored
  /\ CommitInv
  /\ BootInv
  /\ SlotInv
----------------------------------------------------------------------------

(* The documents that the invariant compares.                               *)
LEMMA Documents ==
  ASSUME TypeOK
  PROVE  /\ wall \in Nat
         /\ state \in Document /\ acked \in Document /\ prior \in Document /\ loaded \in Document
         /\ limbo # NoSlot => limbo \in Document
         /\ \A slot \in {"primary", "backup"} : Contents(slot) \in Document
         /\ \A c \in Caller : commit[c].previous \in Document /\ commit[c].candidate \in Document
BY EmptyDocumentType DEF TypeOK, Contents, CommitRecord

(* A step that moves neither the lock, nor a document, nor a slot, nor a    *)
(* task inside a commit.                                                    *)
LEMMA Untouched ==
  ASSUME Inv, TypeOK',
         UNCHANGED <<wall, slots, phase, ready, state, loaded, holder, commit, acked, prior,
                     limbo, fallback>>,
         \A c \in Caller : Committing(c) \/ Committing(c)' => call'[c].step = call[c].step
  PROVE  Inv'
<1>1. \A c \in Caller : Committing(c)' <=> Committing(c)
  BY DEF Committing
<1>2. LockInv'
  BY <1>1 DEF Inv, LockInv
<1>3. ServesAcknowledged' /\ NothingStored'
  BY DEF Inv, ServesAcknowledged, NothingStored
<1>4. CommitInv'
  BY <1>1 DEF Inv, CommitInv, SameNow, Contents
<1>5. BootInv'
  BY DEF Inv, BootInv, Recovered, SameNow, Contents
<1>6. SlotInv'
  <2>1. (\A c \in Caller : call'[c].step # "acking") => \A c \in Caller : call[c].step # "acking"
    BY DEF Committing
  <2> QED
    BY <2>1 DEF Inv, SlotInv, Recovered, SameNow, Contents
<1> QED
  BY <1>2, <1>3, <1>4, <1>5, <1>6 DEF Inv

(* Documents that agree now agree later, so time keeps the invariant.       *)
LEMMA TickKeepsInv == ASSUME Inv, TypeOK', Tick PROVE Inv'
<1>1. wall' \in Nat /\ wall <= wall'
  BY DEF Tick, Inv, TypeOK
<1>2. \A a, b \in Document : Prune(a, wall) = Prune(b, wall) => Prune(a, wall') = Prune(b, wall')
  BY <1>1, SameLater DEF Inv, TypeOK
<1>3. UNCHANGED <<slots, phase, ready, state, loaded, holder, commit, call, acked, prior, limbo,
                  fallback>>
  BY DEF Tick, store, memory, history
<1>4. /\ state \in Document /\ acked \in Document /\ prior \in Document /\ loaded \in Document
      /\ limbo # NoSlot => limbo \in Document
      /\ \A slot \in {"primary", "backup"} : Contents(slot) \in Document
      /\ \A c \in Caller : commit[c].previous \in Document /\ commit[c].candidate \in Document
  BY Documents DEF Inv
<1>5. \A slot \in {"primary", "backup"} : Contents(slot)' = Contents(slot)
  BY <1>3 DEF Contents
<1>6. LockInv' /\ ServesAcknowledged' /\ NothingStored'
  BY <1>3 DEF Inv, LockInv, Committing, ServesAcknowledged, NothingStored
<1>7. CommitInv'
  BY <1>2, <1>3, <1>4, <1>5 DEF Inv, CommitInv, Committing, SameNow
<1>8. BootInv'
  BY <1>2, <1>3, <1>4, <1>5 DEF Inv, BootInv, Recovered, SameNow
<1>9. SlotInv'
  BY <1>2, <1>3, <1>4, <1>5 DEF Inv, SlotInv, Recovered, SameNow
<1> QED
  BY <1>6, <1>7, <1>8, <1>9 DEF Inv

(* Pruning a document is invisible to a comparison at the same instant.     *)
LEMMA PruneSame ==
  ASSUME TypeOK, NEW doc \in Document
  PROVE  Prune(Prune(doc, wall), wall) = Prune(doc, wall)
BY PruneLater DEF TypeOK

(* Whatever read fails, initialize selects a recoverable document.          *)
LEMMA LoadKeepsInv == ASSUME Inv, TypeOK', Load PROVE Inv'
<1>1. PICK primaryError \in BOOLEAN, backupError \in BOOLEAN :
        LET chosen == Select(primaryError, backupError)
        IN  \/ /\ chosen = {}
               /\ phase' = "inert"
               /\ UNCHANGED fallback
            \/ \E doc \in chosen :
                 /\ phase' = "boot_backup"
                 /\ loaded' = Prune(doc, wall)
                 /\ fallback' = (fallback \/ primaryError)
  BY DEF Load
<1>2. /\ phase \in {"down", "closed"} /\ ready' = FALSE
      /\ UNCHANGED <<wall, slots, acked, prior, limbo>>
  BY DEF Load, store
<1>3. \A c \in Caller : call'[c].step = "idle"
  BY DEF Load, FreshMemory, IdleCall
<1>4. holder' = NoCaller
  BY DEF Load, FreshMemory
<1>5. holder = NoCaller /\ \A c \in Caller : ~Committing(c)
  BY <1>2, ServiceAssumption DEF Inv, LockInv
<1>6. \A c \in Caller : ~Committing(c)'
  BY <1>3 DEF Committing
<1>7. /\ Recovered(Contents("backup")) \/ SameNow(Contents("backup"), prior)
      /\ Recovered(Contents("primary")) \/ (fallback /\ SameNow(Contents("primary"), prior))
  BY <1>5 DEF Inv, SlotInv, Committing
<1>8. LockInv'
  BY <1>2, <1>4, <1>6, ServiceAssumption DEF LockInv
<1>9. ServesAcknowledged' /\ CommitInv'
  BY <1>2, <1>6 DEF ServesAcknowledged, CommitInv
<1>10. phase' \in {"inert", "boot_backup"}
  BY <1>1
<1>11. NothingStored'
  BY <1>2, <1>4, <1>10 DEF Inv, NothingStored
<1>12. fallback => fallback'
  BY <1>1
<1>13. SlotInv'
  BY <1>2, <1>7, <1>12 DEF SlotInv, Recovered, SameNow, Contents
<1>14. ASSUME NEW doc \in Select(primaryError, backupError),
              loaded' = Prune(doc, wall), fallback' = (fallback \/ primaryError)
       PROVE  Recovered(loaded)' \/ (fallback' /\ SameNow(loaded, prior)')
  <2>1. doc \in Document
    BY EmptyDocumentType DEF Select, Readable, Inv, TypeOK
  <2>2. Prune(loaded', wall) = Prune(doc, wall)
    BY <1>14, <2>1, PruneSame DEF Inv
  <2>3. SUFFICES Recovered(doc) \/ (fallback' /\ SameNow(doc, prior))
    BY <1>2, <2>2 DEF Recovered, SameNow
  <2>4. CASE slots["primary"] # NoSlot /\ doc = slots["primary"]
    BY <1>7, <1>12, <2>4 DEF Contents
  <2>5. CASE slots["backup"] # NoSlot /\ doc = slots["backup"] /\ primaryError
    BY <1>7, <1>14, <2>5 DEF Contents
  <2>6. CASE slots["backup"] # NoSlot /\ doc = slots["backup"] /\ slots["primary"] = NoSlot
    BY <1>7, <2>6 DEF Contents, Inv, NothingStored, Recovered
  <2>7. CASE doc = EmptyDocument /\ slots["primary"] = NoSlot
    BY <2>7 DEF Inv, NothingStored, Recovered, SameNow
  <2>8. \/ slots["primary"] # NoSlot /\ doc = slots["primary"]
        \/ slots["backup"] # NoSlot /\ doc = slots["backup"] /\ primaryError
        \/ slots["backup"] # NoSlot /\ doc = slots["backup"] /\ slots["primary"] = NoSlot
        \/ doc = EmptyDocument /\ slots["primary"] = NoSlot
    <3>1. CASE Readable("primary", primaryError)
      BY <1>14, <3>1 DEF Select, Readable
    <3>2. CASE ~Readable("primary", primaryError) /\ Readable("backup", backupError)
      BY <1>14, <3>2 DEF Select, Readable
    <3>3. CASE ~Readable("primary", primaryError) /\ ~Readable("backup", backupError)
      BY <1>14, <3>3 DEF Select, Readable
    <3> QED
      BY <3>1, <3>2, <3>3
  <2> QED
    BY <2>4, <2>5, <2>6, <2>7, <2>8
<1>15. BootInv'
  BY <1>1, <1>14 DEF BootInv
<1> QED
  BY <1>8, <1>9, <1>11, <1>13, <1>15 DEF Inv

(* What a put leaves in its slot.                                           *)
LEMMA PutLeaves ==
  ASSUME TypeOK, NEW slot \in {"primary", "backup"}, NEW doc \in Document,
         NEW put \in PutResults(slot, doc), Put(slot, put)
  PROVE  /\ \A other \in {"primary", "backup"} \ {slot} : slots'[other] = slots[other]
         /\ slots'[slot] = doc \/ slots'[slot] = slots[slot]
         /\ put.outcome = "ok" => slots'[slot] = doc
         /\ slots'[slot] = put.content
BY DEF Put, PutResults, TypeOK

(* The two writes of initialize keep the slots accounted for.               *)
LEMMA BootKeepsInv == ASSUME Inv, TypeOK', BootBackup \/ BootPrimary PROVE Inv'
<1>1. TypeOK /\ loaded \in Document /\ wall \in Nat
  BY Documents DEF Inv
<1>2. holder = NoCaller /\ \A c \in Caller : ~Committing(c)
  BY ServiceAssumption DEF Inv, LockInv, BootBackup, BootPrimary
<1>3. loaded # NoSlot
  BY <1>1, ServiceAssumption
<1>4. Recovered(loaded) \/ (fallback /\ SameNow(loaded, prior))
  BY DEF BootBackup, BootPrimary, Inv, BootInv
<1>5. /\ Recovered(Contents("backup")) \/ SameNow(Contents("backup"), prior)
      /\ Recovered(Contents("primary")) \/ (fallback /\ SameNow(Contents("primary"), prior))
  BY <1>2 DEF Inv, SlotInv, Committing
<1>6. CASE BootBackup
  <2>1. PICK put \in PutResults("backup", loaded) :
          /\ Put("backup", put)
          /\ phase' = IF put.outcome = "ok" THEN "boot_primary" ELSE "inert"
    BY <1>6 DEF BootBackup
  <2>2. UNCHANGED <<wall, mono, ready, state, loaded, holder, commit, call, usage, acked, prior,
                    limbo, fallback>>
    BY <1>6 DEF BootBackup, history
  <2>3. /\ slots'["primary"] = slots["primary"]
        /\ slots'["backup"] = loaded \/ slots'["backup"] = slots["backup"]
        /\ put.outcome = "ok" => slots'["backup"] = loaded
    BY <1>1, <2>1, PutLeaves
  <2>4. Contents("primary")' = Contents("primary")
    BY <2>3 DEF Contents
  <2>5. /\ Contents("backup")' \in {loaded, Contents("backup")}
        /\ put.outcome = "ok" => Contents("backup")' = loaded
    BY <1>3, <2>3 DEF Contents
  <2>6. LockInv' /\ ServesAcknowledged' /\ CommitInv'
    BY <1>2, <1>6, <2>2, ServiceAssumption
       DEF Inv, LockInv, Committing, ServesAcknowledged, CommitInv, BootBackup
  <2>7. NothingStored'
    BY <2>1, <2>2, <2>3 DEF Inv, NothingStored
  <2>8. BootInv'
    BY <1>4, <2>1, <2>2, <2>5 DEF BootInv, Recovered, SameNow
  <2>9. SlotInv'
    BY <1>4, <1>5, <2>2, <2>4, <2>5 DEF SlotInv, Recovered, SameNow
  <2> QED
    BY <2>6, <2>7, <2>8, <2>9 DEF Inv
<1>7. CASE BootPrimary
  <2>1. PICK put \in PutResults("primary", loaded) :
          /\ Put("primary", put)
          /\ IF put.outcome = "ok"
             THEN /\ phase' = "up"
                  /\ ready' = TRUE
                  /\ state' = loaded
                  /\ acked' = loaded
                  /\ prior' = loaded
                  /\ limbo' = NoSlot
                  /\ fallback' = FALSE
             ELSE /\ phase' = "inert"
                  /\ UNCHANGED <<ready, state, acked, prior, limbo, fallback>>
    BY <1>7 DEF BootPrimary
  <2>2. UNCHANGED <<wall, mono, loaded, holder, commit, call, usage>>
    BY <1>7 DEF BootPrimary
  <2>3. /\ slots'["backup"] = slots["backup"]
        /\ slots'["primary"] = loaded \/ slots'["primary"] = slots["primary"]
        /\ put.outcome = "ok" => slots'["primary"] = loaded
    BY <1>1, <2>1, PutLeaves
  <2>4. Contents("backup")' = Contents("backup")
    BY <2>3 DEF Contents
  <2>5. /\ Contents("primary")' \in {loaded, Contents("primary")}
        /\ put.outcome = "ok" => Contents("primary")' = loaded
    BY <1>3, <2>3 DEF Contents
  <2>6. SameNow(Contents("backup"), loaded) /\ ready = FALSE
    BY <1>7 DEF Inv, BootInv, BootPrimary, LockInv, TypeOK
  <2>7. CommitInv' /\ BootInv'
    BY <1>2, <2>1, <2>2 DEF CommitInv, BootInv, Committing
  <2>8. LockInv' /\ ServesAcknowledged'
    BY <1>2, <2>1, <2>2, <2>6, ServiceAssumption DEF Inv, LockInv, Committing, ServesAcknowledged
  <2>9. NothingStored'
    BY <1>3, <2>1, <2>2, <2>3 DEF Inv, NothingStored
  <2>10. SlotInv'
    <3>1. CASE put.outcome = "ok"
      BY <2>1, <2>2, <2>4, <2>5, <2>6, <3>1 DEF SlotInv, Recovered, SameNow
    <3>2. CASE put.outcome # "ok"
      BY <1>4, <1>5, <2>1, <2>2, <2>4, <2>5, <3>2 DEF SlotInv, Recovered, SameNow
    <3> QED
      BY <3>1, <3>2
  <2> QED
    BY <2>7, <2>8, <2>9, <2>10 DEF Inv
<1> QED
  BY <1>6, <1>7

(* terminate moves no document.                                             *)
LEMMA StopKeepsInv == ASSUME Inv, TypeOK', Terminate \/ Terminated PROVE Inv'
<1>1. UNCHANGED <<wall, slots, state, loaded, holder, commit, call, acked, prior, limbo, fallback>>
  BY DEF Terminate, Terminated, store, history
<1>2. CASE Terminate
  <2>1. phase \in {"up", "inert"} /\ phase' = "closing" /\ ready' = FALSE
    BY <1>2 DEF Terminate
  <2>2. LockInv' /\ ServesAcknowledged' /\ NothingStored'
    BY <1>1, <2>1 DEF Inv, LockInv, Committing, ServesAcknowledged, NothingStored
  <2>3. CommitInv'
    BY <1>1 DEF Inv, CommitInv, Committing, SameNow, Contents
  <2>4. BootInv' /\ SlotInv'
    BY <1>1, <2>1 DEF Inv, BootInv, SlotInv, Recovered, SameNow, Contents
  <2> QED
    BY <2>2, <2>3, <2>4 DEF Inv
<1>3. CASE Terminated
  <2>1. phase = "closing" /\ phase' = "closed" /\ ready' = ready /\ holder = NoCaller
    BY <1>3 DEF Terminated
  <2>2. LockInv' /\ ServesAcknowledged' /\ NothingStored'
    BY <1>1, <2>1 DEF Inv, LockInv, Committing, ServesAcknowledged, NothingStored
  <2>3. CommitInv'
    BY <1>1 DEF Inv, CommitInv, Committing, SameNow, Contents
  <2>4. BootInv' /\ SlotInv'
    BY <1>1, <2>1 DEF Inv, BootInv, SlotInv, Recovered, SameNow, Contents
  <2> QED
    BY <2>2, <2>3, <2>4 DEF Inv
<1> QED
  BY <1>2, <1>3

(* A crash strands the candidate that was put and not acknowledged.         *)
LEMMA CrashKeepsInv == ASSUME Inv, TypeOK', Crash PROVE Inv'
<1>1. /\ phase' = "down" /\ ready' = FALSE /\ holder' = NoCaller
      /\ UNCHANGED <<wall, slots, acked, prior, fallback>>
      /\ \A c \in Caller : call'[c].step = "idle"
  BY DEF Crash, FreshMemory, store, IdleCall
<1>2. LockInv' /\ ServesAcknowledged' /\ CommitInv' /\ BootInv'
  BY <1>1, ServiceAssumption DEF LockInv, Committing, ServesAcknowledged, CommitInv, BootInv
<1>3. NothingStored'
  BY <1>1 DEF Crash, Inv, NothingStored
<1>4. SlotInv'
  <2>1. CASE holder # NoCaller /\ call[holder].step = "acking"
    <3>1. holder \in Caller /\ Committing(holder)
      BY <2>1 DEF Inv, TypeOK, Committing
    <3>2. limbo' = commit[holder].candidate /\ limbo' # NoSlot
      BY <2>1, <3>1, Documents, ServiceAssumption DEF Crash, Inv
    <3>3. SameNow(Contents("primary"), limbo') /\ SameNow(Contents("backup"), acked)
      BY <2>1, <3>1, <3>2 DEF Inv, CommitInv
    <3> QED
      BY <1>1, <3>2, <3>3 DEF SlotInv, Recovered, SameNow, Contents
  <2>2. CASE ~(holder # NoCaller /\ call[holder].step = "acking")
    <3>1. \A c \in Caller : call[c].step # "acking"
      BY <2>2, ServiceAssumption DEF Inv, LockInv, Committing
    <3>2. limbo' = limbo
      BY <2>2 DEF Crash
    <3> QED
      BY <1>1, <3>1, <3>2 DEF Inv, SlotInv, Recovered, SameNow, Contents
  <2> QED
    BY <2>1, <2>2
<1> QED
  BY <1>2, <1>3, <1>4 DEF Inv

(* A task inside a commit is alone there, and something is stored.          *)
LEMMA AloneInCommit ==
  ASSUME Inv, NEW c \in Caller, Committing(c)
  PROVE  /\ holder = c /\ phase \in {"up", "closing"}
         /\ \A d \in Caller \ {c} : ~Committing(d)
         /\ slots["primary"] # NoSlot
         /\ state = acked
         /\ commit[c].previous \in Document /\ SameNow(commit[c].previous, acked)
         /\ commit[c].candidate \in Document
<1>1. holder = c /\ holder # NoCaller
  BY ServiceAssumption DEF Inv, LockInv
<1>2. phase \in {"up", "closing"} /\ \A d \in Caller \ {c} : ~Committing(d)
  BY <1>1 DEF Inv, LockInv
<1>3. slots["primary"] # NoSlot
  BY <1>1 DEF Inv, NothingStored
<1> QED
  BY <1>1, <1>2, <1>3, Documents DEF Inv, CommitInv

(* A task leaves its commit.                                                *)
LEMMA CommitEnds ==
  ASSUME Inv, TypeOK', NEW c \in Caller, Committing(c),
         call'[c].step \in {"idle", "replied"},
         \A d \in Caller \ {c} : call'[d].step = call[d].step,
         holder' = NoCaller, phase' = phase, slots'["primary"] # NoSlot,
         ready' => ready /\ state' = acked',
         SlotInv'
  PROVE  Inv'
<1>1. \A d \in Caller : ~Committing(d)'
  BY AloneInCommit DEF Committing
<1>2. LockInv'
  BY <1>1, ServiceAssumption DEF Inv, LockInv
<1>3. CommitInv' /\ NothingStored' /\ ServesAcknowledged'
  BY <1>1 DEF CommitInv, NothingStored, ServesAcknowledged
<1>4. BootInv'
  BY AloneInCommit DEF BootInv
<1> QED
  BY <1>2, <1>3, <1>4 DEF Inv

(* A task enters its commit or goes on with it.                             *)
LEMMA CommitMoves ==
  ASSUME Inv, TypeOK', NEW c \in Caller,
         Committing(c)',
         \A d \in Caller \ {c} : ~Committing(d) /\ call'[d].step = call[d].step,
         holder' = c, phase \in {"up", "closing"}, slots'["primary"] # NoSlot,
         state = acked,
         UNCHANGED <<phase, ready, state, acked>>,
         SameNow(commit[c].previous, acked)',
         (call[c].step \in {"primary", "acking"})' => SameNow(Contents("backup"), acked)',
         (call[c].step = "acking")' => SameNow(Contents("primary"), commit[c].candidate)',
         SlotInv'
  PROVE  Inv'
<1>1. \A d \in Caller \ {c} : ~Committing(d)'
  BY DEF Committing
<1>2. LockInv'
  BY <1>1 DEF Inv, LockInv
<1>3. CommitInv'
  BY <1>1 DEF CommitInv
<1>4. NothingStored' /\ ServesAcknowledged' /\ BootInv'
  BY DEF Inv, NothingStored, ServesAcknowledged, BootInv
<1> QED
  BY <1>2, <1>3, <1>4 DEF Inv

(* A commit starts from the acknowledged document.                          *)
LEMMA AcquireKeepsInv == ASSUME Inv, TypeOK', NEW c \in Caller, Acquire(c) PROVE Inv'
<1>1. /\ holder = NoCaller /\ holder' = c /\ ready /\ phase = "up"
      /\ UNCHANGED <<wall, slots, phase, ready, state, loaded, acked, prior, limbo, fallback>>
  BY DEF Acquire, RunsOperation, LifecycleActive, store, history
<1>2. state = acked /\ slots["primary"] # NoSlot
  BY <1>1 DEF Inv, ServesAcknowledged, NothingStored
<1>3. \A d \in Caller : ~Committing(d)
  BY <1>1, ServiceAssumption DEF Inv, LockInv
<1>4. /\ call'[c].step = "backup"
      /\ \A d \in Caller \ {c} : call'[d].step = call[d].step
  BY DEF Acquire, Inv, TypeOK, CallRecord
<1>5. commit'[c].previous = Prune(state, wall)
  BY DEF Acquire, Inv, TypeOK
<1>6. SameNow(commit[c].previous, acked)'
  BY <1>1, <1>2, <1>5, PruneSame DEF Inv, TypeOK, SameNow
<1>7. SlotInv'
  BY <1>1, <1>3 DEF Inv, SlotInv, Recovered, SameNow, Contents, Committing
<1> QED
  BY <1>1, <1>2, <1>3, <1>4, <1>6, <1>7, CommitMoves DEF Committing

(* A failed commit releases the lock and leaves the served document alone.  *)
LEMMA CommitFailsLeaves ==
  ASSUME Inv, NEW c \in Caller, NEW put, CommitFails(c, put)
  PROVE  /\ holder' = NoCaller
         /\ call'[c].step = "replied"
         /\ \A d \in Caller \ {c} : call'[d].step = call[d].step
         /\ ready' => ready /\ state' = state
<1>1. ready' => ready /\ state' = state
  BY DEF CommitFails
<1>2. holder' = NoCaller
  BY DEF CommitFails, Release
<1> QED
  BY <1>1, <1>2 DEF CommitFails, FailedReply, Inv, TypeOK, CallRecord

(* The backup slot gets the document that the commit started from.          *)
LEMMA PutBackupKeepsInv == ASSUME Inv, TypeOK', NEW c \in Caller, PutBackup(c) PROVE Inv'
<1>1. call[c].step = "backup" /\ Committing(c)
  BY DEF PutBackup, Committing
<1>2. UNCHANGED <<wall, phase, loaded, acked, prior, limbo, fallback>>
  BY DEF PutBackup, history
<1>3. PICK put \in PutResults("backup", commit[c].previous) :
        /\ Put("backup", put)
        /\ IF put.outcome = "ok"
           THEN /\ call' = [call EXCEPT ![c].step = "primary"]
                /\ UNCHANGED <<ready, state, holder, commit, usage>>
           ELSE CommitFails(c, put)
  BY DEF PutBackup
<1>4. /\ slots'["primary"] = slots["primary"]
      /\ slots'["backup"] = commit[c].previous \/ slots'["backup"] = slots["backup"]
      /\ put.outcome = "ok" => slots'["backup"] = commit[c].previous
  BY <1>1, <1>3, PutLeaves, AloneInCommit DEF Inv
<1>5. Contents("primary")' = Contents("primary")
  BY <1>4 DEF Contents
<1>6. /\ Contents("backup")' \in {commit[c].previous, Contents("backup")}
      /\ put.outcome = "ok" => Contents("backup")' = commit[c].previous
  BY <1>1, <1>4, AloneInCommit, ServiceAssumption DEF Contents
<1>7. SameNow(commit[c].previous, acked)
  BY <1>1, AloneInCommit
<1>8. \A d \in Caller : call[d].step # "acking"
  BY <1>1, AloneInCommit DEF Committing
<1>9. SlotInv'
  BY <1>2, <1>5, <1>6, <1>7, <1>8 DEF Inv, SlotInv, Recovered, SameNow
<1>10. CASE put.outcome = "ok"
  <2>1. /\ call'[c].step = "primary"
        /\ \A d \in Caller \ {c} : call'[d].step = call[d].step
    BY <1>3, <1>10 DEF Inv, TypeOK, CallRecord
  <2>2. UNCHANGED <<ready, state, holder, commit>>
    BY <1>3, <1>10
  <2>3. SameNow(commit[c].previous, acked)' /\ SameNow(Contents("backup"), acked)'
    BY <1>2, <1>6, <1>7, <1>10, <2>2 DEF SameNow
  <2> QED
    BY <1>1, <1>2, <1>4, <1>9, <2>1, <2>2, <2>3, AloneInCommit, CommitMoves DEF Committing
<1>11. CASE put.outcome # "ok"
  BY <1>1, <1>2, <1>3, <1>4, <1>9, <1>11, AloneInCommit, CommitFailsLeaves, CommitEnds
<1> QED
  BY <1>10, <1>11

(* A put of the candidate succeeds, leaves the slot, or strands it.         *)
LEMMA PutPrimaryKeepsInv == ASSUME Inv, TypeOK', NEW c \in Caller, PutPrimary(c) PROVE Inv'
<1>1. call[c].step = "primary" /\ Committing(c)
  BY DEF PutPrimary, Committing
<1>2. UNCHANGED <<wall, phase, loaded, acked, prior, fallback>>
  BY DEF PutPrimary
<1>3. PICK put \in PutResults("primary", commit[c].candidate) :
        /\ Put("primary", put)
        /\ IF put.outcome = "ok"
           THEN /\ call' = [call EXCEPT ![c].step = "acking"]
                /\ UNCHANGED <<ready, state, holder, commit, usage, limbo>>
           ELSE /\ CommitFails(c, put)
                /\ limbo' = IF put.outcome = "unknown" /\ put.content = commit[c].candidate
                            THEN commit[c].candidate ELSE limbo
  BY DEF PutPrimary
<1>4. /\ slots'["backup"] = slots["backup"]
      /\ slots'["primary"] = commit[c].candidate \/ slots'["primary"] = slots["primary"]
      /\ put.outcome = "ok" => slots'["primary"] = commit[c].candidate
      /\ slots'["primary"] = put.content
  BY <1>1, <1>3, PutLeaves, AloneInCommit DEF Inv
<1>5. slots'["primary"] # NoSlot
  BY <1>1, <1>4, AloneInCommit, ServiceAssumption
<1>6. Contents("backup")' = Contents("backup") /\ SameNow(Contents("backup"), acked)
  BY <1>1, <1>4 DEF Contents, Inv, CommitInv
<1>7. SameNow(commit[c].previous, acked)
  BY <1>1, AloneInCommit
<1>8. Recovered(Contents("primary")) \/ (fallback /\ SameNow(Contents("primary"), prior))
  <2>1. \A d \in Caller : call[d].step # "acking"
    BY <1>1, AloneInCommit DEF Committing
  <2> QED
    BY <2>1 DEF Inv, SlotInv
<1>9. CASE put.outcome = "ok"
  <2>1. /\ call'[c].step = "acking"
        /\ \A d \in Caller \ {c} : call'[d].step = call[d].step
    BY <1>3, <1>9 DEF Inv, TypeOK, CallRecord
  <2>2. UNCHANGED <<ready, state, holder, commit, limbo>>
    BY <1>3, <1>9
  <2>3. SameNow(commit[c].previous, acked)' /\ SameNow(Contents("backup"), acked)'
    BY <1>2, <1>6, <1>7, <2>2 DEF SameNow
  <2>4. SameNow(Contents("primary"), commit[c].candidate)'
    BY <1>4, <1>5, <1>9, <2>2 DEF SameNow, Contents
  <2>5. SlotInv'
    BY <2>1, <2>3 DEF SlotInv, Recovered
  <2> QED
    BY <1>1, <1>2, <1>5, <2>1, <2>2, <2>3, <2>4, <2>5, AloneInCommit, CommitMoves DEF Committing
<1>10. CASE put.outcome # "ok"
  <2>1. CommitFails(c, put)
    BY <1>3, <1>10
  <2>2. SlotInv'
    <3>1. SameNow(Contents("backup"), acked)'
      BY <1>2, <1>6 DEF SameNow
    <3>2. CASE put.outcome = "unknown" /\ put.content = commit[c].candidate
      <4>1. limbo' = commit[c].candidate /\ limbo' # NoSlot
        BY <1>1, <1>3, <3>2, AloneInCommit, ServiceAssumption
      <4>2. Contents("primary")' = limbo'
        BY <1>4, <1>5, <3>2, <4>1 DEF Contents
      <4> QED
        BY <3>1, <4>1, <4>2 DEF SlotInv, Recovered, SameNow
    <3>3. CASE ~(put.outcome = "unknown" /\ put.content = commit[c].candidate)
      <4>1. limbo' = limbo
        BY <1>3, <1>10, <3>3
      <4>2. put.content = slots["primary"]
        BY <1>10, <3>3 DEF PutResults
      <4>3. Contents("primary")' = Contents("primary")
        BY <1>4, <4>2 DEF Contents
      <4> QED
        BY <1>2, <1>8, <3>1, <4>1, <4>3 DEF SlotInv, Recovered, SameNow
    <3> QED
      BY <3>2, <3>3
  <2> QED
    BY <1>1, <1>2, <1>5, <2>1, <2>2, AloneInCommit, CommitFailsLeaves, CommitEnds
<1> QED
  BY <1>9, <1>10

(* The backup slot is one behind after an acknowledgement.                  *)
LEMMA AcknowledgeKeepsInv ==
  ASSUME Inv, TypeOK', NEW c \in Caller, AcknowledgeCommit(c) PROVE Inv'
<1>1. call[c].step = "acking" /\ Committing(c)
  BY DEF AcknowledgeCommit, Committing
<1>2. /\ state' = Prune(commit[c].candidate, wall) /\ acked' = state' /\ prior' = acked
      /\ holder' = NoCaller
      /\ UNCHANGED <<wall, slots, phase, ready>>
  BY DEF AcknowledgeCommit, Release, store
<1>3. /\ call'[c].step = "replied"
      /\ \A d \in Caller \ {c} : call'[d].step = call[d].step
  BY DEF AcknowledgeCommit, Inv, TypeOK, CallRecord
<1>4. SameNow(Contents("backup"), acked) /\ SameNow(Contents("primary"), commit[c].candidate)
  BY <1>1 DEF Inv, CommitInv
<1>5. Prune(acked', wall) = Prune(commit[c].candidate, wall)
  BY <1>1, <1>2, AloneInCommit, PruneSame DEF Inv
<1>6. SlotInv'
  BY <1>2, <1>4, <1>5 DEF SlotInv, Recovered, SameNow, Contents
<1>7. slots'["primary"] # NoSlot
  BY <1>1, <1>2, AloneInCommit
<1> QED
  BY <1>1, <1>2, <1>3, <1>6, <1>7, CommitEnds

(* A cancelled task releases the lock and may strand its candidate.         *)
LEMMA CancelKeepsInv == ASSUME Inv, TypeOK', NEW c \in Caller, Cancel(c) PROVE Inv'
<1>1. /\ UNCHANGED <<wall, slots, phase, ready, state, loaded, acked, prior, fallback>>
      /\ limbo' = IF call[c].step = "acking" THEN commit[c].candidate ELSE limbo
  BY DEF Cancel, store
<1>2. /\ call'[c].step = "idle"
      /\ \A d \in Caller \ {c} : call'[d].step = call[d].step
  BY DEF Cancel, Inv, TypeOK, CallRecord, IdleCall
<1>3. CASE Committing(c)
  <2>1. holder' = NoCaller /\ slots'["primary"] # NoSlot /\ state' = acked'
    BY <1>1, <1>3, AloneInCommit DEF Cancel, Release
  <2>2. CASE call[c].step = "acking"
    <3>1. limbo' = commit[c].candidate /\ limbo' # NoSlot
      BY <1>1, <1>3, <2>2, AloneInCommit, ServiceAssumption
    <3>2. SameNow(Contents("backup"), acked) /\ SameNow(Contents("primary"), limbo')
      BY <1>3, <2>2, <3>1 DEF Inv, CommitInv
    <3>3. SlotInv'
      BY <1>1, <3>1, <3>2 DEF SlotInv, Recovered, SameNow, Contents
    <3> QED
      BY <1>1, <1>2, <1>3, <2>1, <3>3, CommitEnds
  <2>3. CASE call[c].step # "acking"
    <3>1. \A d \in Caller : call[d].step # "acking"
      BY <1>3, <2>3, AloneInCommit DEF Committing
    <3>2. SlotInv'
      BY <1>1, <2>3, <3>1 DEF Inv, SlotInv, Recovered, SameNow, Contents
    <3> QED
      BY <1>1, <1>2, <1>3, <2>1, <3>2, CommitEnds
  <2> QED
    BY <2>2, <2>3
<1>4. CASE ~Committing(c)
  <2>1. holder # c /\ call[c].step # "acking"
    BY <1>4 DEF Inv, LockInv, Committing
  <2>2. UNCHANGED <<holder, commit, limbo>>
    BY <1>1, <2>1 DEF Cancel
  <2>3. \A d \in Caller : Committing(d) \/ Committing(d)' => call'[d].step = call[d].step
    BY <1>2, <1>4 DEF Committing
  <2> QED
    BY <1>1, <2>2, <2>3, Untouched
<1> QED
  BY <1>3, <1>4

(* The tasks keep the invariant.                                            *)
LEMMA CallerKeepsInv == ASSUME Inv, TypeOK', NEW c \in Caller, CallerStep(c) PROVE Inv'
<1>1. CASE (\E req \in Requests : Call(c, req)) \/ (\E s \in Scope : StartTurn(c, s))
           \/ EndTurn(c) \/ Refuse(c) \/ Reply(c)
  <2>1. UNCHANGED <<wall, slots, phase, ready, state, loaded, holder, commit, acked, prior,
                    limbo, fallback>>
    BY <1>1 DEF Call, StartTurn, EndTurn, Refuse, Reply, store, history
  <2>2. call[c].step \in {"idle", "turn", "queued", "replied"}
    BY <1>1 DEF Call, StartTurn, EndTurn, Refuse, Reply
  <2>3. /\ call'[c].step \in {"idle", "turn", "queued"}
        /\ \A d \in Caller \ {c} : call'[d].step = call[d].step
    <3>1. CASE \E req \in Requests : Call(c, req)
      BY <3>1 DEF Call, IdleCall, Inv, TypeOK
    <3>2. CASE \E s \in Scope : StartTurn(c, s)
      BY <3>2 DEF StartTurn, IdleCall, Inv, TypeOK
    <3>3. CASE EndTurn(c)
      BY <3>3 DEF EndTurn, IdleCall, Inv, TypeOK, CallRecord
    <3>4. CASE Refuse(c)
      BY <3>4 DEF Refuse, IdleCall, Inv, TypeOK
    <3>5. CASE Reply(c)
      BY <3>5 DEF Reply, IdleCall, Inv, TypeOK
    <3> QED
      BY <1>1, <3>1, <3>2, <3>3, <3>4, <3>5
  <2>4. \A d \in Caller : Committing(d) \/ Committing(d)' => call'[d].step = call[d].step
    BY <2>2, <2>3 DEF Committing
  <2> QED
    BY <2>1, <2>4, Untouched
<1>2. CASE Acquire(c)
  BY <1>2, AcquireKeepsInv
<1>3. CASE PutBackup(c)
  BY <1>3, PutBackupKeepsInv
<1>4. CASE PutPrimary(c)
  BY <1>4, PutPrimaryKeepsInv
<1>5. CASE AcknowledgeCommit(c)
  BY <1>5, AcknowledgeKeepsInv
<1>6. CASE Cancel(c)
  BY <1>6, CancelKeepsInv
<1> QED
  BY <1>1, <1>2, <1>3, <1>4, <1>5, <1>6 DEF CallerStep

(* The invariant holds at the start.                                        *)
LEMMA InvInit == Init => Inv
<1> SUFFICES ASSUME Init PROVE Inv
  OBVIOUS
<1>1. TypeOK
  BY TypeInit
<1>2. \A c \in Caller : call[c].step = "idle"
  BY DEF Init, IdleCall
<1>3. LockInv /\ ServesAcknowledged /\ CommitInv /\ BootInv
  BY <1>2, ServiceAssumption DEF Init, LockInv, Committing, ServesAcknowledged, CommitInv, BootInv
<1>4. NothingStored
  BY DEF Init, NothingStored
<1>5. SlotInv
  BY DEF Init, SlotInv, Recovered, SameNow, Contents
<1> QED
  BY <1>1, <1>3, <1>4, <1>5 DEF Inv

(* Every step keeps the invariant.                                          *)
LEMMA InvNext == Inv /\ [Next]_vars => Inv'
<1> SUFFICES ASSUME Inv, [Next]_vars PROVE Inv'
  OBVIOUS
<1>1. TypeOK'
  BY TypeNext DEF Inv
<1>2. CASE Tick
  BY <1>1, <1>2, TickKeepsInv
<1>3. CASE Load
  BY <1>1, <1>3, LoadKeepsInv
<1>4. CASE BootBackup \/ BootPrimary
  BY <1>1, <1>4, BootKeepsInv
<1>5. CASE Terminate \/ Terminated
  BY <1>1, <1>5, StopKeepsInv
<1>6. CASE Crash
  BY <1>1, <1>6, CrashKeepsInv
<1>7. ASSUME NEW c \in Caller, CallerStep(c) PROVE Inv'
  BY <1>1, <1>7, CallerKeepsInv
<1>8. CASE (\E k \in Key : Decide(k) \/ Preview(k)) \/ Snapshot \/ UNCHANGED vars
  <2>1. UNCHANGED <<wall, slots, phase, ready, state, loaded, holder, commit, call, acked, prior,
                    limbo, fallback>>
    BY <1>8 DEF Decide, Preview, Snapshot, vars, store, history
  <2> QED
    BY <1>1, <2>1, Untouched
<1> QED
  BY <1>2, <1>3, <1>4, <1>5, <1>6, <1>7, <1>8 DEF Next

(* The invariant holds in every reachable state.                            *)
LEMMA ServiceInvariant == Spec => []Inv
BY InvInit, InvNext, PTL DEF Spec

(* While the service decides about messages, it decides by the last         *)
(* document a caller was told is committed.                                 *)
THEOREM OnlyAcknowledgedIsServed == Spec => []ServesAcknowledged
<1>1. Inv => ServesAcknowledged
  BY DEF Inv
<1> QED
  BY <1>1, ServiceInvariant, PTL

(* Whatever puts fail, callers are cancelled and processes die, and in      *)
(* whatever order, the primary slot holds the acknowledged document or one  *)
(* of the few that can be accounted for.                                    *)
THEOREM PrimaryAlwaysAccountedFor == Spec => []PrimaryIsAccountedFor
<1>1. Inv => PrimaryIsAccountedFor
  <2> SUFFICES ASSUME Inv PROVE PrimaryIsAccountedFor
    OBVIOUS
  <2>1. CASE \E c \in Caller : call[c].step = "acking"
    <3>1. PICK c \in Caller : call[c].step = "acking"
      BY <2>1
    <3>2. holder = c /\ holder # NoCaller /\ SameNow(Contents("primary"), commit[c].candidate)
      BY <3>1, ServiceAssumption DEF Inv, LockInv, CommitInv, Committing
    <3>3. commit[c].candidate \in Unacknowledged
      BY <3>1, <3>2 DEF Unacknowledged, InFlight
    <3> QED
      BY <3>2, <3>3 DEF PrimaryIsAccountedFor
  <2>2. CASE \A c \in Caller : call[c].step # "acking"
    BY <2>2 DEF Inv, SlotInv, Recovered, PrimaryIsAccountedFor, Unacknowledged
  <2> QED
    BY <2>1, <2>2
<1> QED
  BY <1>1, ServiceInvariant, PTL

(* Recovering from the backup slot loses one acknowledged mutation at most. *)
THEOREM BackupNeverOlder == Spec => []BackupIsOneBehind
<1>1. Inv => BackupIsOneBehind
  BY DEF Inv, SlotInv, Recovered, BackupIsOneBehind, Unacknowledged
<1> QED
  BY <1>1, ServiceInvariant, PTL

(* Once terminate has returned nothing writes the slots any more: a commit  *)
(* still under way would hold the lock terminate waits for.                 *)
THEOREM SilentAfterTerminate == Spec => NoWriteAfterTerminate
<1>1. Inv /\ [Next]_vars =>
        (slots' # slots => phase \in {"boot_backup", "boot_primary", "up", "closing"})
  <2> SUFFICES ASSUME Inv, Next, slots' # slots
               PROVE  phase \in {"boot_backup", "boot_primary", "up", "closing"}
    BY DEF vars
  <2>1. ASSUME NEW c \in Caller, CallerStep(c) PROVE phase \in {"up", "closing"}
    <3>1. PutBackup(c) \/ PutPrimary(c)
      BY <2>1 DEF CallerStep, Call, StartTurn, EndTurn, Acquire, Refuse, AcknowledgeCommit,
                  Reply, Cancel, store
    <3> QED
      BY <3>1, AloneInCommit DEF PutBackup, PutPrimary, Committing
  <2>2. (\E c \in Caller : CallerStep(c)) \/ BootBackup \/ BootPrimary
    BY DEF Next, Tick, Load, Terminate, Terminated, Crash, Decide, Preview, Snapshot, store
  <2> QED
    BY <2>1, <2>2 DEF BootBackup, BootPrimary
<1> QED
  BY <1>1, ServiceInvariant, PTL DEF Spec, NoWriteAfterTerminate
----------------------------------------------------------------------------
(* The service implements the register.                                     *)

(* The register speaks of the same documents.                               *)
LEMMA RegisterVocabulary ==
  /\ Register!EmptyDocument = EmptyDocument
  /\ Register!Document = Document
  /\ \A doc, now : Register!Prune(doc, now) = Prune(doc, now)
<1>1. Register!Key = Key /\ Register!NoLease = NoLease /\ Register!NoReport = NoReport
      /\ Register!Report = Report
  BY DEF Register!Key, Key, Register!NoLease, NoLease, Register!NoReport, NoReport,
         Register!Report, Report
<1>2. Register!EmptyDocument = EmptyDocument
  BY <1>1 DEF Register!EmptyDocument, EmptyDocument
<1>3. Register!Document = Document
  BY <1>1 DEF Register!Document, Document
<1>4. ASSUME NEW doc, NEW now PROVE Register!Prune(doc, now) = Prune(doc, now)
  BY <1>1 DEF Register!Prune, Prune, Register!PruneLeases, PruneLeases
<1> QED
  BY <1>2, <1>3, <1>4

(* While the invariant holds, the document the register speaks of is the    *)
(* acknowledged one, so that its actions read as follows.                   *)
LEMMA RegisterSteps ==
  ASSUME Inv, Inv'
  PROVE  /\ wall' \in Nat /\ wall' >= wall /\ UNCHANGED <<acked, prior, limbo, fallback, ready>>
              => Register!Pass
         /\ acked' \in Document /\ prior' = acked /\ limbo' = NoSlot
              /\ UNCHANGED <<wall, fallback, ready>> => Register!Replace
         /\ limbo' \in Document /\ ready' \in {ready, FALSE}
              /\ UNCHANGED <<wall, acked, prior, fallback>> => Register!Strand
         /\ ready' = FALSE /\ UNCHANGED <<wall, acked, prior, limbo, fallback>> => Register!Close
         /\ ~ready /\ fallback' = TRUE /\ UNCHANGED <<wall, acked, prior, limbo, ready>>
              => Register!LoseAcknowledged
         /\ ~ready /\ acked' \in Document /\ prior' = acked' /\ limbo' = NoSlot
              /\ fallback' = FALSE /\ ready' = TRUE /\ wall' = wall
              /\ (Recovered(acked') \/ (fallback /\ SameNow(acked', prior))) => Register!Reopen
         /\ UNCHANGED <<wall, acked, prior, limbo, fallback, ready>>
              => UNCHANGED Register!registerVars
<1> DEFINE served == IF ready THEN state ELSE acked
<1>1. served = acked /\ served' = acked'
  BY DEF Inv, ServesAcknowledged
<1>2. wall' \in Nat /\ wall' >= wall /\ UNCHANGED <<acked, prior, limbo, fallback, ready>>
        => Register!Pass
  BY <1>1 DEF Register!Pass
<1>3. acked' \in Document /\ prior' = acked /\ limbo' = NoSlot
        /\ UNCHANGED <<wall, fallback, ready>> => Register!Replace
  BY <1>1, RegisterVocabulary DEF Register!Replace
<1>4. limbo' \in Document /\ ready' \in {ready, FALSE}
        /\ UNCHANGED <<wall, acked, prior, fallback>> => Register!Strand
  BY <1>1, RegisterVocabulary DEF Register!Strand
<1>5. ready' = FALSE /\ UNCHANGED <<wall, acked, prior, limbo, fallback>> => Register!Close
  BY <1>1 DEF Register!Close
<1>6. ~ready /\ fallback' = TRUE /\ UNCHANGED <<wall, acked, prior, limbo, ready>>
        => Register!LoseAcknowledged
  BY <1>1 DEF Register!LoseAcknowledged
<1>7. ASSUME ~ready, acked' \in Document, prior' = acked', limbo' = NoSlot,
             fallback' = FALSE, ready' = TRUE, wall' = wall,
             Recovered(acked') \/ (fallback /\ SameNow(acked', prior))
      PROVE  Register!Reopen
  <2>1. \E doc \in Register!Recoverable : Prune(acked', wall) = Prune(doc, wall)
    BY <1>1, <1>7 DEF Register!Recoverable, Recovered, SameNow
  <2>2. \E doc \in Register!Recoverable :
          Register!Prune(served', wall) = Register!Prune(doc, wall)
    BY <1>1, <2>1, RegisterVocabulary
  <2> QED
    BY <1>1, <1>7, <2>2, RegisterVocabulary DEF Register!Reopen
<1>8. UNCHANGED <<wall, acked, prior, limbo, fallback, ready>> => UNCHANGED Register!registerVars
  BY <1>1 DEF Register!registerVars
<1> QED
  BY <1>2, <1>3, <1>4, <1>5, <1>6, <1>7, <1>8

(* Every step of the service is one of the register or leaves it alone.     *)
LEMMA RegisterStep ==
  Inv /\ Inv' /\ [Next]_vars => [Register!RegisterNext]_(Register!registerVars)
<1> SUFFICES ASSUME Inv, Inv', [Next]_vars
             PROVE  [Register!RegisterNext]_(Register!registerVars)
  OBVIOUS
<1>1. CASE Tick
  <2>1. wall' \in Nat /\ wall' >= wall /\ UNCHANGED <<acked, prior, limbo, fallback, ready>>
    BY <1>1 DEF Tick, memory, history, Inv, TypeOK
  <2> QED
    BY <2>1, RegisterSteps DEF Register!RegisterNext
<1>2. CASE Load
  <2>1. UNCHANGED <<wall, acked, prior, limbo, ready>> /\ ~ready
    BY <1>2 DEF Load, Inv, LockInv, TypeOK
  <2>2. fallback' = fallback \/ fallback' = TRUE
    BY <1>2 DEF Load, Inv, TypeOK
  <2> QED
    BY <2>1, <2>2, RegisterSteps DEF Register!RegisterNext
<1>3. CASE BootBackup
  <2>1. UNCHANGED <<wall, acked, prior, limbo, fallback, ready>>
    BY <1>3 DEF BootBackup, history
  <2> QED
    BY <2>1, RegisterSteps
<1>4. CASE BootPrimary
  <2>1. ~ready /\ loaded \in Document
    BY <1>4 DEF BootPrimary, Inv, LockInv, TypeOK
  <2>2. Recovered(loaded) \/ (fallback /\ SameNow(loaded, prior))
    BY <1>4 DEF BootPrimary, Inv, BootInv
  <2>3. \/ /\ ready' = TRUE /\ acked' = loaded /\ prior' = loaded
           /\ limbo' = NoSlot /\ fallback' = FALSE
        \/ UNCHANGED <<ready, acked, prior, limbo, fallback>>
    BY <1>4 DEF BootPrimary
  <2>4. wall' = wall
    BY <1>4 DEF BootPrimary
  <2> QED
    BY <2>1, <2>2, <2>3, <2>4, RegisterSteps DEF Register!RegisterNext
<1>5. CASE Terminate
  <2>1. ready' = FALSE /\ UNCHANGED <<wall, acked, prior, limbo, fallback>>
    BY <1>5 DEF Terminate, history
  <2> QED
    BY <2>1, RegisterSteps DEF Register!RegisterNext
<1>6. CASE Crash
  <2>1. ready' = FALSE /\ UNCHANGED <<wall, acked, prior, fallback>>
    BY <1>6 DEF Crash
  <2>2. limbo' = limbo \/ limbo' \in Document
    BY <1>6, Documents DEF Crash, Inv, TypeOK
  <2> QED
    BY <2>1, <2>2, RegisterSteps DEF Register!RegisterNext
<1>7. ASSUME NEW c \in Caller, CallerStep(c)
      PROVE  [Register!RegisterNext]_(Register!registerVars)
  <2>1. CASE (\E req \in Requests : Call(c, req)) \/ (\E s \in Scope : StartTurn(c, s))
             \/ EndTurn(c) \/ Acquire(c) \/ Refuse(c) \/ Reply(c)
    <3>1. UNCHANGED <<wall, acked, prior, limbo, fallback, ready>>
      BY <2>1 DEF Call, StartTurn, EndTurn, Acquire, Refuse, Reply, history
    <3> QED
      BY <3>1, RegisterSteps
  <2>2. CASE PutBackup(c)
    <3>1. ready' \in {ready, FALSE} /\ UNCHANGED <<wall, acked, prior, limbo, fallback>>
      BY <2>2 DEF PutBackup, CommitFails, history, Inv, TypeOK
    <3> QED
      BY <3>1, RegisterSteps DEF Register!RegisterNext
  <2>3. CASE PutPrimary(c)
    <3>1. ready' \in {ready, FALSE} /\ UNCHANGED <<wall, acked, prior, fallback>>
      BY <2>3 DEF PutPrimary, CommitFails, Inv, TypeOK
    <3>2. limbo' = limbo \/ limbo' \in Document
      BY <2>3, Documents DEF PutPrimary, Inv
    <3> QED
      BY <3>1, <3>2, RegisterSteps DEF Register!RegisterNext
  <2>4. CASE AcknowledgeCommit(c)
    <3>1. prior' = acked /\ limbo' = NoSlot /\ UNCHANGED <<wall, fallback, ready>>
      BY <2>4 DEF AcknowledgeCommit
    <3>2. acked' \in Document
      BY DEF Inv, TypeOK
    <3> QED
      BY <3>1, <3>2, RegisterSteps DEF Register!RegisterNext
  <2>5. CASE Cancel(c)
    <3>1. UNCHANGED <<wall, acked, prior, fallback, ready>>
      BY <2>5 DEF Cancel
    <3>2. limbo' = limbo \/ limbo' \in Document
      BY <2>5, Documents DEF Cancel, Inv
    <3> QED
      BY <3>1, <3>2, RegisterSteps DEF Register!RegisterNext
  <2> QED
    BY <1>7, <2>1, <2>2, <2>3, <2>4, <2>5 DEF CallerStep
<1>8. CASE Terminated \/ (\E k \in Key : Decide(k) \/ Preview(k)) \/ Snapshot \/ UNCHANGED vars
  <2>1. UNCHANGED <<wall, acked, prior, limbo, fallback, ready>>
    BY <1>8 DEF Terminated, Decide, Preview, Snapshot, vars, history
  <2> QED
    BY <2>1, RegisterSteps
<1> QED
  BY <1>1, <1>2, <1>3, <1>4, <1>5, <1>6, <1>7, <1>8 DEF Next

(* Without its slots, locks, tasks and faults the service is the register:  *)
(* what it serves changes only by an acknowledged commit, and after any     *)
(* failure it comes back with a document the register allows.               *)
THEOREM ServiceImplementsRegister == Spec => ImplementsRegister
<1>1. Init => Register!RegisterInit
  BY RegisterVocabulary DEF Init, Register!RegisterInit
<1> QED
  BY <1>1, RegisterStep, ServiceInvariant, PTL
     DEF Spec, ImplementsRegister, Register!RegisterSpec
----------------------------------------------------------------------------
(* Capacities, receipts and windows.  What a document is bounded by, what a *)
(* commit is for and what a counter holds, at every instant.                *)

Bounded(doc) == Capped(doc) /\ ReportsBounded(doc, wall)

(* Every document that may ever be acknowledged is bounded, and every       *)
(* request names finitely many targets.                                     *)
LimitInv ==
  /\ Bounded(state) /\ Bounded(loaded) /\ Bounded(acked)
  /\ \A slot \in {"primary", "backup"} : slots[slot] # NoSlot => Bounded(slots[slot])
  /\ \A c \in Caller :
       /\ Bounded(commit[c].previous) /\ Bounded(commit[c].candidate)
       /\ IsFiniteSet(call[c].req.targets)

(* What may become the snapshot is clamped, and a commit serves its         *)
(* request.                                                                 *)
PurposeInv ==
  /\ Clamped(state) /\ Clamped(loaded)
  /\ \A c \in Caller : Committing(c) => Purpose(state, call[c].req, commit[c], wall)

(* The admissions of a key since its counter was reset.                     *)
Admitted(k) == {e \in grants[k] : e.no >= since[k]}

(* The counter of a live rate lease holds what was admitted in the last     *)
(* window; a boot starts with nothing admitted.                             *)
WindowInv ==
  /\ \A k \in Key :
       /\ IsFiniteSet(usage[k])
       /\ \A e \in grants[k] : e.at <= mono /\ e.no < spent.decisions
       /\ ready /\ RateAlive(state, k, wall) =>
            \A e \in Admitted(k) : e.at > mono - RateWindow => e \in usage[k]
       /\ WithinWindow(Admitted(k))
  /\ phase \in {"boot_backup", "boot_primary"} => \A k \in Key : grants[k] = {}

(* Spending one bound leaves the others.                                    *)
LEMMA SpendOther ==
  ASSUME TypeOK, NEW what \in BoundNames \ {"decisions"}, NEW cond \in BOOLEAN,
         Spend(what) \/ SpendIf(cond, what) \/ UNCHANGED spent
  PROVE  spent'["decisions"] = spent["decisions"]
BY DEF TypeOK, Spend, SpendIf, BoundNames

(* The steps of a task outside its commit move nothing but the task.        *)
LEMMA QuietSteps ==
  ASSUME TypeOK, NEW c \in Caller,
         \/ \E req \in Requests : Call(c, req)
         \/ \E s \in Scope : StartTurn(c, s)
         \/ EndTurn(c) \/ Refuse(c) \/ Reply(c)
  PROVE  /\ UNCHANGED <<wall, mono, slots, phase, ready, state, loaded, holder, commit, usage,
                        acked, grants, since>>
         /\ spent'["decisions"] = spent["decisions"]
         /\ ~Committing(c) /\ ~Committing(c)' /\ call'[c].step # "replied"
         /\ \A d \in Caller \ {c} : call'[d] = call[d]
         /\ IsFiniteSet(call[c].req.targets) => IsFiniteSet(call'[c].req.targets)
<1>1. IsFiniteSet({})
  BY FS_EmptySet
<1>2. CASE \E req \in Requests : Call(c, req)
  <2>1. PICK req \in Requests : Call(c, req)
    BY <1>2
  <2>2. call'[c].step = "queued" /\ call'[c].req = req /\ call[c].step = "idle"
    BY <2>1 DEF Call, IdleCall, TypeOK
  <2>3. spent'["decisions"] = spent["decisions"]
    BY <2>1, SpendOther DEF Call, BoundNames
  <2>4. IsFiniteSet(req.targets)
    BY ServiceAssumption
  <2> QED
    BY <2>1, <2>2, <2>3, <2>4 DEF Call, store, history, Committing, TypeOK
<1>3. CASE \E s \in Scope : StartTurn(c, s)
  <2>1. PICK s \in Scope : StartTurn(c, s)
    BY <1>3
  <2>2. PICK req : /\ call' = [call EXCEPT ![c] = [IdleCall EXCEPT !.step = "turn", !.req = req]]
                   /\ req.targets = {}
    <3>1. PICK id : call' = [call EXCEPT ![c] =
                      [IdleCall EXCEPT !.step = "turn",
                         !.req = [NoRequest EXCEPT !.scope = s, !.id = id]]]
      BY <2>1 DEF StartTurn
    <3>2. [NoRequest EXCEPT !.scope = s, !.id = id].targets = {}
      BY DEF NoRequest
    <3> QED
      BY <3>1, <3>2
  <2>3. call'[c].step = "turn" /\ call'[c].req = req /\ call[c].step = "idle"
    BY <2>1, <2>2 DEF StartTurn, IdleCall, TypeOK
  <2>4. spent'["decisions"] = spent["decisions"]
    BY <2>1, SpendOther DEF StartTurn, BoundNames
  <2> QED
    BY <1>1, <2>1, <2>2, <2>3, <2>4 DEF StartTurn, store, history, Committing, TypeOK
<1>4. CASE EndTurn(c)
  <2>1. /\ call'[c].step \in {"queued", "idle"} /\ call[c].step = "turn"
        /\ call'[c].req = call[c].req \/ call'[c].req.targets = {}
    BY <1>4 DEF EndTurn, IdleCall, NoRequest, TypeOK, CallRecord
  <2> QED
    BY <1>1, <1>4, <2>1 DEF EndTurn, store, history, Committing, TypeOK
<1>5. CASE Refuse(c) \/ Reply(c)
  <2>1. /\ call'[c].step = "idle" /\ call[c].step \in {"queued", "replied"}
        /\ call'[c].req.targets = {}
    BY <1>5 DEF Refuse, Reply, IdleCall, NoRequest, TypeOK
  <2> QED
    BY <1>1, <1>5, <2>1 DEF Refuse, Reply, store, history, Committing, TypeOK
<1> QED
  BY <1>2, <1>3, <1>4, <1>5

(* The commit that a task starts.                                           *)
LEMMA AcquireSteps ==
  ASSUME TypeOK, NEW c \in Caller, Acquire(c)
  PROVE  LET result == Apply(state, call[c].req, wall)
         IN  /\ commit'[c].previous = Prune(state, wall)
             /\ commit'[c].candidate = Prune(result.doc, wall)
             /\ commit'[c].changed = result.changed
             /\ commit'[c].reset = result.reset
             /\ call'[c].req = call[c].req /\ call'[c].step = "backup"
             /\ \A d \in Caller \ {c} : call'[d] = call[d] /\ commit'[d] = commit[d]
             /\ ~Rejected(state, call[c].req, wall)
             /\ UNCHANGED <<wall, mono, slots, phase, ready, state, loaded, usage, acked, grants,
                            since, spent>>
BY DEF Acquire, RunsOperation, TypeOK, CallRecord, store, history

(* What a task leaves behind when a put of its commit did not succeed.      *)
LEMMA FailSteps ==
  ASSUME TypeOK, NEW c \in Caller, NEW put, CommitFails(c, put)
  PROVE  /\ commit'[c] = NoCommit
         /\ call'[c].req = call[c].req /\ call'[c].step = "replied"
         /\ call'[c].outcome = IF put.outcome = "failed" THEN "storage_write_failed"
                               ELSE "commit_indeterminate"
         /\ \A d \in Caller \ {c} : call'[d] = call[d] /\ commit'[d] = commit[d]
         /\ \/ call[c].req.op # "restore" /\ UNCHANGED <<state, usage>>
            \/ /\ call[c].req.op = "restore" /\ state' = commit[c].candidate
               /\ ClearUsage(commit[c].reset)
         /\ ready' = (ready /\ put.outcome = "failed" /\ call[c].req.op # "restore")
BY DEF CommitFails, Release, FailedReply, FailInert, TypeOK, CallRecord

(* The puts of a commit: the task goes on, or its commit fails.             *)
LEMMA PutSteps ==
  ASSUME TypeOK, NEW c \in Caller, PutBackup(c) \/ PutPrimary(c)
  PROVE  /\ Committing(c)
         /\ UNCHANGED <<wall, mono, phase, loaded, acked, grants, since>>
         /\ spent'["decisions"] = spent["decisions"]
         /\ \A slot \in {"primary", "backup"} :
              slots'[slot] \in {slots[slot], commit[c].previous, commit[c].candidate}
         /\ \/ /\ UNCHANGED <<ready, state, commit, usage>>
               /\ call'[c].step \in {"primary", "acking"} /\ call'[c].req = call[c].req
               /\ \A d \in Caller \ {c} : call'[d] = call[d]
            \/ \E put : CommitFails(c, put)
<1>1. CASE PutBackup(c)
  <2>1. PICK put \in PutResults("backup", commit[c].previous) :
          /\ Put("backup", put)
          /\ \/ /\ call' = [call EXCEPT ![c].step = "primary"]
                /\ UNCHANGED <<ready, state, holder, commit, usage>>
             \/ CommitFails(c, put)
    BY <1>1 DEF PutBackup
  <2>2. put.content \in {slots["backup"], commit[c].previous}
    BY <2>1 DEF PutResults
  <2>3. \A slot \in {"primary", "backup"} : slots'[slot] \in {slots[slot], commit[c].previous}
    BY <2>1, <2>2 DEF Put, TypeOK
  <2>4. spent'["decisions"] = spent["decisions"]
    BY <2>1, SpendOther DEF Put, BoundNames
  <2>5. CASE CommitFails(c, put)
    BY <1>1, <2>3, <2>4, <2>5 DEF PutBackup, Committing, history
  <2>6. CASE /\ call' = [call EXCEPT ![c].step = "primary"]
             /\ UNCHANGED <<ready, state, holder, commit, usage>>
    BY <1>1, <2>3, <2>4, <2>6 DEF PutBackup, Committing, history, TypeOK, CallRecord
  <2> QED
    BY <2>1, <2>5, <2>6
<1>2. CASE PutPrimary(c)
  <2>1. PICK put \in PutResults("primary", commit[c].candidate) :
          /\ Put("primary", put)
          /\ \/ /\ call' = [call EXCEPT ![c].step = "acking"]
                /\ UNCHANGED <<ready, state, holder, commit, usage, limbo>>
             \/ CommitFails(c, put)
    BY <1>2 DEF PutPrimary
  <2>2. put.content \in {slots["primary"], commit[c].candidate}
    BY <2>1 DEF PutResults
  <2>3. \A slot \in {"primary", "backup"} : slots'[slot] \in {slots[slot], commit[c].candidate}
    BY <2>1, <2>2 DEF Put, TypeOK
  <2>4. spent'["decisions"] = spent["decisions"]
    BY <2>1, SpendOther DEF Put, BoundNames
  <2>5. CASE CommitFails(c, put)
    BY <1>2, <2>3, <2>4, <2>5 DEF PutPrimary, Committing
  <2>6. CASE /\ call' = [call EXCEPT ![c].step = "acking"]
             /\ UNCHANGED <<ready, state, holder, commit, usage, limbo>>
    BY <1>2, <2>3, <2>4, <2>6 DEF PutPrimary, Committing, TypeOK, CallRecord
  <2> QED
    BY <2>1, <2>5, <2>6
<1> QED
  BY <1>1, <1>2

(* What an acknowledgement does.                                            *)
LEMMA AcknowledgeSteps ==
  ASSUME TypeOK, NEW c \in Caller, AcknowledgeCommit(c)
  PROVE  /\ call[c].step = "acking" /\ Committing(c)
         /\ state' = Prune(commit[c].candidate, wall) /\ acked' = state'
         /\ ClearUsage(commit[c].reset)
         /\ commit'[c] = NoCommit
         /\ call'[c].req = call[c].req /\ call'[c].step = "replied" /\ call'[c].outcome = "ok"
         /\ call'[c].applied =
              EffectiveRows(commit[c].candidate, call[c].req, commit[c].changed, wall)
         /\ \A d \in Caller \ {c} : call'[d] = call[d] /\ commit'[d] = commit[d]
         /\ \A k \in Key :
              /\ since'[k] = IF k \in commit[c].reset THEN spent.decisions ELSE since[k]
              /\ grants'[k] = {} \/ grants'[k] = grants[k]
         /\ UNCHANGED <<wall, mono, slots, phase, ready, loaded, spent>>
<1>1. /\ call[c].step = "acking"
      /\ state' = Prune(commit[c].candidate, wall) /\ acked' = state'
      /\ ClearUsage(commit[c].reset)
      /\ Release(c)
      /\ UNCHANGED <<wall, mono, slots, phase, ready, loaded, spent>>
  BY DEF AcknowledgeCommit, store
<1>2. PICK applied :
        /\ call' = [call EXCEPT ![c].step = "replied", ![c].outcome = "ok", ![c].applied = applied]
        /\ applied = EffectiveRows(commit[c].candidate, call[c].req, commit[c].changed, wall)
  BY DEF AcknowledgeCommit
<1>3. /\ call'[c].req = call[c].req /\ call'[c].step = "replied" /\ call'[c].outcome = "ok"
      /\ call'[c].applied = applied
      /\ \A d \in Caller \ {c} : call'[d] = call[d]
  BY <1>2 DEF TypeOK, CallRecord
<1>4. commit'[c] = NoCommit /\ \A d \in Caller \ {c} : commit'[d] = commit[d]
  BY <1>1 DEF Release, TypeOK
<1>5. \A k \in Key :
        /\ since'[k] = IF k \in commit[c].reset THEN spent.decisions ELSE since[k]
        /\ grants'[k] = {} \/ grants'[k] = grants[k]
  BY DEF AcknowledgeCommit
<1> QED
  BY <1>1, <1>2, <1>3, <1>4, <1>5 DEF Committing

(* A cancelled task moves nothing but itself.                               *)
LEMMA CancelSteps ==
  ASSUME TypeOK, NEW c \in Caller, Cancel(c)
  PROVE  /\ UNCHANGED <<wall, mono, slots, phase, ready, state, loaded, usage, acked, grants,
                        since>>
         /\ spent'["decisions"] = spent["decisions"]
         /\ call'[c] = IdleCall /\ commit'[c] \in {commit[c], NoCommit}
         /\ \A d \in Caller \ {c} : call'[d] = call[d] /\ commit'[d] = commit[d]
<1>1. spent'["decisions"] = spent["decisions"]
  BY SpendOther DEF Cancel, BoundNames
<1> QED
  BY <1>1 DEF Cancel, Release, TypeOK, store

(* What a new instance starts with.                                         *)
LEMMA FreshSteps ==
  ASSUME FreshMemory
  PROVE  /\ state' = EmptyDocument
         /\ \A c \in Caller : call'[c] = IdleCall /\ commit'[c] = NoCommit
         /\ \A k \in Key : usage'[k] = {} /\ grants'[k] = {} /\ since'[k] = 0
BY DEF FreshMemory

(* The rest of the service: the steps of the instance and its reads.        *)
LEMMA InstanceSteps ==
  ASSUME TypeOK, Terminate \/ Terminated \/ (\E k \in Key : Decide(k) \/ Preview(k)) \/ Snapshot
                 \/ UNCHANGED vars
  PROVE  UNCHANGED <<wall, mono, slots, state, loaded, commit, call, acked, since>>
BY DEF Terminate, Terminated, Decide, Preview, Snapshot, store, history, vars
----------------------------------------------------------------------------
(* Every document stays bounded.                                            *)

(* The capacities hold after a step that leaves only documents within them. *)
LEMMA LimitFrame ==
  ASSUME wall' = wall, Bounded(state'), Bounded(loaded'), Bounded(acked'),
         \A slot \in {"primary", "backup"} : slots'[slot] # NoSlot => Bounded(slots'[slot]),
         \A c \in Caller : /\ Bounded(commit'[c].previous) /\ Bounded(commit'[c].candidate)
                           /\ IsFiniteSet(call'[c].req.targets)
  PROVE  LimitInv'
BY DEF LimitInv, Bounded

(* The documents that are there from the start are bounded.                 *)
LEMMA EmptyBounded ==
  ASSUME wall \in Nat
  PROVE  /\ Bounded(EmptyDocument)
         /\ Bounded(NoCommit.previous) /\ Bounded(NoCommit.candidate)
         /\ IsFiniteSet(IdleCall.req.targets)
<1>1. \A s \in Scope : EmptyDocument.reports[s].expires = 0
  BY DEF EmptyDocument, NoReport
<1>2. ReportsBounded(EmptyDocument, wall)
  BY <1>1, LimitAssumption DEF ReportsBounded
<1>3. IsFiniteSet(IdleCall.req.targets)
  BY FS_EmptySet DEF IdleCall, NoRequest
<1> QED
  BY <1>2, <1>3, EmptyCapped DEF Bounded, NoCommit

(* Pruning keeps a document bounded.                                        *)
LEMMA PruneBounded ==
  ASSUME wall \in Nat, NEW doc \in Document, Bounded(doc)
  PROVE  Bounded(Prune(doc, wall))
BY PruneCapped, PruneReports DEF Bounded

(* They hold at the start.                                                  *)
LEMMA LimitInit == Init => LimitInv
<1> SUFFICES ASSUME Init PROVE LimitInv
  OBVIOUS
<1>1. /\ wall = 0 /\ state = EmptyDocument /\ loaded = EmptyDocument /\ acked = EmptyDocument
      /\ \A slot \in {"primary", "backup"} : slots[slot] = NoSlot
      /\ \A c \in Caller : commit[c] = NoCommit /\ call[c] = IdleCall
  BY DEF Init
<1> QED
  BY <1>1, EmptyBounded DEF LimitInv

(* They survive time.                                                       *)
LEMMA TickKeepsLimits == ASSUME Inv, LimitInv, Tick PROVE LimitInv'
<1>1. wall \in Nat /\ wall' \in Nat /\ wall <= wall'
  BY DEF Tick, Inv, TypeOK
<1>2. UNCHANGED <<slots, state, loaded, commit, call, acked>>
  BY DEF Tick, store, memory, history
<1>3. ASSUME NEW doc \in Document, Bounded(doc) PROVE Capped(doc) /\ ReportsBounded(doc, wall')
  BY <1>1, <1>3, ReportsLater DEF Bounded
<1>4. /\ state \in Document /\ acked \in Document /\ loaded \in Document
      /\ \A c \in Caller : commit[c].previous \in Document /\ commit[c].candidate \in Document
      /\ \A slot \in {"primary", "backup"} : slots[slot] # NoSlot => slots[slot] \in Document
  BY DEF Inv, TypeOK, CommitRecord
<1> QED
  BY <1>2, <1>3, <1>4 DEF LimitInv, Bounded

(* They survive a boot and a crash.                                         *)
LEMMA BootKeepsLimits ==
  ASSUME Inv, LimitInv, Load \/ BootBackup \/ BootPrimary \/ Crash
  PROVE  LimitInv'
<1>1. wall' = wall /\ wall \in Nat
  BY DEF Load, BootBackup, BootPrimary, Crash, Inv, TypeOK
<1>2. TypeOK
  BY DEF Inv
<1>3. CASE Load
  <2>1. PICK primaryError \in BOOLEAN, backupError \in BOOLEAN :
          \/ loaded' = EmptyDocument
          \/ \E doc \in Select(primaryError, backupError) : loaded' = Prune(doc, wall)
    BY <1>3 DEF Load
  <2>2. \A doc \in Select(primaryError, backupError) : doc \in Document /\ Bounded(doc)
    BY <1>1, <1>2, EmptyDocumentType, EmptyBounded DEF Select, Readable, LimitInv, TypeOK
  <2>3. Bounded(loaded')
    BY <1>1, <2>1, <2>2, EmptyBounded, PruneBounded
  <2>4. FreshMemory /\ UNCHANGED <<slots, acked>>
    BY <1>3 DEF Load, store
  <2> QED
    BY <1>1, <2>3, <2>4, FreshSteps, EmptyBounded, LimitFrame DEF LimitInv
<1>4. CASE BootBackup \/ BootPrimary
  <2>1. \A slot \in {"primary", "backup"} : slots'[slot] \in {slots[slot], loaded}
    <3>1. PICK slot \in {"primary", "backup"} : \E put \in PutResults(slot, loaded) : Put(slot, put)
      BY <1>4 DEF BootBackup, BootPrimary
    <3>2. PICK put \in PutResults(slot, loaded) : Put(slot, put)
      BY <3>1
    <3>3. put.content \in {slots[slot], loaded}
      BY DEF PutResults
    <3> QED
      BY <1>2, <3>2, <3>3 DEF Put, TypeOK
  <2>2. /\ state' \in {state, loaded} /\ acked' \in {acked, loaded}
        /\ UNCHANGED <<loaded, commit, call>>
    BY <1>4 DEF BootBackup, BootPrimary, history
  <2> QED
    BY <1>1, <2>1, <2>2, LimitFrame DEF LimitInv
<1>5. CASE Crash
  <2>1. FreshMemory /\ loaded' = EmptyDocument /\ UNCHANGED <<slots, acked>>
    BY <1>5 DEF Crash, store
  <2> QED
    BY <1>1, <2>1, FreshSteps, EmptyBounded, LimitFrame DEF LimitInv
<1> QED
  BY <1>3, <1>4, <1>5

(* They survive every step of a caller.                                     *)
LEMMA CallerKeepsLimits ==
  ASSUME Inv, LimitInv, NEW c \in Caller, CallerStep(c)
  PROVE  LimitInv'
<1>1. TypeOK /\ wall \in Nat
  BY DEF Inv, TypeOK
<1>2. CASE \/ \E req \in Requests : Call(c, req)
           \/ \E s \in Scope : StartTurn(c, s)
           \/ EndTurn(c) \/ Refuse(c) \/ Reply(c)
  <2>1. /\ UNCHANGED <<wall, slots, state, loaded, commit, acked>>
        /\ \A d \in Caller \ {c} : call'[d] = call[d]
        /\ IsFiniteSet(call[c].req.targets) => IsFiniteSet(call'[c].req.targets)
    BY <1>1, <1>2, QuietSteps
  <2> QED
    BY <2>1, LimitFrame DEF LimitInv
<1>3. CASE Acquire(c)
  <2>1. PICK result : result = Apply(state, call[c].req, wall)
    OBVIOUS
  <2>2. /\ commit'[c].previous = Prune(state, wall)
        /\ commit'[c].candidate = Prune(result.doc, wall)
        /\ call'[c].req = call[c].req
        /\ \A d \in Caller \ {c} : call'[d] = call[d] /\ commit'[d] = commit[d]
        /\ ~Rejected(state, call[c].req, wall)
        /\ UNCHANGED <<wall, slots, state, loaded, acked>>
    BY <1>1, <1>3, <2>1, AcquireSteps
  <2>3. call[c].req \in Request /\ state \in Document /\ IsFiniteSet(call[c].req.targets)
    BY <1>1 DEF TypeOK, CallRecord, LimitInv
  <2>4. result.doc \in Document
    BY <1>1, <2>1, <2>3, ApplyType
  <2>5. Bounded(state)
    BY DEF LimitInv
  <2>6. Bounded(result.doc)
    BY <1>1, <2>1, <2>2, <2>3, <2>5, ApplyCapped, ApplyReports DEF Bounded
  <2>7. Bounded(commit'[c].previous) /\ Bounded(commit'[c].candidate)
    BY <1>1, <2>2, <2>3, <2>4, <2>5, <2>6, PruneBounded
  <2> QED
    BY <2>2, <2>7, LimitFrame DEF LimitInv
<1>4. CASE PutBackup(c) \/ PutPrimary(c)
  <2>1. /\ UNCHANGED <<wall, loaded, acked>>
        /\ \A slot \in {"primary", "backup"} :
             slots'[slot] \in {slots[slot], commit[c].previous, commit[c].candidate}
        /\ \/ /\ UNCHANGED <<state, commit>> /\ call'[c].req = call[c].req
              /\ \A d \in Caller \ {c} : call'[d] = call[d]
           \/ \E put : CommitFails(c, put)
    BY <1>1, <1>4, PutSteps
  <2>2. CASE /\ UNCHANGED <<state, commit>> /\ call'[c].req = call[c].req
             /\ \A d \in Caller \ {c} : call'[d] = call[d]
    BY <2>1, <2>2, LimitFrame DEF LimitInv
  <2>3. CASE \E put : CommitFails(c, put)
    <3>1. /\ commit'[c] = NoCommit /\ call'[c].req = call[c].req
          /\ \A d \in Caller \ {c} : call'[d] = call[d] /\ commit'[d] = commit[d]
          /\ state' \in {state, commit[c].candidate}
      BY <1>1, <2>3, FailSteps
    <3> QED
      BY <1>1, <2>1, <3>1, EmptyBounded, LimitFrame DEF LimitInv
  <2> QED
    BY <2>1, <2>2, <2>3
<1>5. CASE AcknowledgeCommit(c)
  <2>1. /\ state' = Prune(commit[c].candidate, wall) /\ acked' = state'
        /\ commit'[c] = NoCommit /\ call'[c].req = call[c].req
        /\ \A d \in Caller \ {c} : call'[d] = call[d] /\ commit'[d] = commit[d]
        /\ UNCHANGED <<wall, slots, loaded>>
    BY <1>1, <1>5, AcknowledgeSteps
  <2>2. commit[c].candidate \in Document /\ Bounded(commit[c].candidate)
    BY <1>1 DEF TypeOK, CommitRecord, LimitInv
  <2>3. Bounded(state')
    BY <1>1, <2>1, <2>2, PruneBounded
  <2> QED
    BY <1>1, <2>1, <2>3, EmptyBounded, LimitFrame DEF LimitInv
<1>6. CASE Cancel(c)
  <2>1. /\ UNCHANGED <<wall, slots, state, loaded, acked>>
        /\ call'[c] = IdleCall /\ commit'[c] \in {commit[c], NoCommit}
        /\ \A d \in Caller \ {c} : call'[d] = call[d] /\ commit'[d] = commit[d]
    BY <1>1, <1>6, CancelSteps
  <2> QED
    BY <1>1, <2>1, EmptyBounded, LimitFrame DEF LimitInv
<1> QED
  BY <1>2, <1>3, <1>4, <1>5, <1>6 DEF CallerStep

(* They survive every step.                                                 *)
LEMMA LimitNext == ASSUME Inv, LimitInv, [Next]_vars PROVE LimitInv'
<1>1. CASE Tick
  BY <1>1, TickKeepsLimits
<1>2. CASE Load \/ BootBackup \/ BootPrimary \/ Crash
  BY <1>2, BootKeepsLimits
<1>3. ASSUME NEW c \in Caller, CallerStep(c) PROVE LimitInv'
  BY <1>3, CallerKeepsLimits
<1>4. CASE Terminate \/ Terminated \/ (\E k \in Key : Decide(k) \/ Preview(k)) \/ Snapshot
           \/ UNCHANGED vars
  <2>1. UNCHANGED <<wall, slots, state, loaded, commit, call, acked>>
    BY <1>4, InstanceSteps DEF Inv
  <2> QED
    BY <2>1, LimitFrame DEF LimitInv
<1> QED
  BY <1>1, <1>2, <1>3, <1>4 DEF Next
----------------------------------------------------------------------------
(* Every commit serves its request.                                         *)

(* In the empty document no rate outlives its activation.                   *)
LEMMA EmptyClamped == Clamped(EmptyDocument)
BY DEF Clamped, EmptyDocument, NoLease

(* At the start no commit is under way.                                     *)
LEMMA PurposeInit == Init => PurposeInv
<1> SUFFICES ASSUME Init PROVE PurposeInv
  OBVIOUS
<1>1. state = EmptyDocument /\ loaded = EmptyDocument
  BY DEF Init
<1>2. \A c \in Caller : ~Committing(c)
  BY DEF Init, IdleCall, Committing
<1> QED
  BY <1>1, <1>2, EmptyClamped DEF PurposeInv

(* With no task in a commit only the snapshots matter.                      *)
LEMMA PurposeIdle ==
  ASSUME \A c \in Caller : ~Committing(c)', Clamped(state'), Clamped(loaded')
  PROVE  PurposeInv'
BY DEF PurposeInv, Clamped

(* A step that leaves the commits alone.                                    *)
LEMMA PurposeFrame ==
  ASSUME PurposeInv, UNCHANGED <<wall, state, loaded>>,
         \A c \in Caller : Committing(c)' =>
           Committing(c) /\ call'[c].req = call[c].req /\ commit'[c] = commit[c]
  PROVE  PurposeInv'
BY DEF PurposeInv

(* What a commit is about survives time.                                    *)
LEMMA TickKeepsPurpose == ASSUME Inv, PurposeInv, Tick PROVE PurposeInv'
<1>1. wall \in Nat /\ wall' \in Nat /\ wall <= wall'
  BY DEF Tick, Inv, TypeOK
<1>2. UNCHANGED <<state, loaded, commit, call>>
  BY DEF Tick, memory
<1>3. ASSUME NEW c \in Caller, Committing(c)
      PROVE  Purpose(state, call[c].req, commit[c], wall')
  <2>1. Purpose(state, call[c].req, commit[c], wall)
    BY <1>3 DEF PurposeInv
  <2>2. state \in Document /\ commit[c].candidate \in Document
    BY DEF Inv, TypeOK, CommitRecord
  <2> QED
    BY <1>1, <2>1, <2>2, PurposeLater
<1> QED
  BY <1>2, <1>3 DEF PurposeInv, Committing

(* It survives every step of a caller.                                      *)
LEMMA CallerKeepsPurpose ==
  ASSUME Inv, LimitInv, PurposeInv, NEW c \in Caller, CallerStep(c)
  PROVE  PurposeInv'
<1>1. TypeOK /\ wall \in Nat
  BY DEF Inv, TypeOK
<1>2. CASE \/ \E req \in Requests : Call(c, req)
           \/ \E s \in Scope : StartTurn(c, s)
           \/ EndTurn(c) \/ Refuse(c) \/ Reply(c)
  <2>1. /\ UNCHANGED <<wall, state, loaded, commit>> /\ ~Committing(c)'
        /\ \A d \in Caller \ {c} : call'[d] = call[d]
    BY <1>1, <1>2, QuietSteps
  <2>2. \A d \in Caller : Committing(d)' =>
          Committing(d) /\ call'[d].req = call[d].req /\ commit'[d] = commit[d]
    BY <2>1 DEF Committing
  <2> QED
    BY <2>1, <2>2, PurposeFrame
<1>3. CASE Acquire(c)
  <2>1. PICK result : result = Apply(state, call[c].req, wall)
    OBVIOUS
  <2>2. /\ commit'[c].candidate = Prune(result.doc, wall)
        /\ commit'[c].changed = result.changed /\ commit'[c].reset = result.reset
        /\ call'[c].req = call[c].req
        /\ \A d \in Caller \ {c} : call'[d] = call[d] /\ commit'[d] = commit[d]
        /\ ~Rejected(state, call[c].req, wall)
        /\ UNCHANGED <<wall, state, loaded>>
    BY <1>1, <1>3, <2>1, AcquireSteps
  <2>3. call[c].req \in Request /\ state \in Document
    BY <1>1 DEF TypeOK, CallRecord
  <2>4. ReportsBounded(state, wall) /\ Clamped(state)
    BY DEF LimitInv, PurposeInv, Bounded
  <2>5. Purpose(state, call[c].req, commit'[c], wall)
    BY <1>1, <2>1, <2>2, <2>3, <2>4, PurposeHolds
  <2>6. \A d \in Caller \ {c} : Committing(d)' => Committing(d)
    BY <2>2 DEF Committing
  <2> QED
    BY <2>2, <2>5, <2>6 DEF PurposeInv
<1>4. CASE PutBackup(c) \/ PutPrimary(c)
  <2>1. /\ UNCHANGED <<wall, loaded>> /\ Committing(c)
        /\ \/ /\ UNCHANGED <<state, commit>> /\ call'[c].req = call[c].req
              /\ \A d \in Caller \ {c} : call'[d] = call[d]
           \/ \E put : CommitFails(c, put)
    BY <1>1, <1>4, PutSteps
  <2>2. CASE /\ UNCHANGED <<state, commit>> /\ call'[c].req = call[c].req
             /\ \A d \in Caller \ {c} : call'[d] = call[d]
    <3>1. \A d \in Caller : Committing(d)' =>
            Committing(d) /\ call'[d].req = call[d].req /\ commit'[d] = commit[d]
      BY <2>1, <2>2 DEF Committing
    <3> QED
      BY <2>1, <2>2, <3>1, PurposeFrame
  <2>3. CASE \E put : CommitFails(c, put)
    <3>1. /\ call'[c].step = "replied"
          /\ \A d \in Caller \ {c} : call'[d] = call[d]
          /\ state' \in {state, commit[c].candidate}
      BY <1>1, <2>3, FailSteps
    <3>2. \A d \in Caller : ~Committing(d)'
      BY <2>1, <3>1, AloneInCommit DEF Committing
    <3>3. Clamped(commit[c].candidate) /\ Clamped(state) /\ Clamped(loaded)
      BY <2>1 DEF PurposeInv, Purpose
    <3> QED
      BY <2>1, <3>1, <3>2, <3>3, PurposeIdle
  <2> QED
    BY <2>1, <2>2, <2>3
<1>5. CASE AcknowledgeCommit(c)
  <2>1. /\ Committing(c) /\ call'[c].step = "replied"
        /\ state' = Prune(commit[c].candidate, wall)
        /\ \A d \in Caller \ {c} : call'[d] = call[d]
        /\ UNCHANGED loaded
    BY <1>1, <1>5, AcknowledgeSteps
  <2>2. \A d \in Caller : ~Committing(d)'
    BY <2>1, AloneInCommit DEF Committing
  <2>3. Clamped(state')
    BY <1>1, <2>1, PrunedClamped, AloneInCommit
  <2> QED
    BY <2>1, <2>2, <2>3, PurposeIdle DEF PurposeInv
<1>6. CASE Cancel(c)
  <2>1. /\ UNCHANGED <<wall, state, loaded>> /\ call'[c] = IdleCall
        /\ \A d \in Caller \ {c} : call'[d] = call[d] /\ commit'[d] = commit[d]
    BY <1>1, <1>6, CancelSteps
  <2>2. \A d \in Caller : Committing(d)' =>
          Committing(d) /\ call'[d].req = call[d].req /\ commit'[d] = commit[d]
    BY <2>1 DEF Committing, IdleCall
  <2> QED
    BY <2>1, <2>2, PurposeFrame
<1> QED
  BY <1>2, <1>3, <1>4, <1>5, <1>6 DEF CallerStep

(* It survives every step.                                                  *)
LEMMA PurposeNext == ASSUME Inv, LimitInv, PurposeInv, [Next]_vars PROVE PurposeInv'
<1>1. CASE Tick
  BY <1>1, TickKeepsPurpose
<1>2. CASE Load
  <2>1. FreshMemory
    BY <1>2 DEF Load
  <2>2. PICK primaryError \in BOOLEAN, backupError \in BOOLEAN :
          \/ loaded' = EmptyDocument
          \/ \E doc \in Select(primaryError, backupError) : loaded' = Prune(doc, wall)
    BY <1>2 DEF Load
  <2>3. \A doc \in Select(primaryError, backupError) : doc \in Document
    BY EmptyDocumentType DEF Select, Readable, Inv, TypeOK
  <2>4. Clamped(loaded')
    BY <2>2, <2>3, PrunedClamped, EmptyClamped DEF Inv, TypeOK
  <2>5. \A c \in Caller : ~Committing(c)'
    BY <2>1, FreshSteps DEF Committing, IdleCall
  <2> QED
    BY <2>1, <2>4, <2>5, FreshSteps, EmptyClamped, PurposeIdle
<1>3. CASE Crash
  <2>1. FreshMemory /\ loaded' = EmptyDocument
    BY <1>3 DEF Crash
  <2>2. \A c \in Caller : ~Committing(c)'
    BY <2>1, FreshSteps DEF Committing, IdleCall
  <2> QED
    BY <2>1, <2>2, FreshSteps, EmptyClamped, PurposeIdle
<1>4. CASE BootBackup \/ BootPrimary
  <2>1. \A c \in Caller : ~Committing(c)
    BY <1>4, AloneInCommit DEF BootBackup, BootPrimary
  <2>2. state' \in {state, loaded} /\ UNCHANGED <<loaded, call>>
    BY <1>4 DEF BootBackup, BootPrimary
  <2>3. \A c \in Caller : ~Committing(c)'
    BY <2>1, <2>2 DEF Committing
  <2> QED
    BY <2>2, <2>3, PurposeIdle DEF PurposeInv
<1>5. ASSUME NEW c \in Caller, CallerStep(c) PROVE PurposeInv'
  BY <1>5, CallerKeepsPurpose
<1>6. CASE Terminate \/ Terminated \/ (\E k \in Key : Decide(k) \/ Preview(k)) \/ Snapshot
           \/ UNCHANGED vars
  <2>1. UNCHANGED <<wall, state, loaded, commit, call>>
    BY <1>6, InstanceSteps DEF Inv
  <2> QED
    BY <2>1, PurposeFrame DEF Committing
<1> QED
  BY <1>1, <1>2, <1>3, <1>4, <1>5, <1>6 DEF Next
----------------------------------------------------------------------------
(* The counters hold what was admitted.                                     *)

(* At the start nothing was admitted.                                       *)
LEMMA WindowInit == Init => WindowInv
<1> SUFFICES ASSUME Init PROVE WindowInv
  OBVIOUS
<1>1. /\ ~ready /\ phase = "down"
      /\ \A k \in Key : usage[k] = {} /\ grants[k] = {}
  BY DEF Init
<1>2. \A k \in Key : Admitted(k) = {}
  BY <1>1 DEF Admitted
<1> QED
  BY <1>1, <1>2, FS_EmptySet DEF WindowInv, WithinWindow

(* Where nothing was admitted there is nothing to count.                    *)
LEMMA WindowEmpty ==
  ASSUME \A k \in Key : grants'[k] = {} /\ IsFiniteSet(usage'[k])
  PROVE  WindowInv'
<1>1. \A k \in Key : Admitted(k)' = {}
  BY DEF Admitted
<1>2. \A k \in Key : WithinWindow(Admitted(k))'
  BY <1>1 DEF WithinWindow
<1> QED
  BY <1>1, <1>2 DEF WindowInv

(* A step that admits nothing, makes no rate lease live and forgets no      *)
(* recent admission under a live one.                                       *)
LEMMA WindowFrame ==
  ASSUME TypeOK, WindowInv, mono' = mono, spent'["decisions"] = spent["decisions"],
         UNCHANGED <<grants, since>>,
         phase' \in {"boot_backup", "boot_primary"} => phase \in {"boot_backup", "boot_primary"},
         \A k \in Key :
           /\ IsFiniteSet(usage'[k])
           /\ ready' /\ RateAlive(state', k, wall') =>
                /\ ready /\ RateAlive(state, k, wall)
                /\ \A e \in usage[k] : e.at > mono - RateWindow => e \in usage'[k]
  PROVE  WindowInv'
<1>1. \A k \in Key : Admitted(k)' = Admitted(k)
  BY DEF Admitted
<1>2. \A k \in Key : WithinWindow(Admitted(k))'
  BY <1>1 DEF WindowInv, WithinWindow
<1>3. \A k \in Key : (ready /\ RateAlive(state, k, wall))' =>
        \A e \in Admitted(k)' : e.at > mono' - RateWindow => e \in usage'[k]
  BY <1>1 DEF WindowInv, RateAlive, ActivationAlive
<1>4. phase' \in {"boot_backup", "boot_primary"} => \A k \in Key : grants'[k] = {}
  BY DEF WindowInv
<1> QED
  BY <1>2, <1>3, <1>4 DEF WindowInv

(* Time only takes events out of a window.                                  *)
LEMMA TickKeepsWindow == ASSUME Inv, WindowInv, Tick PROVE WindowInv'
<1>1. /\ wall \in Nat /\ wall' \in Nat /\ wall <= wall' /\ mono \in Nat /\ mono' = mono + 1
  BY DEF Tick, Inv, TypeOK
<1>2. UNCHANGED <<phase, ready, state, usage, spent, grants, since>>
  BY DEF Tick, memory, history
<1>3. \A k \in Key : Admitted(k)' = Admitted(k)
  BY <1>2 DEF Admitted
<1>4. \A k \in Key : WithinWindow(Admitted(k))'
  BY <1>3 DEF WindowInv, WithinWindow
<1>5. ASSUME NEW k \in Key PROVE \A e \in grants[k] : e.at \in Nat
  BY DEF Inv, TypeOK, Event
<1>6. ASSUME NEW k \in Key, NEW e \in grants'[k]
      PROVE  e.at <= mono' /\ e.no < spent'.decisions
  <2>1. e \in grants[k] /\ e.at \in Nat /\ e.at <= mono /\ e.no < spent.decisions
    BY <1>2, <1>5, <1>6 DEF WindowInv
  <2> QED
    BY <1>1, <1>2, <2>1
<1>7. ASSUME NEW k \in Key, ready', RateAlive(state', k, wall'),
             NEW e \in Admitted(k)', e.at > mono' - RateWindow
      PROVE  e \in usage'[k]
  <2>1. state \in Document
    BY DEF Inv, TypeOK
  <2>2. ready /\ RateAlive(state, k, wall)
    BY <1>1, <1>2, <1>7, <2>1, RowTypes DEF RateAlive, ActivationAlive
  <2>3. e \in Admitted(k) /\ e.at \in Nat
    BY <1>3, <1>5, <1>7 DEF Admitted
  <2>4. e.at > mono - RateWindow
    BY <1>1, <1>7, <2>3, ServiceAssumption
  <2> QED
    BY <1>2, <2>2, <2>3, <2>4 DEF WindowInv
<1>8. \A k \in Key : (ready /\ RateAlive(state, k, wall))' =>
        \A e \in Admitted(k)' : e.at > mono' - RateWindow => e \in usage'[k]
  BY <1>7 DEF RateAlive, ActivationAlive
<1>9. \A k \in Key : IsFiniteSet(usage'[k])
  BY <1>2 DEF WindowInv
<1>10. phase' \in {"boot_backup", "boot_primary"} => \A k \in Key : grants'[k] = {}
  BY <1>2 DEF WindowInv
<1> QED
  BY <1>4, <1>6, <1>8, <1>9, <1>10 DEF WindowInv

(* An acknowledgement resets the counters of what it renews or lifts, and   *)
(* brings no other rate lease to life.                                      *)
LEMMA AcknowledgeKeepsWindow ==
  ASSUME Inv, PurposeInv, WindowInv, NEW c \in Caller, AcknowledgeCommit(c)
  PROVE  WindowInv'
<1> DEFINE new == commit[c].candidate
<1>1. /\ Committing(c) /\ state' = Prune(new, wall)
      /\ ClearUsage(commit[c].reset)
      /\ \A k \in Key :
           /\ since'[k] = IF k \in commit[c].reset THEN spent.decisions ELSE since[k]
           /\ grants'[k] = {} \/ grants'[k] = grants[k]
      /\ UNCHANGED <<wall, mono, phase, ready, spent>>
  BY AcknowledgeSteps DEF Inv
<1>2. /\ wall \in Nat /\ state \in Document /\ new \in Document
      /\ \A k \in Key : \A e \in grants[k] : e.at \in Nat /\ e.no \in Nat
      /\ spent.decisions \in Nat
  BY DEF Inv, TypeOK, CommitRecord, Event, BoundNames
<1>3. \A k \in Key \ commit[c].reset :
        new.activations[k] <= state.activations[k] /\ new.rates[k] <= state.rates[k]
  BY <1>1 DEF PurposeInv, Purpose
<1>4. ASSUME NEW k \in Key
      PROVE  /\ Admitted(k)' = {} \/ (k \notin commit[c].reset /\ Admitted(k)' = Admitted(k))
             /\ \A e \in grants'[k] : e \in grants[k]
  <2>1. CASE grants'[k] = {}
    BY <2>1 DEF Admitted
  <2>2. CASE grants'[k] = grants[k] /\ k \in commit[c].reset
    <3>1. \A e \in grants[k] : e.no < spent.decisions
      BY DEF WindowInv
    <3> QED
      BY <1>1, <1>2, <2>2, <3>1 DEF Admitted
  <2>3. CASE grants'[k] = grants[k] /\ k \notin commit[c].reset
    BY <1>1, <2>3 DEF Admitted
  <2> QED
    BY <1>1, <2>1, <2>2, <2>3
<1>5. \A k \in Key : usage'[k] = IF k \in commit[c].reset THEN {} ELSE usage[k]
  BY <1>1 DEF ClearUsage
<1>6. \A k \in Key : IsFiniteSet(usage'[k])
  BY <1>5, FS_EmptySet DEF WindowInv
<1>7. \A k \in Key : WithinWindow(Admitted(k))'
  BY <1>4 DEF WindowInv, WithinWindow
<1>8. ASSUME NEW k \in Key, ready', RateAlive(state', k, wall'),
             NEW e \in Admitted(k)', e.at > mono' - RateWindow
      PROVE  e \in usage'[k]
  <2>1. k \notin commit[c].reset /\ e \in Admitted(k)
    BY <1>4, <1>8
  <2>2. RateAlive(state, k, wall)
    <3>1. state'.activations[k] > wall /\ state'.rates[k] > wall
      BY <1>1, <1>8 DEF RateAlive, ActivationAlive
    <3>2. new.activations[k] > wall /\ new.rates[k] > wall
      BY <1>1, <1>2, <3>1, PruneRows DEF NoLease
    <3> QED
      BY <1>2, <1>3, <2>1, <3>2, RowTypes DEF RateAlive, ActivationAlive
  <2> QED
    BY <1>1, <1>5, <1>8, <2>1, <2>2 DEF WindowInv
<1>9. \A k \in Key : (ready /\ RateAlive(state, k, wall))' =>
        \A e \in Admitted(k)' : e.at > mono' - RateWindow => e \in usage'[k]
  BY <1>8 DEF RateAlive, ActivationAlive
<1>10. \A k \in Key : \A e \in grants'[k] : e.at <= mono' /\ e.no < spent'.decisions
  BY <1>1, <1>4 DEF WindowInv
<1>11. phase' \in {"boot_backup", "boot_primary"} => \A k \in Key : grants'[k] = {}
  BY <1>1, AloneInCommit
<1> QED
  BY <1>6, <1>7, <1>9, <1>10, <1>11 DEF WindowInv

(* The windows survive every step of a caller.                              *)
LEMMA CallerKeepsWindow ==
  ASSUME Inv, PurposeInv, WindowInv, NEW c \in Caller, CallerStep(c)
  PROVE  WindowInv'
<1>1. TypeOK /\ \A k \in Key : IsFiniteSet(usage[k])
  BY DEF Inv, WindowInv
<1>2. CASE \/ \E req \in Requests : Call(c, req)
           \/ \E s \in Scope : StartTurn(c, s)
           \/ EndTurn(c) \/ Refuse(c) \/ Reply(c)
  BY <1>1, <1>2, QuietSteps, WindowFrame
<1>3. CASE Acquire(c)
  <2>1. UNCHANGED <<wall, mono, phase, ready, state, usage, grants, since, spent>>
    BY <1>1, <1>3, AcquireSteps
  <2> QED
    BY <1>1, <2>1, WindowFrame
<1>4. CASE PutBackup(c) \/ PutPrimary(c)
  <2>1. /\ UNCHANGED <<wall, mono, phase, grants, since>>
        /\ spent'["decisions"] = spent["decisions"]
        /\ UNCHANGED <<ready, state, usage>> \/ \E put : CommitFails(c, put)
    BY <1>1, <1>4, PutSteps
  <2>2. CASE UNCHANGED <<ready, state, usage>>
    BY <1>1, <2>1, <2>2, WindowFrame
  <2>3. CASE \E put : CommitFails(c, put)
    <3>1. \/ UNCHANGED <<state, usage>> /\ (ready' => ready)
          \/ ~ready' /\ ClearUsage(commit[c].reset)
      BY <1>1, <2>3, FailSteps
    <3>2. CASE UNCHANGED <<state, usage>> /\ (ready' => ready)
      BY <1>1, <2>1, <3>2, WindowFrame
    <3>3. CASE ~ready' /\ ClearUsage(commit[c].reset)
      <4>1. \A k \in Key : IsFiniteSet(usage'[k])
        BY <1>1, <3>3, FS_EmptySet DEF ClearUsage
      <4> QED
        BY <1>1, <2>1, <3>3, <4>1, WindowFrame
    <3> QED
      BY <3>1, <3>2, <3>3
  <2> QED
    BY <2>1, <2>2, <2>3
<1>5. CASE AcknowledgeCommit(c)
  BY <1>5, AcknowledgeKeepsWindow
<1>6. CASE Cancel(c)
  BY <1>1, <1>6, CancelSteps, WindowFrame
<1> QED
  BY <1>2, <1>3, <1>4, <1>5, <1>6 DEF CallerStep

(* A decision admits only what the window has room for.                     *)
LEMMA DecideKeepsWindow ==
  ASSUME Inv, WindowInv, NEW k \in Key, Decide(k)
  PROVE  WindowInv'
<1> DEFINE recent == Recent(usage[k], mono)
           event  == [at |-> mono, no |-> spent.decisions]
<1>1. /\ ready /\ UNCHANGED <<wall, mono, phase, ready, state, since>>
      /\ spent.decisions \in Nat /\ spent'.decisions = spent.decisions + 1
      /\ mono \in Nat /\ RateWindow \in Nat /\ RateWindow > 0
      /\ RateMaximum \in Nat /\ RateMaximum > 0
  BY ServiceAssumption DEF Decide, Spend, Inv, TypeOK, BoundNames
<1>2. \A j \in Key : \A e \in grants[j] : e.at \in Nat /\ e.no \in Nat /\ e.at <= mono
                                           /\ e.no < spent.decisions
  BY DEF Inv, TypeOK, Event, WindowInv
<1>3. \A j \in Key \ {k} : usage'[j] = usage[j] /\ grants'[j] = grants[j]
  BY DEF Decide, Inv, TypeOK
<1>4. \/ /\ usage'[k] = {} /\ grants'[k] = {}
      \/ /\ RateAlive(state, k, wall)
         /\ usage'[k] = recent /\ grants'[k] = grants[k]
      \/ /\ RateAlive(state, k, wall)
         /\ ~(Cardinality(recent) >= RateMaximum)
         /\ usage'[k] = recent \cup {event} /\ grants'[k] = grants[k] \cup {event}
  BY DEF Decide, Inv, TypeOK
<1>5. recent = {e \in usage[k] : e.at > mono - RateWindow}
  BY DEF Recent
<1>6. event.at = mono /\ event.no = spent.decisions
  OBVIOUS
<1>7. IsFiniteSet(usage[k])
  BY DEF WindowInv
<1> HIDE DEF event
<1>8. IsFiniteSet(recent) /\ Cardinality(recent) \in Nat
  <2>1. IsFiniteSet(recent)
    BY <1>5, <1>7, FS_Subset
  <2> QED
    BY <2>1, FS_CardinalityType
<1> HIDE DEF recent
<1>9. IsFiniteSet(usage'[k])
  <2>1. IsFiniteSet(recent \cup {event})
    BY <1>8, FS_AddElement
  <2> QED
    BY <1>4, <1>8, <2>1, FS_EmptySet
<1>10. \A j \in Key : \A e \in grants'[j] : e.at <= mono' /\ e.no < spent'.decisions
  <2>1. \A j \in Key : \A e \in grants'[j] : e \in grants[j] \/ e = event
    BY <1>3, <1>4
  <2> QED
    BY <1>1, <1>2, <1>6, <2>1
<1>11. \A j \in Key \ {k} : Admitted(j)' = Admitted(j)
  BY <1>1, <1>3 DEF Admitted
<1>12. \A e \in Admitted(k) : RateAlive(state, k, wall) /\ e.at > mono - RateWindow => e \in recent
  BY <1>1, <1>5 DEF WindowInv
<1>13. /\ \/ Admitted(k)' = {}
          \/ RateAlive(state, k, wall) /\ usage'[k] = recent /\ Admitted(k)' = Admitted(k)
          \/ /\ RateAlive(state, k, wall) /\ Cardinality(recent) < RateMaximum
             /\ usage'[k] = recent \cup {event}
             /\ Admitted(k)' \subseteq Admitted(k) \cup {event}
             /\ Admitted(k) \subseteq Admitted(k)'
  <2>1. CASE grants'[k] = {}
    BY <2>1 DEF Admitted
  <2>2. CASE grants'[k] = grants[k] /\ RateAlive(state, k, wall) /\ usage'[k] = recent
    BY <1>1, <2>2 DEF Admitted
  <2>3. CASE /\ RateAlive(state, k, wall)
             /\ ~(Cardinality(recent) >= RateMaximum)
             /\ usage'[k] = recent \cup {event} /\ grants'[k] = grants[k] \cup {event}
    <3>1. Cardinality(recent) < RateMaximum
      BY <1>1, <1>8, <2>3
    <3>2. Admitted(k)' \subseteq Admitted(k) \cup {event} /\ Admitted(k) \subseteq Admitted(k)'
      BY <1>1, <2>3 DEF Admitted
    <3> QED
      BY <2>3, <3>1, <3>2
  <2> QED
    BY <1>4, <2>1, <2>2, <2>3
<1>14. \A e \in Admitted(k)' : e.at > mono - RateWindow => e \in usage'[k]
  BY <1>12, <1>13
<1>15. WithinWindow(Admitted(k))'
  <2>1. CASE Admitted(k)' = {}
    BY <2>1 DEF WithinWindow
  <2>2. CASE Admitted(k)' = Admitted(k)
    BY <2>2 DEF WindowInv, WithinWindow
  <2>3. CASE /\ RateAlive(state, k, wall) /\ Cardinality(recent) < RateMaximum
             /\ Admitted(k)' \subseteq Admitted(k) \cup {event}
             /\ Admitted(k) \subseteq Admitted(k)'
    <3> DEFINE all == Admitted(k)'
    <3>1. ASSUME NEW last \in all
          PROVE  Cardinality({e \in all : e.at <= last.at /\ e.at > last.at - RateWindow})
                   <= RateMaximum
      <4> DEFINE within == {e \in all : e.at <= last.at /\ e.at > last.at - RateWindow}
      <4>1. \A e \in all : e = event \/ (e \in Admitted(k) /\ e \in grants[k])
        BY <2>3 DEF Admitted
      <4>2. last.at \in Nat /\ last.at <= mono
        BY <1>1, <1>2, <1>6, <4>1
      <4>3. CASE last.at = mono
        <5>1. within \subseteq recent \cup {event}
          BY <1>12, <2>3, <4>1, <4>3
        <5>2. IsFiniteSet(recent \cup {event})
              /\ Cardinality(recent \cup {event}) <= Cardinality(recent) + 1
              /\ Cardinality(recent \cup {event}) \in Nat
          <6>1. /\ IsFiniteSet(recent \cup {event})
                /\ \/ Cardinality(recent \cup {event}) = Cardinality(recent)
                   \/ Cardinality(recent \cup {event}) = Cardinality(recent) + 1
            BY <1>8, FS_AddElement
          <6> QED
            BY <1>8, <6>1, FS_CardinalityType
        <5>3. Cardinality(within) <= Cardinality(recent \cup {event}) /\ Cardinality(within) \in Nat
          <6>1. IsFiniteSet(within) /\ Cardinality(within) <= Cardinality(recent \cup {event})
            BY <5>1, <5>2, FS_Subset
          <6> QED
            BY <6>1, FS_CardinalityType
        <5> HIDE DEF within, all
        <5>4. Cardinality(within) <= RateMaximum
          BY <1>1, <1>8, <2>3, <5>2, <5>3
        <5> QED
          BY <5>4 DEF within
      <4>4. CASE last.at < mono
        <5>1. last # event
          BY <1>1, <1>6, <4>2, <4>4
        <5>2. last \in Admitted(k)
          BY <4>1, <5>1
        <5>3. within = {e \in Admitted(k) : e.at <= last.at /\ e.at > last.at - RateWindow}
          <6>1. \A e \in all : e.at <= last.at => e \in Admitted(k)
            BY <1>1, <1>6, <4>1, <4>2, <4>4
          <6> QED
            BY <2>3, <6>1
        <5>4. Cardinality({e \in Admitted(k) : e.at <= last.at /\ e.at > last.at - RateWindow})
                <= RateMaximum
          BY <5>2 DEF WindowInv, WithinWindow
        <5> QED
          BY <5>3, <5>4
      <4> QED
        BY <1>1, <4>2, <4>3, <4>4
    <3> QED
      BY <3>1 DEF WithinWindow
  <2> QED
    BY <1>13, <2>1, <2>2, <2>3
<1>16. \A j \in Key : IsFiniteSet(usage'[j])
  BY <1>3, <1>9 DEF WindowInv
<1>17. \A j \in Key : WithinWindow(Admitted(j))'
  BY <1>11, <1>15 DEF WindowInv, WithinWindow
<1>18. \A j \in Key : (ready /\ RateAlive(state, j, wall))' =>
         \A e \in Admitted(j)' : e.at > mono' - RateWindow => e \in usage'[j]
  <2> TAKE j \in Key
  <2>1. CASE j = k
    BY <1>1, <1>14, <2>1
  <2>2. CASE j # k
    BY <1>1, <1>3, <1>11, <2>2 DEF WindowInv, RateAlive, ActivationAlive
  <2> QED
    BY <2>1, <2>2
<1>19. phase' \in {"boot_backup", "boot_primary"} => \A j \in Key : grants'[j] = {}
  BY <1>1 DEF Inv, LockInv
<1> QED
  BY <1>10, <1>16, <1>17, <1>18, <1>19 DEF WindowInv

(* A read forgets only what is out of the window or without a rate lease.   *)
LEMMA SnapshotKeepsWindow == ASSUME Inv, PurposeInv, WindowInv, Snapshot PROVE WindowInv'
<1>1. /\ usage' = Counts(Prune(state, wall))
      /\ UNCHANGED <<wall, mono, phase, ready, state, spent, grants, since>>
  BY DEF Snapshot, history
<1>2. TypeOK /\ wall \in Nat /\ state \in Document
  BY DEF Inv, TypeOK
<1>3. ASSUME NEW k \in Key
      PROVE  /\ IsFiniteSet(usage'[k])
             /\ RateAlive(state, k, wall) =>
                  \A e \in usage[k] : e.at > mono - RateWindow => e \in usage'[k]
  <2>1. usage'[k] = IF Prune(state, wall).rates[k] = NoLease THEN {} ELSE Recent(usage[k], mono)
    BY <1>1 DEF Counts
  <2>2. IsFiniteSet(usage[k]) /\ usage'[k] \in SUBSET usage[k]
    BY <2>1 DEF WindowInv, Recent
  <2>3. IsFiniteSet(usage'[k])
    BY <2>2, FS_Subset
  <2>4. RateAlive(state, k, wall) => Prune(state, wall).rates[k] # NoLease
    <3>1. state.rates[k] <= state.activations[k]
      BY DEF PurposeInv, Clamped
    <3> QED
      BY <1>2, <3>1, PruneRows, RowTypes DEF RateAlive, ActivationAlive, NoLease
  <2> QED
    BY <2>1, <2>3, <2>4 DEF Recent
<1> QED
  BY <1>1, <1>2, <1>3, WindowFrame

(* They survive every step.                                                 *)
LEMMA WindowNext == ASSUME Inv, PurposeInv, WindowInv, [Next]_vars PROVE WindowInv'
<1>1. TypeOK /\ \A k \in Key : IsFiniteSet(usage[k])
  BY DEF Inv, WindowInv
<1>2. CASE Tick
  BY <1>2, TickKeepsWindow
<1>3. CASE Load \/ Crash
  <2>1. FreshMemory
    BY <1>3 DEF Load, Crash
  <2> QED
    BY <2>1, FreshSteps, FS_EmptySet, WindowEmpty
<1>4. CASE BootBackup \/ BootPrimary
  <2>1. /\ phase \in {"boot_backup", "boot_primary"} /\ UNCHANGED <<usage, grants>>
    BY <1>4 DEF BootBackup, BootPrimary, history
  <2>2. \A k \in Key : grants'[k] = {} /\ IsFiniteSet(usage'[k])
    BY <1>1, <2>1 DEF WindowInv
  <2> QED
    BY <2>2, WindowEmpty
<1>5. CASE Terminate \/ Terminated
  <2>1. /\ UNCHANGED <<mono, spent, grants, since>> /\ ~ready'
        /\ phase' \notin {"boot_backup", "boot_primary"}
    BY <1>5 DEF Terminate, Terminated, history, Inv, LockInv
  <2>2. \A k \in Key : IsFiniteSet(usage'[k])
    BY <1>1, <1>5, FS_EmptySet DEF Terminate, Terminated
  <2> QED
    BY <1>1, <2>1, <2>2, WindowFrame
<1>6. ASSUME NEW c \in Caller, CallerStep(c) PROVE WindowInv'
  BY <1>6, CallerKeepsWindow
<1>7. ASSUME NEW k \in Key, Decide(k) PROVE WindowInv'
  BY <1>7, DecideKeepsWindow
<1>8. ASSUME NEW k \in Key, Preview(k) PROVE WindowInv'
  <2>1. /\ ~RateAlive(state, k, wall)
        /\ UNCHANGED <<wall, mono, phase, ready, state, spent, grants, since>>
        /\ \A j \in Key : usage'[j] = IF j = k THEN {} ELSE usage[j]
    BY <1>1, <1>8 DEF Preview, history, TypeOK
  <2>2. \A j \in Key : IsFiniteSet(usage'[j])
    BY <1>1, <2>1, FS_EmptySet
  <2> QED
    BY <1>1, <2>1, <2>2, WindowFrame
<1>9. CASE Snapshot
  BY <1>9, SnapshotKeepsWindow
<1>10. CASE UNCHANGED vars
  BY <1>1, <1>10, WindowFrame DEF vars
<1> QED
  BY <1>2, <1>3, <1>4, <1>5, <1>6, <1>7, <1>8, <1>9, <1>10 DEF Next

(* The three hold in every reachable state.                                 *)
LEMMA LimitInvariant == Spec => [](Inv /\ LimitInv /\ PurposeInv /\ WindowInv)
<1>1. Init => Inv /\ LimitInv /\ PurposeInv /\ WindowInv
  BY InvInit, LimitInit, PurposeInit, WindowInit
<1>2. Inv /\ LimitInv /\ PurposeInv /\ WindowInv /\ [Next]_vars
        => (Inv /\ LimitInv /\ PurposeInv /\ WindowInv)'
  BY InvNext, LimitNext, PurposeNext, WindowNext
<1> QED
  BY <1>1, <1>2, PTL DEF Spec

(* However callers race for the lock, the capacities hold in what is        *)
(* acknowledged.                                                            *)
THEOREM CapacityHolds == Spec => []CapacityRespected
<1>1. LimitInv => CapacityRespected
  BY DEF LimitInv, Bounded, Capped, CapacityRespected
<1> QED
  BY <1>1, LimitInvariant, PTL

(* Between two resets of its counter, a rate lease admits at most its       *)
(* maximum in any window of time.                                           *)
THEOREM WindowHolds == Spec => []WindowRespected
<1>1. WindowInv => WindowRespected
  BY DEF WindowInv, Admitted, WindowRespected
<1> QED
  BY <1>1, LimitInvariant, PTL
----------------------------------------------------------------------------
(* What a caller is told, and what its commit may change.                   *)

(* A caller is answered by the acknowledgement of its commit, or by one of  *)
(* the two puts that did not succeed.                                       *)
LEMMA Answers ==
  ASSUME TypeOK, Next, NEW c \in Caller, call[c].step # "replied", call'[c].step = "replied"
  PROVE  \/ AcknowledgeCommit(c)
         \/ /\ call[c].step \in {"backup", "primary"} /\ wall' = wall
            /\ \E put : CommitFails(c, put)
<1>1. CASE Tick \/ Load \/ BootBackup \/ BootPrimary \/ Crash
  <2>1. CASE Tick \/ BootBackup \/ BootPrimary
    <3>1. call' = call
      BY <2>1 DEF Tick, BootBackup, BootPrimary, memory
    <3> QED
      BY <3>1
  <2>2. CASE Load \/ Crash
    <3>1. call'[c] = IdleCall
      BY <2>2, FreshSteps DEF Load, Crash
    <3> QED
      BY <3>1 DEF IdleCall
  <2> QED
    BY <1>1, <2>1, <2>2
<1>2. CASE Terminate \/ Terminated \/ (\E k \in Key : Decide(k) \/ Preview(k)) \/ Snapshot
  BY <1>2, InstanceSteps
<1>3. ASSUME NEW d \in Caller, CallerStep(d)
      PROVE  \/ AcknowledgeCommit(c)
             \/ /\ call[c].step \in {"backup", "primary"} /\ wall' = wall
                /\ \E put : CommitFails(c, put)
  <2>1. CASE \/ \E req \in Requests : Call(d, req)
             \/ \E s \in Scope : StartTurn(d, s)
             \/ EndTurn(d) \/ Refuse(d) \/ Reply(d)
    BY <2>1, QuietSteps
  <2>2. CASE Acquire(d)
    BY <2>2, AcquireSteps
  <2>3. CASE PutBackup(d) \/ PutPrimary(d)
    <3>1. /\ wall' = wall /\ call[d].step \in {"backup", "primary"}
          /\ \/ /\ call'[d].step \in {"primary", "acking"}
                /\ \A e \in Caller \ {d} : call'[e] = call[e]
             \/ \E put : CommitFails(d, put)
      BY <2>3, PutSteps DEF PutBackup, PutPrimary
    <3>2. CASE d = c
      BY <3>1, <3>2
    <3>3. CASE d # c
      BY <3>1, <3>3, FailSteps
    <3> QED
      BY <3>2, <3>3
  <2>4. CASE AcknowledgeCommit(d)
    BY <2>4, AcknowledgeSteps
  <2>5. CASE Cancel(d)
    BY <2>5, CancelSteps DEF IdleCall
  <2> QED
    BY <1>3, <2>1, <2>2, <2>3, <2>4, <2>5 DEF CallerStep
<1> QED
  BY <1>1, <1>2, <1>3 DEF Next

(* The running snapshot of an instance moves by an acknowledgement, or by a *)
(* restore that could not be stored.                                        *)
LEMMA SnapshotMoves ==
  ASSUME Inv, Next, state' # state, phase' = phase
  PROVE  \/ \E c \in Caller : AcknowledgeCommit(c)
         \/ \E c \in Caller :
              /\ Committing(c) /\ call[c].req.op = "restore"
              /\ state' = commit[c].candidate /\ wall' = wall /\ ~ready'
<1>1. TypeOK
  BY DEF Inv
<1>2. ~Tick
  BY DEF Tick, memory
<1>3. ~(Load \/ BootBackup \/ BootPrimary \/ Crash)
  BY DEF Load, BootBackup, BootPrimary, Crash
<1>4. ~(Terminate \/ Terminated \/ (\E k \in Key : Decide(k) \/ Preview(k)) \/ Snapshot)
  BY <1>1, InstanceSteps
<1>5. PICK c \in Caller : CallerStep(c)
  BY <1>2, <1>3, <1>4 DEF Next
<1>6. PutBackup(c) \/ PutPrimary(c) \/ AcknowledgeCommit(c)
  BY <1>1, <1>5, QuietSteps, AcquireSteps, CancelSteps DEF CallerStep
<1>7. CASE PutBackup(c) \/ PutPrimary(c)
  <2>1. Committing(c) /\ wall' = wall /\ \E put : CommitFails(c, put)
    BY <1>1, <1>7, PutSteps
  <2> QED
    BY <1>1, <2>1, FailSteps
<1> QED
  BY <1>6, <1>7

(* What the snapshot is after an acknowledgement, row by row.               *)
LEMMA Acknowledged ==
  ASSUME Inv, PurposeInv, NEW c \in Caller, AcknowledgeCommit(c)
  PROVE  LET new == commit[c].candidate
         IN  /\ Purpose(state, call[c].req, commit[c], wall)
             /\ wall' = wall /\ wall \in Nat /\ call[c].step = "acking"
             /\ \A k \in Key :
                  /\ state.activations[k] \in Nat /\ state.rates[k] \in Nat
                  /\ new.activations[k] \in Nat /\ new.rates[k] \in Nat
                  /\ new.rates[k] <= new.activations[k]
                  /\ state'.activations[k] = IF new.activations[k] > wall
                                             THEN new.activations[k] ELSE 0
                  /\ state'.rates[k] = IF new.rates[k] > wall THEN new.rates[k] ELSE 0
             /\ \A s \in Scope :
                  /\ state.reports[s].expires \in Nat /\ new.reports[s].expires \in Nat
                  /\ state'.reports[s] = IF new.reports[s].expires > wall
                                         THEN new.reports[s] ELSE NoReport
<1>1. /\ call[c].step = "acking" /\ Committing(c) /\ wall' = wall
      /\ state' = Prune(commit[c].candidate, wall)
  BY AcknowledgeSteps DEF Inv
<1>2. wall \in Nat /\ state \in Document /\ commit[c].candidate \in Document
  BY DEF Inv, TypeOK, CommitRecord
<1>3. Purpose(state, call[c].req, commit[c], wall)
  BY <1>1 DEF PurposeInv
<1>4. \A k \in Key : commit[c].candidate.rates[k] <= commit[c].candidate.activations[k]
  BY <1>3 DEF Purpose, Clamped
<1> QED
  BY <1>1, <1>2, <1>3, <1>4, RowTypes, PruneRows DEF NoLease

(* A restore after an agent error silences its scope, stored or not.        *)
THEOREM RestoreSilences == Spec => RestoreSilencesScope
<1>1. Inv /\ PurposeInv /\ [Next]_vars =>
        \A c \in Caller :
          /\ call[c].req.op = "restore"
          /\ \E step \in {"backup", "primary", "acking"} : Finishes(c, step)
          => \A k \in InScope(call[c].req.scope) :
               ~(ready' /\ ActivationAlive(state', k, wall'))
  <2> SUFFICES ASSUME Inv, PurposeInv, [Next]_vars, NEW c \in Caller,
                      call[c].req.op = "restore",
                      \E step \in {"backup", "primary", "acking"} : Finishes(c, step),
                      NEW k \in InScope(call[c].req.scope), ready',
                      ActivationAlive(state', k, wall')
               PROVE  FALSE
    OBVIOUS
  <2>1. call[c].step # "replied" /\ call'[c].step = "replied"
    BY DEF Finishes
  <2>2. Next
    BY <2>1 DEF vars
  <2>3. CASE AcknowledgeCommit(c)
    <3>1. k \in Key /\ Touches(call[c].req, k)
      BY DEF InScope, Touches
    <3>2. commit[c].candidate.activations[k] = 0
      BY <2>3, <3>1, Acknowledged DEF Purpose, NoLease
    <3> QED
      BY <2>3, <3>1, <3>2, Acknowledged DEF ActivationAlive
  <2>4. CASE \E put : CommitFails(c, put)
    BY <2>4, FailSteps DEF Inv
  <2> QED
    BY <2>1, <2>2, <2>3, <2>4, Answers DEF Inv
<1> QED
  BY <1>1, LimitInvariant, PTL DEF Spec, RestoreSilencesScope

(* What a receipt says is so at the instant it is given.                    *)
THEOREM ReceiptsAreTrueWhenGiven == Spec => ReceiptIsTrue
<1>1. Inv /\ PurposeInv /\ [Next]_vars =>
        \A c \in Caller :
          /\ call[c].step # "replied" /\ call'[c].step = "replied"
          => LET receipt == call'[c]
                 op      == receipt.req.op
             IN  CASE receipt.outcome = "ok" ->
                        /\ op \in {"enable", "renew"} =>
                             \A k \in receipt.applied : ActivationAlive(state', k, wall')
                        /\ op = "set_rate" =>
                             \A k \in receipt.applied : RateAlive(state', k, wall')
                        /\ op = "disable" =>
                             \A k \in Named(receipt.req) : ~ActivationAlive(state', k, wall')
                   [] receipt.outcome = "storage_write_failed" ->
                        IF op = "restore" THEN ~ready' ELSE state' = state
                   [] receipt.outcome = "commit_indeterminate" -> ~ready'
  <2> SUFFICES ASSUME Inv, PurposeInv, [Next]_vars, NEW c \in Caller,
                      call[c].step # "replied", call'[c].step = "replied"
               PROVE  LET receipt == call'[c]
                          op      == receipt.req.op
                      IN  CASE receipt.outcome = "ok" ->
                                 /\ op \in {"enable", "renew"} =>
                                      \A k \in receipt.applied : ActivationAlive(state', k, wall')
                                 /\ op = "set_rate" =>
                                      \A k \in receipt.applied : RateAlive(state', k, wall')
                                 /\ op = "disable" =>
                                      \A k \in Named(receipt.req) :
                                        ~ActivationAlive(state', k, wall')
                            [] receipt.outcome = "storage_write_failed" ->
                                 IF op = "restore" THEN ~ready' ELSE state' = state
                            [] receipt.outcome = "commit_indeterminate" -> ~ready'
    OBVIOUS
  <2>1. Next
    BY DEF vars
  <2>2. CASE AcknowledgeCommit(c)
    <3> DEFINE req == call[c].req
               new == commit[c].candidate
    <3>1. /\ call'[c].req = req /\ call'[c].outcome = "ok"
          /\ call'[c].applied = EffectiveRows(new, req, commit[c].changed, wall)
      BY <2>2, AcknowledgeSteps DEF Inv
    <3>2. /\ Purpose(state, req, commit[c], wall) /\ wall' = wall /\ wall \in Nat
          /\ \A k \in Key :
               /\ new.activations[k] \in Nat /\ new.rates[k] \in Nat
               /\ new.rates[k] <= new.activations[k]
               /\ state'.activations[k] = IF new.activations[k] > wall
                                          THEN new.activations[k] ELSE 0
               /\ state'.rates[k] = IF new.rates[k] > wall THEN new.rates[k] ELSE 0
      BY <2>2, Acknowledged
    <3>3. ASSUME req.op \in {"enable", "renew"}, NEW k \in call'[c].applied
          PROVE  ActivationAlive(state', k, wall')
      <4>1. k \in Key /\ ~ExpiredRow(new, req, k, wall)
        BY <3>1, <3>2, <3>3 DEF EffectiveRows, Purpose
      <4> QED
        BY <3>2, <3>3, <4>1 DEF ExpiredRow, ActivationAlive
    <3>4. ASSUME req.op = "set_rate", NEW k \in call'[c].applied
          PROVE  RateAlive(state', k, wall')
      <4>1. k \in Key /\ ~ExpiredRow(new, req, k, wall)
        BY <3>1, <3>2, <3>4 DEF EffectiveRows, Purpose
      <4> QED
        BY <3>2, <3>4, <4>1 DEF ExpiredRow, ActivationAlive, RateAlive
    <3>5. ASSUME req.op = "disable", NEW k \in Named(req)
          PROVE  ~ActivationAlive(state', k, wall')
      <4>1. k \in Key /\ Touches(req, k)
        BY <3>5, NamedIs DEF Touches
      <4>2. new.activations[k] = 0
        BY <3>2, <3>5, <4>1 DEF Purpose, NoLease
      <4> QED
        BY <3>2, <4>1, <4>2 DEF ActivationAlive
    <3> QED
      BY <3>1, <3>3, <3>4, <3>5
  <2>3. CASE \E put : CommitFails(c, put)
    <3>1. PICK put : CommitFails(c, put)
      BY <2>3
    <3>2. /\ call'[c].req = call[c].req
          /\ \/ call[c].req.op # "restore" /\ state' = state
             \/ call[c].req.op = "restore"
          /\ ready' = (ready /\ put.outcome = "failed" /\ call[c].req.op # "restore")
          /\ \/ put.outcome = "failed" /\ call'[c].outcome = "storage_write_failed"
             \/ put.outcome # "failed" /\ call'[c].outcome = "commit_indeterminate"
      BY <3>1, FailSteps DEF Inv
    <3> QED
      BY <3>2
  <2> QED
    BY <2>1, <2>2, <2>3, Answers DEF Inv
<1> QED
  BY <1>1, LimitInvariant, PTL DEF Spec, ReceiptIsTrue

(* No acknowledged mutation loses an update of a lease it does not name.    *)
THEOREM NoLostUpdate == Spec => OnlyNamedKeysChange
<1>1. Inv /\ PurposeInv /\ [Next]_vars =>
        \A c \in Caller :
          Finishes(c, "acking") =>
            \A k \in Key \ Named(call[c].req) :
              \/ call[c].req.op = "restore" /\ k \in InScope(call[c].req.scope)
              \/ LET left == Prune(state, wall')
                 IN  /\ state'.activations[k] = left.activations[k]
                     /\ state'.rates[k] = left.rates[k]
  <2> SUFFICES ASSUME Inv, PurposeInv, [Next]_vars, NEW c \in Caller, Finishes(c, "acking"),
                      NEW k \in Key \ Named(call[c].req),
                      ~(call[c].req.op = "restore" /\ k \in InScope(call[c].req.scope))
               PROVE  LET left == Prune(state, wall')
                      IN  /\ state'.activations[k] = left.activations[k]
                          /\ state'.rates[k] = left.rates[k]
    OBVIOUS
  <2>1. call[c].step = "acking" /\ call'[c].step = "replied"
    BY DEF Finishes
  <2>2. Next
    BY <2>1 DEF vars
  <2>3. AcknowledgeCommit(c)
    BY <2>1, <2>2, Answers DEF Inv
  <2>4. ~Touches(call[c].req, k)
    BY DEF Touches
  <2>5. /\ SameLease(commit[c].candidate.activations[k], state.activations[k], wall)
        /\ SameLease(commit[c].candidate.rates[k], state.rates[k], wall)
    BY <2>3, <2>4, Acknowledged DEF Purpose
  <2>6. state.rates[k] <= state.activations[k]
    BY DEF PurposeInv, Clamped
  <2>7. /\ Prune(state, wall).activations[k]
             = IF state.activations[k] > wall THEN state.activations[k] ELSE 0
        /\ Prune(state, wall).rates[k]
             = IF state.rates[k] > wall THEN state.rates[k] ELSE 0
    BY <2>6 DEF Prune, PruneLeases, NoLease
  <2> QED
    BY <2>3, <2>5, <2>7, Acknowledged DEF SameLease
<1> QED
  BY <1>1, LimitInvariant, PTL DEF Spec, OnlyNamedKeysChange

(* Nothing but the ways listed lifts a rate limit in force.                 *)
THEOREM RateLimitStands == Spec => RateLimitPersists
<1>1. Inv /\ PurposeInv /\ [Next]_vars =>
        \A k \in Key :
          ready /\ ready' /\ RateAlive(state, k, wall') /\ ActivationAlive(state', k, wall')
          => \/ RateAlive(state', k, wall')
             \/ \E c \in Caller :
                  /\ Finishes(c, "acking")
                  /\ k \in Named(call[c].req)
                  /\ \/ call[c].req.op = "clear_rate"
                     \/ /\ call[c].req.op \in {"enable", "renew"}
                        /\ state'.activations[k] < state.rates[k]
                     \/ /\ call[c].req.op = "set_rate"
                        /\ commit[c].candidate.rates[k] \in 1 .. wall'
  <2> SUFFICES ASSUME Inv, PurposeInv, [Next]_vars, NEW k \in Key, ready, ready',
                      RateAlive(state, k, wall'), ActivationAlive(state', k, wall'),
                      ~RateAlive(state', k, wall')
               PROVE  \E c \in Caller :
                        /\ Finishes(c, "acking")
                        /\ k \in Named(call[c].req)
                        /\ \/ call[c].req.op = "clear_rate"
                           \/ /\ call[c].req.op \in {"enable", "renew"}
                              /\ state'.activations[k] < state.rates[k]
                           \/ /\ call[c].req.op = "set_rate"
                              /\ commit[c].candidate.rates[k] \in 1 .. wall'
    OBVIOUS
  <2>1. state' # state /\ Next
    BY DEF vars
  <2>2. phase' = phase
    <3>1. phase = "up"
      BY DEF Inv, LockInv
    <3>2. ~(Load \/ BootBackup \/ BootPrimary \/ Terminate \/ Terminated \/ Crash)
      BY <3>1 DEF Load, BootBackup, BootPrimary, Terminate, Terminated, Crash
    <3>3. ASSUME NEW c \in Caller, CallerStep(c) PROVE phase' = phase
      BY <3>3, QuietSteps, AcquireSteps, PutSteps, AcknowledgeSteps, CancelSteps
         DEF CallerStep, Inv
    <3> QED
      BY <2>1, <3>2, <3>3 DEF Next, Tick, Decide, Preview, Snapshot, memory
  <2>3. PICK c \in Caller : AcknowledgeCommit(c)
    BY <2>1, <2>2, SnapshotMoves
  <2>4. Finishes(c, "acking")
    BY <2>3, AcknowledgeSteps DEF Inv, Finishes
  <2> DEFINE req == call[c].req
             new == commit[c].candidate
  <2>5. /\ Purpose(state, req, commit[c], wall) /\ wall' = wall /\ wall \in Nat
        /\ state.activations[k] \in Nat /\ state.rates[k] \in Nat
        /\ new.activations[k] \in Nat /\ new.rates[k] \in Nat
        /\ new.rates[k] <= new.activations[k]
        /\ state'.activations[k] = IF new.activations[k] > wall THEN new.activations[k] ELSE 0
        /\ state'.rates[k] = IF new.rates[k] > wall THEN new.rates[k] ELSE 0
    BY <2>3, Acknowledged
  <2>6. state.rates[k] > wall /\ new.activations[k] > wall /\ ~(new.rates[k] > wall)
    BY <2>5 DEF RateAlive, ActivationAlive
  <2>7. ~SameLease(new.rates[k], state.rates[k], wall)
    BY <2>5, <2>6 DEF SameLease
  <2>8. Touches(req, k)
    BY <2>5, <2>7 DEF Purpose
  <2>9. req.op \notin {"disable", "restore"}
    BY <2>5, <2>6, <2>8 DEF Purpose, NoLease
  <2>10. k \in Named(req)
    BY <2>8, <2>9 DEF Touches
  <2>11. req.op \in Operation /\ req.op # "acknowledge"
    BY <2>8 DEF Touches, Inv, TypeOK, CallRecord, Request
  <2>12. req.op \in {"enable", "renew"} => state'.activations[k] < state.rates[k]
    <3>1. req.op \in {"enable", "renew"} => new.activations[k] < state.rates[k]
      BY <2>5, <2>7, <2>10 DEF Purpose
    <3> QED
      BY <2>5, <2>6, <3>1
  <2>13. req.op = "set_rate" => new.rates[k] \in 1 .. wall'
    <3>1. req.op = "set_rate" => new.rates[k] # 0
      BY <2>5, <2>10 DEF Purpose, NoLease
    <3> HIDE DEF req, new
    <3> QED
      BY <2>5, <2>6, <3>1
  <2> QED
    BY <2>4, <2>9, <2>10, <2>11, <2>12, <2>13 DEF Operation
<1> QED
  BY <1>1, LimitInvariant, PTL DEF Spec, RateLimitPersists

(* A pending report is closed by the turn that read it.                     *)
THEOREM ReportWaitsForItsReader == Spec => ReportClosedByItsReader
<1>1. Inv /\ PurposeInv /\ [Next]_vars =>
        \A s \in Scope :
          /\ phase = phase'
          /\ state.reports[s].expires > wall'
          /\ state'.reports[s] = NoReport
          => \E c \in Caller :
               /\ Finishes(c, "acking")
               /\ call[c].req.op = "acknowledge"
               /\ call[c].req.scope = s
               /\ call[c].req.id = IdOf(state.reports[s])
  <2> SUFFICES ASSUME Inv, PurposeInv, [Next]_vars, NEW s \in Scope, phase = phase',
                      state.reports[s].expires > wall', state'.reports[s] = NoReport
               PROVE  \E c \in Caller :
                        /\ Finishes(c, "acking")
                        /\ call[c].req.op = "acknowledge"
                        /\ call[c].req.scope = s
                        /\ call[c].req.id = IdOf(state.reports[s])
    OBVIOUS
  <2>1. wall' \in Nat /\ NoReport.expires = 0
    BY TypeNext DEF Inv, TypeOK, NoReport
  <2>2. state' # state
    BY <2>1
  <2>3. Next
    BY <2>2 DEF vars
  <2>4. ASSUME NEW c \in Caller, AcknowledgeCommit(c)
        PROVE  /\ Finishes(c, "acking")
               /\ call[c].req.op = "acknowledge"
               /\ call[c].req.scope = s
               /\ call[c].req.id = IdOf(state.reports[s])
    <3>1. /\ Purpose(state, call[c].req, commit[c], wall) /\ wall' = wall
          /\ state.reports[s].expires \in Nat /\ commit[c].candidate.reports[s].expires \in Nat
          /\ state'.reports[s] = IF commit[c].candidate.reports[s].expires > wall
                                 THEN commit[c].candidate.reports[s] ELSE NoReport
      BY <2>4, Acknowledged
    <3>2. ~(commit[c].candidate.reports[s].expires > wall)
      BY <2>1, <3>1
    <3>3. /\ ~(commit[c].candidate.reports[s].expires >= state.reports[s].expires)
          /\ ~(state.reports[s].expires <= wall)
      BY <2>1, <3>1, <3>2
    <3>4. Finishes(c, "acking")
      BY <2>4, AcknowledgeSteps DEF Inv, Finishes
    <3> QED
      BY <3>1, <3>3, <3>4 DEF Purpose
  <2>5. ASSUME NEW c \in Caller, Committing(c), call[c].req.op = "restore",
               state' = commit[c].candidate, wall' = wall
        PROVE  FALSE
    <3>1. Purpose(state, call[c].req, commit[c], wall)
      BY <2>5 DEF PurposeInv
    <3>2. state \in Document /\ commit[c].candidate.reports[s].expires = 0
      BY <2>1, <2>5 DEF Inv, TypeOK
    <3>3. state.reports[s].expires \in Nat
      BY <3>2, RowTypes
    <3>4. /\ ~(commit[c].candidate.reports[s].expires >= state.reports[s].expires)
          /\ ~(state.reports[s].expires <= wall)
      BY <2>1, <2>5, <3>2, <3>3
    <3> QED
      BY <2>5, <3>1, <3>4 DEF Purpose
  <2> QED
    BY <2>2, <2>3, <2>4, <2>5, SnapshotMoves
<1> QED
  BY <1>1, LimitInvariant, PTL DEF Spec, ReportClosedByItsReader
=============================================================================

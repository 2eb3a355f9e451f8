---------------------------- MODULE LeaseService ----------------------------
(***************************************************************************)
(* ActivationService (src/service.py) over the two-slot store of            *)
(* src/storage.py: the life of one plugin process and of the instances that *)
(* follow it, the serialized write-then-swap commit of every mutation, the  *)
(* evaluation of messages against the leases, and the sliding windows.      *)
(*                                                                         *)
(* A step is what one task does between two awaits.  The clocks, the tasks  *)
(* of other callers, terminate and a crash may come in at each await: after *)
(* the lifecycle check, while waiting for the mutation lock, and while a KV *)
(* put is under way.                                                        *)
(***************************************************************************)
EXTENDS LeaseDomain

CONSTANTS
  Caller,        \* tasks that mutate: tool calls, page calls, agent turns
  Requests,      \* the mutations they may ask for (a set of Request records)
  NoSlot,        \* a KV slot that was never written
  NoCaller,      \* the mutation lock is free
  RateMaximum,   \* max_activations of every rate lease
  RateWindow,    \* window_seconds of every rate lease
  WallMayStall,  \* the wall clock may be set back while the process runs
  Bound          \* how often each thing happens: see BoundAssumption

BoundNames ==
  {"clock", "calls", "turns", "faults", "cancels", "crashes", "boots", "decisions"}

ASSUME ServiceAssumption ==
  /\ Scope # {}
  /\ Requests \subseteq Request
  /\ \A req \in Requests : IsFiniteSet(req.targets)
  /\ NoSlot \notin Document
  /\ NoCaller \notin Caller
  /\ RateMaximum \in Nat \ {0}
  /\ RateWindow \in Nat \ {0}
  /\ WallMayStall \in BOOLEAN

ASSUME BoundAssumption == Bound \in [BoundNames -> Nat]

VARIABLES
  wall,     \* _effective_wall_time: never goes back within a process
  mono,     \* the monotonic clock of the sliding windows
  slots,    \* the KV store: primary and backup document
  phase,    \* where the instance is in its life
  ready,    \* storage_ready
  state,    \* _state, the running snapshot
  loaded,   \* the document initialize selected
  holder,   \* who holds _mutation_lock
  commit,   \* the locals of each task's _commit_mutation
  call,     \* the mutating tasks
  usage,    \* SlidingWindowCounters._usage
  spent,    \* how much of Bound is used
  (* history, read by no action: *)
  acked,    \* the last document a caller was told is committed
  prior,    \* the one before it
  limbo,    \* a document that reached the primary slot and was never acknowledged
  fallback, \* a boot since the last completed one selected the backup slot
  grants,   \* admissions under a rate lease, since that lease was set
  since     \* number of the first decision after the last counter reset

store == <<slots>>
memory == <<phase, ready, state, loaded, holder, commit, call, usage>>
history == <<acked, prior, limbo, fallback, grants, since>>
vars == <<wall, mono, slots, phase, ready, state, loaded, holder, commit, call,
          usage, spent, acked, prior, limbo, fallback, grants, since>>

Phase ==
  {"down", "boot_backup", "boot_primary", "up", "inert", "closing", "closed"}

(* _lifecycle_active *)
LifecycleActive == phase = "up"

Step ==
  {"idle", "turn", "queued", "backup", "primary", "acking", "replied"}

Outcome == {"none", "ok", "storage_write_failed", "commit_indeterminate"}

NoRequest ==
  [op |-> "acknowledge", scope |-> CHOOSE s \in Scope : TRUE, targets |-> {},
   duration |-> 1, id |-> NoId]

IdleCall == [step |-> "idle", req |-> NoRequest, outcome |-> "none", applied |-> {}]

NoCommit ==
  [previous |-> EmptyDocument, candidate |-> EmptyDocument, changed |-> {}, reset |-> {}]

Spend(what) ==
  /\ spent[what] < Bound[what]
  /\ spent' = [spent EXCEPT ![what] = @ + 1]

SpendIf(cond, what) == IF cond THEN Spend(what) ELSE UNCHANGED spent

Init ==
  /\ wall = 0
  /\ mono = 0
  /\ slots = [primary |-> NoSlot, backup |-> NoSlot]
  /\ phase = "down"
  /\ ready = FALSE
  /\ state = EmptyDocument
  /\ loaded = EmptyDocument
  /\ holder = NoCaller
  /\ commit = [c \in Caller |-> NoCommit]
  /\ call = [c \in Caller |-> IdleCall]
  /\ usage = [k \in Key |-> {}]
  /\ spent = [b \in BoundNames |-> 0]
  /\ acked = EmptyDocument
  /\ prior = EmptyDocument
  /\ limbo = NoSlot
  /\ fallback = FALSE
  /\ grants = [k \in Key |-> {}]
  /\ since = [k \in Key |-> 0]

----------------------------------------------------------------------------
(* Deviation: the wall clock is the host's, which may be set back.           *)
TickFollowingHost ==
  /\ mono < Bound.clock
  /\ mono' = mono + 1
  /\ \/ wall' = wall + 1
     \/ wall' = wall - 1
  /\ UNCHANGED <<store, memory, spent, history>>

(* Time.  Both clocks advance; the wall clock is frozen by the maximum that *)
(* _effective_wall_time keeps while the host's clock is behind it.          *)
Tick ==
  /\ mono < Bound.clock
  /\ mono' = mono + 1
  /\ \/ wall' = wall + 1
     \/ WallMayStall /\ UNCHANGED wall
  /\ UNCHANGED <<store, memory, spent, history>>

----------------------------------------------------------------------------
(* initialize.  Each slot is read on its own and either read may raise.     *)

Readable(slot, readError) == ~readError /\ slots[slot] # NoSlot

(* Deviation: the backup slot is tried first.                                *)
PreferBackup(primaryError, backupError) ==
  IF Readable("backup", backupError) THEN {slots.backup}
  ELSE IF Readable("primary", primaryError) THEN {slots.primary}
  ELSE IF ~primaryError /\ ~backupError THEN {EmptyDocument}
  ELSE {}

(* The document to start from, if any: the primary slot, else the backup    *)
(* slot, else nothing at all was ever stored.                               *)
Select(primaryError, backupError) ==
  IF Readable("primary", primaryError) THEN {slots.primary}
  ELSE IF Readable("backup", backupError) THEN {slots.backup}
  ELSE IF ~primaryError /\ ~backupError THEN {EmptyDocument}
  ELSE {}

(* A new instance: empty counters, no lock holder; a task of an earlier     *)
(* instance can only be told storage_unavailable.                           *)
FreshMemory ==
  /\ state' = EmptyDocument
  /\ holder' = NoCaller
  /\ commit' = [c \in Caller |-> NoCommit]
  /\ call' = [c \in Caller |-> IdleCall]
  /\ usage' = [k \in Key |-> {}]
  /\ grants' = [k \in Key |-> {}]
  /\ since' = [k \in Key |-> 0]

Load ==
  /\ phase \in {"down", "closed"}
  /\ spent.boots < Bound.boots
  /\ \E primaryError, backupError \in BOOLEAN :
       LET errors == (IF primaryError THEN 1 ELSE 0) + (IF backupError THEN 1 ELSE 0)
           chosen == Select(primaryError, backupError)
       IN  /\ spent.faults + errors <= Bound.faults
           /\ spent' = [spent EXCEPT !.boots = @ + 1, !.faults = @ + errors]
           /\ \/ /\ chosen = {}
                 /\ phase' = "inert"
                 /\ loaded' = EmptyDocument
                 /\ UNCHANGED fallback
              \/ \E doc \in chosen :
                   /\ phase' = "boot_backup"
                   /\ loaded' = Prune(doc, wall)
                   /\ fallback' = (fallback \/ primaryError)
  /\ ready' = FALSE
  /\ FreshMemory
  /\ UNCHANGED <<wall, mono, store, acked, prior, limbo>>

----------------------------------------------------------------------------
(* Deviation: a put that raised is reported as failed without a read-back.  *)
PutUnverified(slot, doc) ==
  {[outcome |-> "ok",     content |-> doc],
   [outcome |-> "failed", content |-> slots[slot]],
   [outcome |-> "failed", content |-> doc]}

(* _put_verified: a put that raised is judged by reading the slot back.     *)
(*   ok       the slot holds the document                                   *)
(*   failed   the read-back shows that it does not; documents that are equal *)
(*            here may still differ in what a lease carries beside its expiry *)
(*   unknown  the read-back raised as well: it may or may not               *)
PutResults(slot, doc) ==
  {[outcome |-> "ok",      content |-> doc],
   [outcome |-> "failed",  content |-> slots[slot]],
   [outcome |-> "unknown", content |-> slots[slot]],
   [outcome |-> "unknown", content |-> doc]}

(* What a put does to a slot, and what it costs of the bound on faults.     *)
Put(slot, put) ==
  /\ slots' = [slots EXCEPT ![slot] = put.content]
  /\ SpendIf(put.outcome # "ok", "faults")

(* initialize writes what it selected to both slots before it opens: the    *)
(* first write that fails leaves the instance inert.                        *)
BootBackup ==
  /\ phase = "boot_backup"
  /\ \E put \in PutResults("backup", loaded) :
       /\ Put("backup", put)
       /\ phase' = IF put.outcome = "ok" THEN "boot_primary" ELSE "inert"
  /\ UNCHANGED <<wall, mono, ready, state, loaded, holder, commit, call, usage, history>>

BootPrimary ==
  /\ phase = "boot_primary"
  /\ \E put \in PutResults("primary", loaded) :
       /\ Put("primary", put)
       /\ IF put.outcome = "ok"
          THEN /\ phase' = "up"
               /\ ready' = TRUE
               /\ state' = loaded
               /\ acked' = loaded
               /\ prior' = loaded
               /\ limbo' = NoSlot
               /\ fallback' = FALSE
          ELSE /\ phase' = "inert"
               /\ UNCHANGED <<ready, state, acked, prior, limbo, fallback>>
  /\ UNCHANGED <<wall, mono, loaded, holder, commit, call, usage, grants, since>>

----------------------------------------------------------------------------
(* terminate stops new mutations at once, then waits for the lock.          *)

Terminate ==
  /\ phase \in {"up", "inert"}
  /\ phase' = "closing"
  /\ ready' = FALSE
  /\ UNCHANGED <<wall, mono, store, state, loaded, holder, commit, call, usage, spent,
                 history>>

(* Deviation: terminate does not wait for the commit under way.             *)
TerminatedWithoutLock ==
  /\ phase = "closing"
  /\ phase' = "closed"
  /\ usage' = [k \in Key |-> {}]
  /\ UNCHANGED <<wall, mono, store, ready, state, loaded, holder, commit, call, spent,
                 history>>

Terminated ==
  /\ phase = "closing"
  /\ holder = NoCaller
  /\ phase' = "closed"
  /\ usage' = [k \in Key |-> {}]
  /\ UNCHANGED <<wall, mono, store, ready, state, loaded, holder, commit, call, spent,
                 history>>

(* The process dies: memory is gone, the slots are as the last put left     *)
(* them.  A candidate already put and not yet acknowledged stays there.     *)
Crash ==
  /\ phase # "down"
  /\ Spend("crashes")
  /\ phase' = "down"
  /\ ready' = FALSE
  /\ loaded' = EmptyDocument
  /\ limbo' = IF holder # NoCaller /\ call[holder].step = "acking"
              THEN commit[holder].candidate ELSE limbo
  /\ FreshMemory
  /\ UNCHANGED <<wall, mono, store, acked, prior, fallback>>

----------------------------------------------------------------------------
(* The mutations: manage_activation, manage_rate,                           *)
(* restore_native_after_agent_error and acknowledge_recovery_report, all    *)
(* through _commit_mutation.                                                *)

(* Deviation: a restore fails like any other mutation.                      *)
FailInertNever(req) == FALSE

(* fail_inert: a restore after an agent error stops the scope even when it   *)
(* cannot be stored.                                                        *)
FailInert(req) == req.op = "restore"

(* A caller passes the lifecycle check and goes for the lock.               *)
Call(c, req) ==
  /\ call[c].step = "idle"
  /\ LifecycleActive /\ ready
  /\ req.op # "acknowledge"
  /\ Spend("calls")
  /\ call' = [call EXCEPT ![c] = [IdleCall EXCEPT !.step = "queued", !.req = req]]
  /\ UNCHANGED <<wall, mono, store, phase, ready, state, loaded, holder, commit, usage,
                 history>>

(* provide_recovery_context: an agent turn starts and is shown the report   *)
(* of its scope.  It reads the running snapshot, ready or not.              *)
StartTurn(c, s) ==
  LET report == Prune(state, wall).reports[s]
  IN  /\ call[c].step = "idle"
      /\ phase \in {"up", "closing"}
      /\ report # NoReport
      /\ Spend("turns")
      /\ call' = [call EXCEPT ![c] =
                    [IdleCall EXCEPT !.step = "turn",
                       !.req = [NoRequest EXCEPT !.scope = s, !.id = IdOf(report)]]]
      /\ UNCHANGED <<wall, mono, store, phase, ready, state, loaded, holder, commit,
                     usage, history>>

(* reconcile_after_agent: the turn ended without an error and acknowledges  *)
(* what it was shown, if the service still takes mutations.                 *)
EndTurn(c) ==
  /\ call[c].step = "turn"
  /\ call' = [call EXCEPT ![c] = IF LifecycleActive /\ ready
                                 THEN [@ EXCEPT !.step = "queued"] ELSE IdleCall]
  /\ UNCHANGED <<wall, mono, store, phase, ready, state, loaded, holder, commit, usage,
                 spent, history>>

(* What is checked again under the lock; an operation that raises a         *)
(* DomainError ends the call.                                               *)
RunsOperation(c) ==
  LifecycleActive /\ ready /\ ~Rejected(state, call[c].req, wall)

(* Deviation: the operation runs without the mutation lock.                 *)
AcquireUnlocked(c) ==
  /\ call[c].step = "queued"
  /\ RunsOperation(c)
  /\ holder' = c
  /\ LET result == Apply(state, call[c].req, wall)
     IN  commit' = [commit EXCEPT ![c] =
                      [previous |-> Prune(state, wall), candidate |-> Prune(result.doc, wall),
                       changed |-> result.changed, reset |-> result.reset]]
  /\ call' = [call EXCEPT ![c].step = "backup"]
  /\ UNCHANGED <<wall, mono, store, phase, ready, state, loaded, usage, spent, history>>

(* The lock is acquired and the operation runs on the snapshot of this      *)
(* instant: both documents of the commit are fixed here.                    *)
Acquire(c) ==
  /\ call[c].step = "queued"
  /\ holder = NoCaller
  /\ RunsOperation(c)
  /\ holder' = c
  /\ LET result == Apply(state, call[c].req, wall)
     IN  commit' = [commit EXCEPT ![c] =
                      [previous |-> Prune(state, wall), candidate |-> Prune(result.doc, wall),
                       changed |-> result.changed, reset |-> result.reset]]
  /\ call' = [call EXCEPT ![c].step = "backup"]
  /\ UNCHANGED <<wall, mono, store, phase, ready, state, loaded, usage, spent, history>>

Refuse(c) ==
  /\ call[c].step = "queued"
  /\ holder = NoCaller
  /\ ~RunsOperation(c)
  /\ call' = [call EXCEPT ![c] = IdleCall]
  /\ UNCHANGED <<wall, mono, store, phase, ready, state, loaded, holder, commit, usage,
                 spent, history>>

ClearUsage(keys) == usage' = [k \in Key |-> IF k \in keys THEN {} ELSE usage[k]]

Release(c) ==
  /\ holder' = NoCaller
  /\ commit' = [commit EXCEPT ![c] = NoCommit]

FailedReply(c, put) ==
  call' = [call EXCEPT ![c].step = "replied",
                       ![c].outcome = IF put.outcome = "failed"
                                      THEN "storage_write_failed"
                                      ELSE "commit_indeterminate"]

(* Deviation: the candidate is swapped in although its write failed.        *)
CommitFailsSwapped(c, put) ==
  /\ state' = commit[c].candidate
  /\ ClearUsage(commit[c].reset)
  /\ ready' = (ready /\ put.outcome = "failed" /\ ~FailInert(call[c].req))
  /\ FailedReply(c, put)
  /\ Release(c)

(* Deviation: a failed commit keeps the lock.                               *)
CommitFailsLocked(c, put) ==
  /\ ready' = (ready /\ put.outcome = "failed")
  /\ FailedReply(c, put)
  /\ UNCHANGED <<state, usage, holder, commit>>

(* The except branches of _commit_mutation: a plain mutation that failed    *)
(* leaves the snapshot alone; a restore swaps it in anyway and stops all    *)
(* extra activation, as does any commit whose result is unknown.            *)
CommitFails(c, put) ==
  /\ IF FailInert(call[c].req)
     THEN state' = commit[c].candidate /\ ClearUsage(commit[c].reset)
     ELSE UNCHANGED <<state, usage>>
  /\ ready' = (ready /\ put.outcome = "failed" /\ ~FailInert(call[c].req))
  /\ FailedReply(c, put)
  /\ Release(c)

(* Deviation: the backup slot is not written.                               *)
PutBackupSkipped(c) ==
  /\ call[c].step = "backup"
  /\ call' = [call EXCEPT ![c].step = "primary"]
  /\ UNCHANGED <<wall, mono, store, phase, ready, state, loaded, holder, commit, usage,
                 spent, history>>

PutBackup(c) ==
  /\ call[c].step = "backup"
  /\ \E put \in PutResults("backup", commit[c].previous) :
       /\ Put("backup", put)
       /\ IF put.outcome = "ok"
          THEN /\ call' = [call EXCEPT ![c].step = "primary"]
               /\ UNCHANGED <<ready, state, holder, commit, usage>>
          ELSE CommitFails(c, put)
  /\ UNCHANGED <<wall, mono, phase, loaded, history>>

(* A put that worked resumes its task in AcknowledgeCommit.                *)
PutPrimary(c) ==
  /\ call[c].step = "primary"
  /\ \E put \in PutResults("primary", commit[c].candidate) :
       /\ Put("primary", put)
       /\ IF put.outcome = "ok"
          THEN /\ call' = [call EXCEPT ![c].step = "acking"]
               /\ UNCHANGED <<ready, state, holder, commit, usage, limbo>>
          ELSE /\ CommitFails(c, put)
               /\ limbo' = IF put.outcome = "unknown" /\ put.content = commit[c].candidate
                           THEN commit[c].candidate ELSE limbo
  /\ UNCHANGED <<wall, mono, phase, loaded, acked, prior, fallback, grants, since>>

(* Deviation: every row is reported as applied.                             *)
AllRows(doc, req, rows, now) == rows

(* Rows that expired while the commit was under way are not reported as     *)
(* applied.                                                                 *)
EffectiveRows(doc, req, rows, now) == {row \in rows : ~ExpiredRow(doc, req, row, now)}

(* The commit is acknowledged: the snapshot is replaced and the caller gets *)
(* its receipt.                                                             *)
AcknowledgeCommit(c) ==
  LET req    == call[c].req
      result == Prune(commit[c].candidate, wall)
  IN  /\ call[c].step = "acking"
      /\ state' = result
      /\ ClearUsage(commit[c].reset)
      /\ call' = [call EXCEPT ![c].step = "replied", ![c].outcome = "ok",
                    ![c].applied = EffectiveRows(commit[c].candidate, req, commit[c].changed, wall)]
      /\ Release(c)
      /\ acked' = result
      /\ prior' = acked
      /\ limbo' = NoSlot
      /\ grants' = [k \in Key |->
                      IF k \in commit[c].reset /\ req.op \notin {"enable", "renew"}
                      THEN {} ELSE grants[k]]
      /\ since' = [k \in Key |->
                     IF k \in commit[c].reset THEN spent.decisions ELSE since[k]]
      /\ UNCHANGED <<wall, mono, store, phase, ready, loaded, spent, fallback>>

(* The caller has read its receipt.                                         *)
Reply(c) ==
  /\ call[c].step = "replied"
  /\ call' = [call EXCEPT ![c] = IdleCall]
  /\ UNCHANGED <<wall, mono, store, phase, ready, state, loaded, holder, commit, usage,
                 spent, history>>

(* The host cancels the task at one of its awaits: CancelledError is not an *)
(* Exception, so no handler of _commit_mutation runs and the lock is        *)
(* released.                                                                *)
Cancel(c) ==
  /\ call[c].step \in {"queued", "backup", "primary", "acking"}
  /\ Spend("cancels")
  /\ call' = [call EXCEPT ![c] = IdleCall]
  /\ IF holder = c THEN Release(c) ELSE UNCHANGED <<holder, commit>>
  /\ limbo' = IF call[c].step = "acking" THEN commit[c].candidate ELSE limbo
  /\ UNCHANGED <<wall, mono, store, phase, ready, state, loaded, usage, acked, prior,
                 fallback, grants, since>>

----------------------------------------------------------------------------
(* Messages: _evaluate with consume = True (decide) and False (preview).    *)

(* Deviation: an admission is forgotten one instant before its window ends. *)
RecentShort(events, now) == {e \in events : e.at > (now - RateWindow) + 1}

Recent(events, now) == {e \in events : e.at > now - RateWindow}

Decide(k) ==
  /\ ready
  /\ Spend("decisions")
  /\ IF ~RateAlive(state, k, wall)
     THEN /\ usage' = [usage EXCEPT ![k] = {}]
          /\ grants' = [grants EXCEPT ![k] = {}]
     ELSE LET recent == Recent(usage[k], mono)
              event  == [at |-> mono, no |-> spent.decisions]
          IN  IF Cardinality(recent) >= RateMaximum
              THEN usage' = [usage EXCEPT ![k] = recent] /\ UNCHANGED grants
              ELSE /\ usage' = [usage EXCEPT ![k] = recent \cup {event}]
                   /\ grants' = [grants EXCEPT ![k] = @ \cup {event}]
  /\ UNCHANGED <<wall, mono, store, phase, ready, state, loaded, holder, commit, call,
                 acked, prior, limbo, fallback, since>>

(* preview consumes nothing, and forgets the window of a key without a rate *)
(* lease as decide does.                                                    *)
Preview(k) ==
  /\ ready
  /\ ~RateAlive(state, k, wall)
  /\ usage[k] # {}
  /\ usage' = [usage EXCEPT ![k] = {}]
  /\ UNCHANGED <<wall, mono, store, phase, ready, state, loaded, holder, commit, call,
                 spent, history>>

(* counts drops the windows of keys without a rate lease and the events     *)
(* that left a window.                                                      *)
Counts(clean) ==
  [k \in Key |-> IF clean.rates[k] = NoLease THEN {} ELSE Recent(usage[k], mono)]

(* snapshot, behind every list, page read and health read.                  *)
Snapshot ==
  /\ phase \in {"up", "inert", "closing", "closed"}
  /\ usage' = Counts(Prune(state, wall))
  /\ UNCHANGED <<wall, mono, store, phase, ready, state, loaded, holder, commit, call,
                 spent, history>>

----------------------------------------------------------------------------
CallerStep(c) ==
  \/ \E req \in Requests : Call(c, req)
  \/ \E s \in Scope : StartTurn(c, s)
  \/ EndTurn(c)
  \/ Acquire(c)
  \/ Refuse(c)
  \/ PutBackup(c)
  \/ PutPrimary(c)
  \/ AcknowledgeCommit(c)
  \/ Reply(c)
  \/ Cancel(c)

Next ==
  \/ Tick
  \/ Load
  \/ BootBackup
  \/ BootPrimary
  \/ Terminate
  \/ Terminated
  \/ Crash
  \/ \E c \in Caller : CallerStep(c)
  \/ \E k \in Key : Decide(k)
  \/ \E k \in Key : Preview(k)
  \/ Snapshot

Spec == Init /\ [][Next]_vars
----------------------------------------------------------------------------
(* Types.                                                                   *)

CallRecord ==
  [step: Step, req: Request, outcome: Outcome, applied: SUBSET (Key \cup Scope)]

CommitRecord ==
  [previous: Document, candidate: Document, changed: SUBSET (Key \cup Scope),
   reset: SUBSET Key]

Event == [at: Nat, no: Nat]

(* Every variable has its type.                                             *)
TypeOK ==
  /\ wall \in Nat
  /\ mono \in Nat
  /\ slots \in [{"primary", "backup"} -> Document \cup {NoSlot}]
  /\ phase \in Phase
  /\ ready \in BOOLEAN
  /\ state \in Document
  /\ loaded \in Document
  /\ holder \in Caller \cup {NoCaller}
  /\ commit \in [Caller -> CommitRecord]
  /\ call \in [Caller -> CallRecord]
  /\ usage \in [Key -> SUBSET Event]
  /\ spent \in [BoundNames -> Nat]
  /\ acked \in Document
  /\ prior \in Document
  /\ limbo \in Document \cup {NoSlot}
  /\ fallback \in BOOLEAN
  /\ grants \in [Key -> SUBSET Event]
  /\ since \in [Key -> Nat]

----------------------------------------------------------------------------
(* Safety.                                                                  *)

Contents(slot) == IF slots[slot] = NoSlot THEN EmptyDocument ELSE slots[slot]

(* Two documents that differ only in rows that have expired by now.         *)
SameNow(a, b) == Prune(a, wall) = Prune(b, wall)

InFlight == IF holder # NoCaller /\ call[holder].step = "acking"
            THEN {commit[holder].candidate} ELSE {}

Unacknowledged == (IF limbo = NoSlot THEN {} ELSE {limbo}) \cup InFlight

(* Whatever fails or dies, the primary slot holds the last acknowledged     *)
(* document, or one candidate whose put took effect and whose caller never  *)
(* heard of it; only a boot that could not read the primary slot may have   *)
(* put the predecessor of the last acknowledged document there.  A write    *)
(* that was reported as failed is never found by a later boot.              *)
PrimaryIsAccountedFor ==
  \/ SameNow(Contents("primary"), acked)
  \/ \E doc \in Unacknowledged : SameNow(Contents("primary"), doc)
  \/ fallback /\ SameNow(Contents("primary"), prior)

(* The backup slot is never older than the predecessor of the last          *)
(* acknowledged document: recovering from it loses one mutation at most.    *)
BackupIsOneBehind ==
  \E doc \in {acked, prior} \cup Unacknowledged : SameNow(Contents("backup"), doc)

(* While the service decides about messages, it decides by the last         *)
(* document a caller was told is committed: nothing uncommitted is visible. *)
ServesAcknowledged == ready => state = acked

(* However callers race for the lock, the capacities hold in what is        *)
(* acknowledged.                                                            *)
CapacityRespected ==
  /\ Cardinality(Live(acked.activations)) <= MaxTargetsTotal
  /\ \A s \in Scope :
       Cardinality(Live(acked.activations) \cap InScope(s)) <= MaxTargetsPerScope

WithinWindow(events) ==
  \A last \in events :
    Cardinality({e \in events : e.at <= last.at /\ e.at > last.at - RateWindow})
      <= RateMaximum

(* The sliding window: under one rate lease, and between two commits that   *)
(* reset its counter, at most RateMaximum messages are admitted in any      *)
(* RateWindow of monotonic time, whatever reads and previews come between.  *)
WindowRespected ==
  \A k \in Key : WithinWindow({e \in grants[k] : e.no >= since[k]})

(* The promise of manage_sender_activation_rate (main.py): while a rate     *)
(* lease stands, at most max_activations per window.  A renewal of the      *)
(* activation lease breaks it: it resets the counter of a lease it keeps.   *)
WindowNeverExceeded == \A k \in Key : WithinWindow(grants[k])

----------------------------------------------------------------------------
(* Action properties.                                                       *)

Finishes(c, step) == call[c].step = step /\ call'[c].step = "replied"

(* Once terminate has returned, the instance that was stopped writes        *)
(* neither slot.                                                            *)
NoWriteAfterTerminate ==
  [][slots' # slots => phase \in {"boot_backup", "boot_primary", "up", "closing"}]_vars

(* A restore after an agent error that reached its commit silences every    *)
(* key of the scope, also when the store fails or its answer is unknown.    *)
RestoreSilencesScope ==
  [][\A c \in Caller :
       /\ call[c].req.op = "restore"
       /\ \E step \in {"backup", "primary", "acking"} : Finishes(c, step)
       => \A k \in InScope(call[c].req.scope) :
            ~(ready' /\ ActivationAlive(state', k, wall'))]_vars

(* A receipt is true when it is given: rows it reports as applied are in    *)
(* force at that instant, a failed write left the snapshot alone, and an    *)
(* unknown one stopped all extra activation.                                *)
ReceiptIsTrue ==
  [][\A c \in Caller :
       /\ call[c].step # "replied" /\ call'[c].step = "replied"
       => LET receipt == call'[c]
              op      == receipt.req.op
          IN  CASE receipt.outcome = "ok" ->
                     /\ op \in {"enable", "renew"} =>
                          \A k \in receipt.applied : ActivationAlive(state', k, wall')
                     /\ op = "set_rate" =>
                          \A k \in receipt.applied : RateAlive(state', k, wall')
                     /\ op = "disable" =>
                          \A k \in Named(receipt.req) : ~ActivationAlive(state', k, wall')
                [] receipt.outcome = "storage_write_failed" ->
                     IF op = "restore" THEN ~ready' ELSE state' = state
                [] receipt.outcome = "commit_indeterminate" -> ~ready']_vars

(* No lost update: every lease that an acknowledged mutation does not name  *)
(* has the expiry it had in the snapshot that is replaced, unless it has    *)
(* run out by now.                                                          *)
OnlyNamedKeysChange ==
  [][\A c \in Caller :
       Finishes(c, "acking") =>
         \A k \in Key \ Named(call[c].req) :
           \/ call[c].req.op = "restore" /\ k \in InScope(call[c].req.scope)
           \/ LET left == Prune(state, wall')
              IN  /\ state'.activations[k] = left.activations[k]
                  /\ state'.rates[k] = left.rates[k]]_vars

(* A rate limit in force ends with its own expiry or with its activation    *)
(* lease, by clear_rate, or by an enable that shortens the activation lease *)
(* below it, or by a set_rate whose own limit ran out before its receipt;   *)
(* nothing else lifts it while the key stays reachable.                     *)
RateLimitPersists ==
  [][\A k \in Key :
       ready /\ ready' /\ RateAlive(state, k, wall') /\ ActivationAlive(state', k, wall')
       => \/ RateAlive(state', k, wall')
          \/ \E c \in Caller :
               /\ Finishes(c, "acking")
               /\ k \in Named(call[c].req)
               /\ \/ call[c].req.op = "clear_rate"
                  \/ /\ call[c].req.op \in {"enable", "renew"}
                     /\ state'.activations[k] < state.rates[k]
                  \/ /\ call[c].req.op = "set_rate"
                     /\ commit[c].candidate.rates[k] \in 1 .. wall']_vars

(* A recovery report disappears from the running snapshot before its expiry *)
(* only by an agent turn that was shown that very report.                   *)
ReportClosedByItsReader ==
  [][\A s \in Scope :
       /\ phase = phase'
       /\ state.reports[s].expires > wall'
       /\ state'.reports[s] = NoReport
       => \E c \in Caller :
            /\ Finishes(c, "acking")
            /\ call[c].req.op = "acknowledge"
            /\ call[c].req.scope = s
            /\ call[c].req.id = IdOf(state.reports[s])]_vars

----------------------------------------------------------------------------
(* The service implements the register: messages are judged by the running  *)
(* snapshot, which stands for the acknowledged document while the service   *)
(* is ready.                                                                *)
Register == INSTANCE LeaseRegister WITH
  acked <- IF ready THEN state ELSE acked,
  open  <- ready

(* Every step of the service is a step of the register or changes nothing   *)
(* of it: what survives a failed put, a cancelled task, a crash or a lost   *)
(* slot is what LeaseRegister allows.                                       *)
ImplementsRegister == Register!RegisterSpec

----------------------------------------------------------------------------
(* Liveness.  asyncio resumes every task whose await is over, and the KV    *)
(* calls return or raise: the steps of a task already under way are fair.   *)
(* Callers, the clocks, boots, cancellations and crashes are not.           *)
TaskFairness ==
  /\ \A c \in Caller :
       WF_vars(Acquire(c) \/ Refuse(c) \/ PutBackup(c) \/ PutPrimary(c)
               \/ AcknowledgeCommit(c) \/ Reply(c))
  /\ WF_vars(Terminated)
  /\ WF_vars(BootBackup \/ BootPrimary)

FairSpec == Spec /\ TaskFairness

(* Every mutation that went for the lock is answered.                       *)
CallsAreAnswered ==
  \A c \in Caller : call[c].step = "queued" ~> call[c].step = "idle"

(* terminate returns, whatever commits are under way.                       *)
TerminateReturns == phase = "closing" ~> phase # "closing"
=============================================================================

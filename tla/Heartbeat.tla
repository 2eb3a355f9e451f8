------------------------------ MODULE Heartbeat ------------------------------
(***************************************************************************)
(* Heartbeat leases: HeartbeatService over AstrBotCronAdapter and           *)
(* HeartbeatWakeGate (src/heartbeat_service.py, src/cron_adapter.py,        *)
(* src/heartbeat_gate.py), as main.py wires them: templates are stored      *)
(* disabled, and only the driver of a lease runs it.                        *)
(*                                                                         *)
(* A lease is four rows of the host's cron: the template, a driver that     *)
(* recurs, and two jobs that fire once the lease has expired, one of the    *)
(* gate (the guard) and one of the adapter (the cleanup).  The service runs *)
(* one operation at a time under its lock; the handlers of the jobs run     *)
(* beside it.  A call of the cron takes effect in the step that resumes its *)
(* caller.  plugin_suspended is left out: with disabled templates nothing   *)
(* but a listing reads it.                                                  *)
(***************************************************************************)
EXTENDS Integers, Sequences, FiniteSets

CONSTANTS
  Lease,       \* ids of templates, never used twice
  Scope,
  NoTemplate, NoJob, NoLease, NoScope,
  MaxJobs,     \* bound: rows of basic jobs at a time
  MaxTasks,    \* bound: handlers that run at a time
  MaxPerScope, \* limits.max_per_scope
  MaxTotal,    \* limits.max_total
  Operations,  \* the operations callers ask for
  Lengths,     \* duration_seconds
  Minute,      \* the granularity of cron, in ticks
  ForeignIds,  \* a caller may name a lease of another scope
  Bound,       \* bound: how often each kind of event may happen
  MaxTime      \* bound: the last instant of the clock

VARIABLES
  now,       \* the wall clock
  templates, \* the rows of the leases: scope and expiry
  jobs,      \* the basic jobs: drivers, guards and cleanups
  tasks,     \* the handlers that run, by their job
  sweeps,    \* the loops that list jobs and delete them, of the service and of each handler
  svc,       \* the instance of the plugin, and the _active of its service and of its gate
  call,      \* the operation that holds the lock, and its locals
  used,      \* the ids of templates given out so far
  spent,     \* the bounded events so far
  promised,  \* history: the expiry of a lease that was acknowledged, 0 if there is none
  revoked,   \* history: leases whose removal was acknowledged
  paused     \* history: leases whose driver was paused by hand and not renewed since

vars == <<now, templates, jobs, tasks, sweeps, svc, call, used, spent, promised, revoked, paused>>
history == <<promised, revoked, paused>>
service == <<svc, call, used>>

Job == 1 .. MaxJobs
Service == 0

Template == [scope: Scope, exp: Nat]

JobRecord ==
  [kind: {"driver", "guard", "cleanup"}, lease: Lease, exp: Nat, instance: Nat, enabled: BOOLEAN]

Task ==
  [step: {"idle", "checking", "preflight", "running", "deleting", "sweeping"},
   lease: Lease \cup {NoLease}, instance: Nat]

ASSUME HeartbeatAssumption ==
  /\ NoTemplate \notin Template /\ NoJob \notin JobRecord /\ NoLease \notin Lease
  /\ MaxJobs \in Nat /\ MaxTime \in Nat
  /\ Minute \in Nat \ {0}
  /\ Lengths \subseteq Nat \ {0}
  /\ Operations \subseteq {"create", "renew", "disable", "list"}
  /\ Bound \in [{"op", "boot", "mishap"} -> Nat]

Idle == [step |-> "idle", lease |-> NoLease, instance |-> 0]

(* lists are the kinds still to be listed, lease the one meant, or all.     *)
NoSweep == [lists |-> <<>>, lease |-> NoLease, todo |-> {}, missed |-> FALSE]

NoItem == [lease |-> NoLease, exp |-> 0]

(* The locals of the operation that holds the lock.                         *)
Locals ==
  [op |-> "none", step |-> "idle", scope |-> NoScope, length |-> 0, ids |-> {}, seen |-> {},
   mine |-> {}, todo |-> {}, ready |-> {}, item |-> NoItem, back |-> 0, kept |-> FALSE, made |-> 0]

Init ==
  /\ now = 0
  /\ templates = [l \in Lease |-> NoTemplate]
  /\ jobs = [j \in Job |-> NoJob]
  /\ tasks = [j \in Job |-> Idle]
  /\ sweeps = [a \in Job \cup {Service} |-> NoSweep]
  /\ svc = [instance |-> 0, loaded |-> FALSE, active |-> FALSE, gate |-> FALSE]
  /\ call = Locals
  /\ used = {}
  /\ spent = [n \in DOMAIN Bound |-> 0]
  /\ promised = [l \in Lease |-> 0] /\ revoked = {} /\ paused = {}

Spend(n) == spent[n] < Bound[n] /\ spent' = [spent EXCEPT ![n] = @ + 1]

Leases == {l \in Lease : templates[l] # NoTemplate}
Rows(kind, l) == {j \in Job : jobs[j] # NoJob /\ jobs[j].kind = kind /\ l \in {jobs[j].lease, NoLease}}
Active(i) == svc.gate /\ svc.instance = i

(* _native_minute_expiry                                                    *)
MinuteExpiry(t) == ((t + Minute - 1) \div Minute) * Minute

Tick ==
  /\ now < MaxTime
  /\ now' = now + 1
  /\ UNCHANGED <<templates, jobs, tasks, sweeps, service, spent, history>>
----------------------------------------------------------------------------
(* The calls of the cron.                                                   *)

(* delete_job of a template: it may raise, with or without effect.          *)
DeleteTemplate(l, ok) ==
  \/ /\ ok /\ templates' = [templates EXCEPT ![l] = NoTemplate]
     /\ UNCHANGED spent
  \/ /\ ~ok /\ Spend("mishap")
     /\ templates' \in {templates, [templates EXCEPT ![l] = NoTemplate]}

(* update_job of a template, likewise.                                      *)
UpdateTemplate(l, exp, ok) ==
  \/ /\ ok /\ templates' = [templates EXCEPT ![l].exp = exp]
     /\ UNCHANGED spent
  \/ /\ ~ok /\ Spend("mishap")
     /\ templates' \in {templates, [templates EXCEPT ![l].exp = exp]}

(* The id of a new job, one that nobody refers to any more.                 *)
Unused ==
  {j \in Job : /\ jobs[j] = NoJob /\ tasks[j] = Idle /\ call.made # j
               /\ \A a \in DOMAIN sweeps : j \notin sweeps[a].todo}

NewJob == CHOOSE j \in Unused : TRUE

(* add_basic_job, for the lease at hand.                                    *)
AddJob(kind, ok) ==
  LET row  == [kind |-> kind, lease |-> call.item.lease, exp |-> call.item.exp,
               instance |-> svc.instance, enabled |-> TRUE]
      with == [jobs EXCEPT ![NewJob] = row]
  IN  /\ Unused # {}
      /\ \/ ok /\ jobs' = with /\ UNCHANGED spent
         \/ ~ok /\ Spend("mishap") /\ jobs' \in {jobs, with}

(* A loop over the jobs of some kinds of a lease, or of all leases.         *)
Sweep(kinds, l) == [NoSweep EXCEPT !.lists = kinds, !.lease = l]
Disarm(l) == Sweep(<<"driver", "guard">>, l)
DeleteCleanup(l) == Sweep(<<"cleanup">>, l)

Start(a, sweep) == sweeps' = [sweeps EXCEPT ![a] = sweep]
Swept(a) == sweeps[a].lists = <<>> /\ sweeps[a].todo = {}

SweepList(a) ==
  /\ sweeps[a].lists # <<>>
  /\ sweeps' = [sweeps EXCEPT ![a].todo = @ \cup Rows(Head(sweeps[a].lists), sweeps[a].lease),
                              ![a].lists = Tail(@)]
  /\ UNCHANGED <<now, templates, jobs, tasks, service, spent, history>>

(* _delete_job_truthfully and _delete_quietly: a job that stays is missed.  *)
SweepDelete(a) ==
  /\ sweeps[a].lists = <<>>
  /\ \E j \in sweeps[a].todo :
       LET without == [jobs EXCEPT ![j] = NoJob]
       IN  \/ /\ jobs' = without
              /\ sweeps' = [sweeps EXCEPT ![a].todo = @ \ {j}]
              /\ UNCHANGED spent
           \/ /\ Spend("mishap")
              /\ jobs' \in {jobs, without}
              /\ sweeps' = [sweeps EXCEPT ![a].todo = @ \ {j}, ![a].missed = TRUE]
  /\ UNCHANGED <<now, templates, tasks, service, history>>
----------------------------------------------------------------------------
(* The handlers of the jobs.                                                *)

StartTask(j, step) ==
  tasks' = [tasks EXCEPT ![j] = [step |-> step, lease |-> jobs[j].lease,
                                 instance |-> jobs[j].instance]]

EndTask(j) == tasks' = [tasks EXCEPT ![j] = Idle]

(* The cron fires a job whose handler is in memory: a driver whenever its   *)
(* expression says so, the others at the expiry.                            *)
Fire(j) ==
  /\ jobs[j] # NoJob /\ tasks[j] = Idle
  /\ jobs[j].enabled /\ jobs[j].instance > 0
  /\ Cardinality({k \in Job : tasks[k] # Idle}) < MaxTasks
  /\ jobs[j].kind = "driver" \/ now >= jobs[j].exp
  /\ IF jobs[j].kind = "cleanup" THEN StartTask(j, "deleting") /\ UNCHANGED sweeps
     ELSE IF now < jobs[j].exp THEN StartTask(j, "checking") /\ UNCHANGED sweeps
     ELSE StartTask(j, "sweeping") /\ Start(j, Disarm(jobs[j].lease))
  /\ UNCHANGED <<now, templates, jobs, service, spent, history>>

(* Deviation: a driver without a template returns.                          *)
CheckTemplateOnly(j) ==
  /\ tasks[j].step = "checking"
  /\ IF tasks[j].lease \in Leases /\ Active(tasks[j].instance)
     THEN tasks' = [tasks EXCEPT ![j].step = "preflight"] ELSE EndTask(j)
  /\ UNCHANGED <<now, templates, jobs, sweeps, service, spent, history>>

(* _active_template_exists; then the preflight begins if the gate is active.*)
CheckTemplate(j) ==
  /\ tasks[j].step = "checking"
  /\ IF tasks[j].lease \notin Leases
     THEN /\ tasks' = [tasks EXCEPT ![j].step = "sweeping"]
          /\ Start(j, Disarm(tasks[j].lease))
     ELSE /\ IF Active(tasks[j].instance)
             THEN tasks' = [tasks EXCEPT ![j].step = "preflight"] ELSE EndTask(j)
          /\ UNCHANGED sweeps
  /\ UNCHANGED <<now, templates, jobs, service, spent, history>>

(* The session is disabled, or the preflight raises.                        *)
Suppress(j) ==
  /\ tasks[j].step = "preflight"
  /\ EndTask(j)
  /\ UNCHANGED <<now, templates, jobs, sweeps, service, spent, history>>

(* run_job_now: it wakes the agent if the template is still there.          *)
Run(j) ==
  /\ tasks[j].step = "preflight"
  /\ tasks' = [tasks EXCEPT ![j].step = "running"]
  /\ UNCHANGED <<now, templates, jobs, sweeps, service, spent, history>>

(* run_job_now returns or raises; a loop is over.                           *)
Return(j) ==
  /\ tasks[j].step = "running" \/ (tasks[j].step = "sweeping" /\ Swept(j))
  /\ EndTask(j) /\ Start(j, NoSweep)
  /\ UNCHANGED <<now, templates, jobs, service, spent, history>>

(* _expire_handler of the adapter: it deletes the template by its id.       *)
Expire(j) ==
  /\ tasks[j].step = "deleting"
  /\ \E ok \in BOOLEAN : DeleteTemplate(tasks[j].lease, ok)
  /\ tasks' = [tasks EXCEPT ![j].step = "sweeping"]
  /\ Start(j, DeleteCleanup(tasks[j].lease))
  /\ UNCHANGED <<now, jobs, service, history>>

(* list_jobs raises in a handler.                                           *)
HandlerFails(j) ==
  /\ tasks[j].step = "checking" \/ sweeps[j].lists # <<>>
  /\ Spend("mishap")
  /\ EndTask(j) /\ Start(j, NoSweep)
  /\ UNCHANGED <<now, templates, jobs, service, history>>

HandlerStep(j) ==
  \/ Fire(j) \/ CheckTemplate(j) \/ Suppress(j) \/ Run(j) \/ Return(j) \/ Expire(j)
  \/ HandlerFails(j) \/ SweepList(j) \/ SweepDelete(j)
----------------------------------------------------------------------------
(* HeartbeatService.manage.                                                 *)

Items(ids, exp) == {[lease |-> l, exp |-> exp] : l \in ids}

(* The operation has come to this step, and its loop over jobs is over.     *)
At(step) == call.step = step /\ Swept(Service)

Goto(step) == call' = [call EXCEPT !.step = step]
End == call' = Locals

Manage(op, s, ids, length) ==
  /\ call.op = "none" /\ svc.active
  /\ Spend("op")
  /\ op \in {"renew", "disable"} <=> ids # {}
  /\ ForeignIds \/ \A l \in ids \cap Leases : templates[l].scope = s
  /\ call' = [Locals EXCEPT !.op = op, !.step = "inventory", !.scope = s, !.ids = ids,
                            !.length = length]
  /\ UNCHANGED <<now, templates, jobs, tasks, sweeps, svc, used, history>>

(* _inventory; the leases that have expired are deleted one by one.         *)
Inventory ==
  LET alive == {l \in Leases : templates[l].exp > now}
  IN  /\ At("inventory") /\ call.op # "initialize"
      /\ call' = [call EXCEPT !.step = "expiring", !.seen = alive,
                              !.mine = {l \in alive : templates[l].scope = call.scope},
                              !.todo = Items(Leases \ alive, 0)]
      /\ UNCHANGED <<now, templates, jobs, tasks, sweeps, svc, used, spent, history>>

(* delete_if_expired; a delete that raises ends the operation.              *)
DeleteExpired ==
  /\ At("expiring")
  /\ \E i \in call.todo :
       IF i.lease \notin Leases
       THEN call' = [call EXCEPT !.todo = @ \ {i}] /\ UNCHANGED <<templates, sweeps, spent>>
       ELSE \E ok \in BOOLEAN :
              /\ DeleteTemplate(i.lease, ok)
              /\ IF ok THEN /\ call' = [call EXCEPT !.todo = @ \ {i}]
                            /\ Start(Service, DeleteCleanup(i.lease))
                       ELSE End /\ UNCHANGED sweeps
  /\ UNCHANGED <<now, jobs, tasks, svc, used, history>>

(* The capacity checks of create.                                           *)
Fits == Cardinality(call.mine) < MaxPerScope /\ Cardinality(call.seen) < MaxTotal

(* The operation proper begins, or is rejected.                             *)
Act ==
  LET exp  == MinuteExpiry(now + call.length)
      next == [call EXCEPT !.seen = {}, !.mine = {}, !.ids = {}]
  IN  /\ At("expiring") /\ call.todo = {}
      /\ call' = CASE call.op = "create" /\ Fits ->
                        [next EXCEPT !.step = "adding", !.item.exp = exp]
                   [] call.op = "renew" /\ call.ids \subseteq call.mine ->
                        [next EXCEPT !.step = "renewing", !.todo = Items(call.ids, exp)]
                   [] call.op = "disable" ->
                        [next EXCEPT !.step = "disarming", !.todo = Items(call.ids, 0)]
                   [] OTHER -> Locals
      /\ UNCHANGED <<now, templates, jobs, tasks, sweeps, svc, used, spent, history>>

(* The next item of the operation, or its end.                              *)
Continue ==
  call' = IF call.op = "initialize" THEN [call EXCEPT !.step = "rearming", !.made = 0]
          ELSE IF call.op = "renew" /\ call.todo # {}
          THEN [call EXCEPT !.step = "renewing", !.made = 0] ELSE Locals

(* create: add_active_job, which may raise and have stored the row.         *)
AddTemplate(l) ==
  LET with == [templates EXCEPT ![l] = [scope |-> call.scope, exp |-> call.item.exp]]
  IN  /\ At("adding") /\ l \notin used
      /\ used' = used \cup {l}
      /\ \/ /\ templates' = with
            /\ call' = [call EXCEPT !.step = "cleanup", !.item.lease = l]
            /\ UNCHANGED spent
         \/ /\ Spend("mishap")
            /\ templates' \in {templates, with}
            /\ End
      /\ UNCHANGED <<now, jobs, tasks, sweeps, svc, history>>

(* renew: update_job.  An exception leads to the old fields.                *)
Renew ==
  /\ At("renewing")
  /\ \E i \in call.todo :
       IF i.lease \notin Leases
       THEN End /\ UNCHANGED <<templates, sweeps, spent, promised, paused>>
       ELSE \E ok \in BOOLEAN :
              /\ UpdateTemplate(i.lease, i.exp, ok)
              /\ call' = [call EXCEPT !.step = IF ok THEN "cleanup" ELSE "reverting", !.item = i,
                            !.todo = @ \ {i}, !.back = templates[i.lease].exp,
                            !.kept = promised[i.lease] > 0]
              /\ IF ok THEN Start(Service, DeleteCleanup(i.lease)) ELSE UNCHANGED sweeps
              /\ promised' = [promised EXCEPT ![i.lease] = 0]
              /\ paused' = paused \ {i.lease}
  /\ UNCHANGED <<now, jobs, tasks, svc, used, revoked>>

(* _create_cleanup; after it arm begins with its disarm, if the gate is open.*)
CreateCleanup ==
  /\ At("cleanup")
  /\ \E ok \in BOOLEAN :
       /\ AddJob("cleanup", ok)
       /\ IF call.op = "revert" THEN End
          ELSE IF call.op = "initialize"
          THEN call' = [call EXCEPT !.step = "reconciling",
                                    !.ready = IF ok THEN @ \cup {call.item} ELSE @]
          ELSE Goto(IF ok THEN "arming" ELSE IF call.op = "create" THEN "withdrawing"
                    ELSE "restoring")
       /\ IF ok /\ call.op \in {"create", "renew"} /\ svc.gate
          THEN Start(Service, Disarm(call.item.lease)) ELSE UNCHANGED sweeps
  /\ UNCHANGED <<now, templates, tasks, svc, used, history>>

(* create gives up: _delete_quietly, and then _delete_cleanup.              *)
Withdraw ==
  /\ At("withdrawing")
  /\ \E ok \in BOOLEAN : DeleteTemplate(call.item.lease, ok)
  /\ Start(Service, DeleteCleanup(call.item.lease)) /\ Goto("ending")
  /\ UNCHANGED <<now, jobs, tasks, svc, used, history>>

(* renew goes back to the old fields, after a cleanup that could not be     *)
(* created with a cleanup of the old expiry.                                *)
Revert ==
  /\ At("reverting") \/ At("restoring")
  /\ IF call.item.lease \notin Leases THEN End /\ UNCHANGED <<templates, sweeps, spent>>
     ELSE \E ok \in BOOLEAN :
            /\ UpdateTemplate(call.item.lease, call.back, ok)
            /\ IF ok /\ call.step = "restoring"
               THEN /\ call' = [call EXCEPT !.op = "revert", !.step = "cleanup",
                                            !.item.exp = call.back]
                    /\ Start(Service, DeleteCleanup(call.item.lease))
               ELSE End /\ UNCHANGED sweeps
  /\ UNCHANGED <<now, jobs, tasks, svc, used, history>>

(* arm failed: create deletes its lease, renew gives up, initialize goes on.*)
ArmFailed ==
  IF call.op = "create" THEN call' = [call EXCEPT !.step = "deleting", !.made = 0]
  ELSE IF call.op = "renew" THEN End
  ELSE Continue

(* arm of a gate that never opened: initialize was aborted by a call that   *)
(* raised, and has left the service active.                                 *)
ArmRefused ==
  /\ At("arming") /\ ~svc.gate
  /\ ArmFailed
  /\ UNCHANGED <<now, templates, jobs, tasks, sweeps, svc, used, spent, history>>

(* Deviation: the driver is added before the old ones are deleted.          *)
ArmDriverFirst ==
  /\ At("arming") /\ svc.gate
  /\ AddJob("driver", TRUE)
  /\ call' = [call EXCEPT !.step = "guarding", !.made = NewJob]
  /\ Start(Service, Disarm(call.item.lease))
  /\ UNCHANGED <<now, templates, tasks, svc, used, history>>

(* The disarm of arm is over, whatever it has missed.                       *)
ArmDriver ==
  /\ At("arming") /\ svc.gate
  /\ \E ok \in BOOLEAN :
       /\ AddJob("driver", ok)
       /\ IF ok THEN call' = [call EXCEPT !.step = "guarding", !.made = NewJob] ELSE ArmFailed
  /\ UNCHANGED <<now, templates, tasks, sweeps, svc, used, history>>

(* The guard; the lease is acknowledged.  A lease that was renewed while it *)
(* expired has no promise any more: its old jobs may be under way.          *)
ArmGuard ==
  /\ At("guarding")
  /\ \E ok \in BOOLEAN :
       /\ AddJob("guard", ok)
       /\ IF ok THEN Continue ELSE Goto("disowning")
       /\ promised' = IF ok /\ (call.op = "create" \/ (call.op = "renew" /\ call.kept /\ now < call.back))
                      THEN [promised EXCEPT ![call.item.lease] = call.item.exp] ELSE promised
  /\ UNCHANGED <<now, templates, tasks, sweeps, svc, used, revoked, paused>>

(* arm undoes its driver.                                                   *)
Disown ==
  /\ At("disowning")
  /\ \/ jobs' = [jobs EXCEPT ![call.made] = NoJob] /\ UNCHANGED spent
     \/ Spend("mishap") /\ UNCHANGED jobs
  /\ ArmFailed
  /\ UNCHANGED <<now, templates, tasks, sweeps, svc, used, history>>

(* disable: disarm by the id that was given, whatever its scope.            *)
DisableNext ==
  /\ At("disarming")
  /\ \E i \in call.todo :
       LET own == i.lease \in Leases => templates[i.lease].scope = call.scope
       IN  /\ call' = [call EXCEPT !.step = "deleting", !.item = i, !.todo = @ \ {i}]
           /\ Start(Service, Disarm(i.lease))
           /\ promised' = IF own THEN [promised EXCEPT ![i.lease] = 0] ELSE promised
  /\ UNCHANGED <<now, templates, jobs, tasks, svc, used, spent, revoked, paused>>

(* Deviation: a delete that raised is taken for done.                       *)
DeleteLeaseQuietly ==
  LET l == call.item.lease
  IN  /\ At("deleting")
      /\ Goto(IF call.todo # {} THEN "disarming" ELSE "ending")
      /\ IF l \in Leases /\ templates[l].scope = call.scope
         THEN /\ \E ok \in BOOLEAN : DeleteTemplate(l, ok)
              /\ Start(Service, DeleteCleanup(l))
              /\ revoked' = revoked \cup {l}
         ELSE UNCHANGED <<templates, sweeps, spent, revoked>>
      /\ UNCHANGED <<now, jobs, tasks, svc, used, promised, paused>>

(* delete of the adapter: nothing if the lease is not one of the scope.     *)
DeleteLease ==
  LET l    == call.item.lease
      Next == Goto(IF call.todo # {} THEN "disarming" ELSE "ending")
  IN  /\ At("deleting")
      /\ IF l \in Leases /\ templates[l].scope = call.scope
         THEN \E ok \in BOOLEAN :
                /\ DeleteTemplate(l, ok)
                /\ IF ok THEN Next /\ Start(Service, DeleteCleanup(l)) ELSE End /\ UNCHANGED sweeps
                /\ revoked' = IF ok THEN revoked \cup {l} ELSE revoked
         ELSE Next /\ UNCHANGED <<templates, sweeps, spent, revoked>>
      /\ UNCHANGED <<now, jobs, tasks, svc, used, promised, paused>>

Finish ==
  /\ At("ending")
  /\ End
  /\ UNCHANGED <<now, templates, jobs, tasks, sweeps, svc, used, spent, history>>

(* The service is at a listing: of the jobs it deletes, of an inventory and *)
(* of what follows it, or of find_raw.                                      *)
Listing ==
  \/ sweeps[Service].lists # <<>>
  \/ At("inventory") \/ At("expiring") \/ At("renewing")
  \/ At("reconciling") /\ \E i \in call.todo : i.exp > call.length

(* list_jobs raises under the lock.  It is no DomainError, so initialize is *)
(* aborted and leaves the service active.                                   *)
ListFails ==
  /\ Listing
  /\ Spend("mishap")
  /\ Start(Service, NoSweep)
  /\ IF call.step = "arming" /\ call.op # "initialize" THEN ArmFailed
     ELSE IF call.step = "cleanup" /\ call.op = "renew" THEN Goto("reverting")
     ELSE End
  /\ svc' = [svc EXCEPT !.loaded = @ /\ call.op # "terminate"]
  /\ UNCHANGED <<now, templates, jobs, tasks, used, history>>
----------------------------------------------------------------------------
(* initialize and terminate.                                                *)

(* The host loads the plugin; reconcile_start deletes every cleanup.        *)
Initialize ==
  /\ call.op = "none" /\ ~svc.loaded
  /\ Spend("boot")
  /\ svc' = [instance |-> svc.instance + 1, loaded |-> TRUE, active |-> TRUE, gate |-> FALSE]
  /\ call' = [Locals EXCEPT !.op = "initialize", !.step = "inventory", !.length = now]
  /\ Start(Service, DeleteCleanup(NoLease))
  /\ UNCHANGED <<now, templates, jobs, tasks, used, history>>

InitialInventory ==
  /\ At("inventory") /\ call.op = "initialize"
  /\ call' = [call EXCEPT !.step = "reconciling",
                          !.todo = {[lease |-> l, exp |-> templates[l].exp] : l \in Leases}]
  /\ UNCHANGED <<now, templates, jobs, tasks, sweeps, svc, used, spent, history>>

(* A lease that had expired when initialize began is deleted quietly; the   *)
(* others are updated, and those that could be are rearmed later.           *)
Reconcile ==
  /\ At("reconciling")
  /\ \E i \in call.todo :
       LET left == [call EXCEPT !.todo = @ \ {i}]
       IN  IF i.exp <= call.length
           THEN /\ \E ok \in BOOLEAN : DeleteTemplate(i.lease, ok)
                /\ call' = left
           ELSE /\ \/ /\ UNCHANGED spent
                      /\ call' = IF i.lease \in Leases
                                 THEN [left EXCEPT !.step = "cleanup", !.item = i] ELSE left
                   \/ Spend("mishap") /\ call' = left
                /\ UNCHANGED templates
  /\ UNCHANGED <<now, jobs, tasks, sweeps, svc, used, history>>

(* initialize of the gate begins: every driver and guard is deleted.        *)
DeleteDrivers ==
  /\ At("reconciling") /\ call.todo = {}
  /\ Goto("opening") /\ Start(Service, Disarm(NoLease))
  /\ UNCHANGED <<now, templates, jobs, tasks, svc, used, spent, history>>

(* Deviation: the gate opens although a driver could not be deleted.        *)
OpenGateAnyway ==
  /\ At("opening")
  /\ svc' = [svc EXCEPT !.gate = TRUE]
  /\ call' = [call EXCEPT !.step = "rearming", !.todo = call.ready, !.ready = {}]
  /\ UNCHANGED <<now, templates, jobs, tasks, sweeps, used, spent, history>>

(* It stays closed, and the service inactive, if one could not be deleted.  *)
OpenGate ==
  /\ At("opening")
  /\ IF sweeps[Service].missed THEN svc' = [svc EXCEPT !.active = FALSE] /\ End
     ELSE /\ svc' = [svc EXCEPT !.gate = TRUE]
          /\ call' = [call EXCEPT !.step = "rearming", !.todo = call.ready, !.ready = {}]
  /\ UNCHANGED <<now, templates, jobs, tasks, sweeps, used, spent, history>>

Rearm ==
  /\ At("rearming")
  /\ IF call.todo = {} THEN End /\ UNCHANGED sweeps
     ELSE \E i \in call.todo :
            /\ call' = [call EXCEPT !.step = "arming", !.item = i, !.todo = @ \ {i}]
            /\ Start(Service, Disarm(i.lease))
  /\ UNCHANGED <<now, templates, jobs, tasks, svc, used, spent, history>>

(* terminate of the gate, and then suspend_for_shutdown.                    *)
Terminate ==
  /\ call.op = "none" /\ svc.loaded
  /\ svc' = [svc EXCEPT !.active = FALSE, !.gate = FALSE]
  /\ call' = [Locals EXCEPT !.op = "terminate", !.step = "suspending"]
  /\ Start(Service, Disarm(NoLease))
  /\ UNCHANGED <<now, templates, jobs, tasks, used, spent, history>>

Suspend ==
  /\ At("suspending")
  /\ Goto("closing") /\ Start(Service, DeleteCleanup(NoLease))
  /\ UNCHANGED <<now, templates, jobs, tasks, svc, used, spent, history>>

Terminated ==
  /\ At("closing")
  /\ End /\ svc' = [svc EXCEPT !.loaded = FALSE]
  /\ UNCHANGED <<now, templates, jobs, tasks, sweeps, used, spent, history>>

(* The host process dies: rows may survive it, handlers do not.             *)
Crash ==
  /\ svc.loaded
  /\ \E survivors \in SUBSET Leases :
       /\ templates' = [l \in Lease |-> IF l \in survivors THEN templates[l] ELSE NoTemplate]
       /\ promised' = [l \in Lease |-> IF l \in survivors THEN promised[l] ELSE 0]
  /\ jobs' \in {[j \in Job |-> NoJob],
                [j \in Job |-> IF jobs[j] = NoJob THEN NoJob ELSE [jobs[j] EXCEPT !.instance = 0]]}
  /\ tasks' = [j \in Job |-> Idle]
  /\ sweeps' = [a \in DOMAIN sweeps |-> NoSweep]
  /\ svc' = [svc EXCEPT !.loaded = FALSE, !.active = FALSE, !.gate = FALSE]
  /\ End
  /\ UNCHANGED <<now, used, spent, revoked, paused>>

(* Someone disables a driver on the host's cron page.                       *)
PauseByHand(j) ==
  /\ jobs[j] # NoJob /\ jobs[j].kind = "driver" /\ jobs[j].enabled /\ tasks[j] = Idle
  /\ call.op = "none" /\ Spend("mishap")
  /\ jobs' = [jobs EXCEPT ![j].enabled = FALSE]
  /\ paused' = paused \cup {jobs[j].lease}
  /\ UNCHANGED <<now, templates, tasks, sweeps, service, promised, revoked>>

ServiceStep ==
  \/ Inventory \/ DeleteExpired \/ Act \/ Renew \/ CreateCleanup \/ Withdraw \/ Revert
  \/ ArmRefused \/ ArmDriver \/ ArmGuard \/ Disown \/ DisableNext \/ DeleteLease \/ Finish \/ ListFails
  \/ InitialInventory \/ Reconcile \/ DeleteDrivers \/ OpenGate \/ Rearm \/ Suspend \/ Terminated
  \/ SweepList(Service) \/ SweepDelete(Service)
  \/ \E l \in Lease : AddTemplate(l)

Next ==
  \/ Tick
  \/ \E j \in Job : HandlerStep(j)
  \/ ServiceStep
  \/ \E op \in Operations, s \in Scope, ids \in SUBSET used, length \in Lengths :
       Manage(op, s, ids, length)
  \/ Initialize \/ Terminate \/ Crash
  \/ \E j \in Job : PauseByHand(j)

Spec == Init /\ [][Next]_vars

(* The clock goes on, the cron fires its jobs, and its calls answer.        *)
FairSpec ==
  /\ Spec
  /\ WF_vars(Tick)
  /\ WF_vars(ServiceStep)
  /\ \A j \in Job : WF_vars(HandlerStep(j))
----------------------------------------------------------------------------
(* Every variable has its type; expiries are whole minutes, so that the     *)
(* cron, which knows no seconds, fires at them and not before.              *)
TypeOK ==
  /\ now \in 0 .. MaxTime
  /\ templates \in [Lease -> Template \cup {NoTemplate}]
  /\ \A l \in Leases : templates[l].exp % Minute = 0
  /\ jobs \in [Job -> JobRecord \cup {NoJob}]
  /\ tasks \in [Job -> Task]
  /\ \A a \in DOMAIN sweeps :
       /\ sweeps[a].todo \subseteq Job
       /\ sweeps[a].lease \in Lease \cup {NoLease}
  /\ svc \in [instance: Nat, loaded: BOOLEAN, active: BOOLEAN, gate: BOOLEAN]
  /\ call.op \in {"none", "create", "renew", "disable", "list", "revert", "initialize", "terminate"}
  /\ used \subseteq Lease /\ Leases \subseteq used
  /\ promised \in [Lease -> Nat] /\ revoked \subseteq Lease /\ paused \subseteq Lease

(* The agent is woken for a lease.                                          *)
Wakes(j) ==
  /\ tasks[j].step = "preflight" /\ tasks'[j].step = "running"
  /\ tasks[j].lease \in Leases

Driven(l, exp) ==
  /\ l \in Leases /\ templates[l].exp = exp
  /\ \E j \in Rows("driver", l) : jobs[j].exp = exp /\ jobs[j].instance = svc.instance

(* A lease that was acknowledged stays until its expiry: its template is    *)
(* there and a driver of the running instance, through renewals, the expiry *)
(* jobs of its earlier terms, other leases and reloads, unless it was       *)
(* renewed at the very moment at which it expired, or a call of the cron    *)
(* raised: a start that cannot update or rearm a lease leaves it undriven.  *)
LeaseIsDriven ==
  call.op = "none" /\ svc.gate /\ spent["mishap"] = 0 =>
    \A l \in Lease : now < promised[l] => Driven(l, promised[l])

(* engineering_proposal.md: the state of every group is isolated.  While an *)
(* operation of one scope runs, the leases of others keep their drivers.    *)
ScopesAreIsolated ==
  \A l \in Leases :
    call.op = "disable" /\ templates[l].scope # call.scope /\ now < promised[l]
      => Driven(l, promised[l])

(* A lease whose removal was confirmed never wakes the agent again, also    *)
(* when its driver could not be deleted or its handler was under way.       *)
RevokedNeverWakes == [][\A j \in Job : tasks[j].lease \in revoked => ~Wakes(j)]_vars

(* capability_matrix.md: there is no second driver for a lease.             *)
OneDriverPerLease ==
  \A l \in Lease :
    Cardinality({j \in Rows("driver", l) : Active(jobs[j].instance)}) <= 1

(* capability_matrix.md: while the gate is open, no driver or guard of an    *)
(* earlier instance is left that could wake or disarm a lease a second time.*)
GateOpensClean ==
  svc.gate =>
    \A j \in Job : jobs[j] # NoJob /\ jobs[j].kind # "cleanup" => jobs[j].instance = svc.instance

(* README.md: a task that was disabled by hand is not enabled again.        *)
PausedByHandStaysPaused == [][\A j \in Job : Wakes(j) => tasks[j].lease \notin paused]_vars

(* Drivers do not outlive their lease: whatever delete fails, one whose     *)
(* template has gone removes itself in the end, unless someone paused it or *)
(* the gate is closed.                                                      *)
DriversVanish ==
  \A l \in Lease :
    Rows("driver", l) # {} /\ l \notin Leases ~>
      Rows("driver", l) = {} \/ l \in paused \/ ~svc.gate
=============================================================================

---------------------------- MODULE HeartbeatProofs ----------------------------
(***************************************************************************)
(* Proofs about Heartbeat: types, what the gate finds when it opens, what a *)
(* removed lease can still do, and that a lease is driven until its expiry. *)
(***************************************************************************)
EXTENDS Heartbeat, TLAPS

Minutes == {t \in Nat : t % Minute = 0}
Entry == [lease: Lease, exp: Minutes]

SweepType ==
  [lists: {<<>>, <<"driver", "guard">>, <<"guard">>, <<"cleanup">>},
   lease: Lease \cup {NoLease}, todo: SUBSET Job, missed: BOOLEAN]

Ops == {"none", "create", "renew", "disable", "list", "revert", "initialize", "terminate"}

(* The steps at which call.item is a lease.                                 *)
Handling ==
  {"cleanup", "arming", "guarding", "disowning", "deleting", "withdrawing", "reverting",
   "restoring"}

Steps ==
  Handling \cup {"idle", "inventory", "expiring", "adding", "renewing", "disarming", "ending",
                 "reconciling", "opening", "rearming", "suspending", "closing"}

Call ==
  [op: Ops, step: Steps, scope: Scope \cup {NoScope}, length: Nat, ids: SUBSET Lease,
   seen: SUBSET Lease, mine: SUBSET Lease, todo: SUBSET Entry, ready: SUBSET Entry,
   item: [lease: Lease \cup {NoLease}, exp: Minutes], back: Minutes, kept: BOOLEAN,
   made: Job \cup {0}]

Templates(t) ==
  /\ t \in [Lease -> Template \cup {NoTemplate}]
  /\ \A l \in Lease : t[l] # NoTemplate => t[l].exp \in Minutes /\ l \in used

CallInv ==
  /\ call \in Call
  /\ call.step \in Handling => call.item.lease \in Lease
  /\ call.op \in {"create", "renew", "disable", "list"} => call.scope \in Scope
  /\ call.step = "adding" => call.op = "create"

TypeInv ==
  /\ now \in 0 .. MaxTime
  /\ Templates(templates)
  /\ jobs \in [Job -> JobRecord \cup {NoJob}]
  /\ tasks \in [Job -> Task]
  /\ \A j \in Job : tasks[j].step # "idle" => tasks[j].lease \in Lease
  /\ sweeps \in [Job \cup {Service} -> SweepType]
  /\ svc \in [instance: Nat, loaded: BOOLEAN, active: BOOLEAN, gate: BOOLEAN]
  /\ CallInv
  /\ used \subseteq Lease
  /\ spent \in [{"op", "boot", "mishap"} -> Nat]
  /\ promised \in [Lease -> Nat] /\ revoked \subseteq used /\ paused \subseteq Lease

(* Whose removal was acknowledged has no row.                               *)
RevokedInv == \A l \in revoked : templates[l] = NoTemplate

(* While the gate opens, the drivers and guards that are left are still to  *)
(* be deleted, unless one was missed; once it is open they are its own.     *)
OpeningInv ==
  /\ call.step = "opening" /\ ~sweeps[Service].missed =>
       /\ sweeps[Service].lease = NoLease
       /\ \A j \in Job : jobs[j] # NoJob /\ jobs[j].kind # "cleanup" =>
            \/ j \in sweeps[Service].todo
            \/ sweeps[Service].lists = <<"driver", "guard">>
            \/ sweeps[Service].lists = <<"guard">> /\ jobs[j].kind = "guard"
  /\ svc.gate =>
       \A j \in Job : jobs[j] # NoJob /\ jobs[j].kind # "cleanup" => jobs[j].instance = svc.instance

Inv == TypeInv /\ RevokedInv /\ OpeningInv
----------------------------------------------------------------------------
(* The cron's expiry is a whole minute, and not before the requested        *)
(* instant.                                                                 *)
LEMMA ExpiryIsMinute == ASSUME NEW t \in Nat PROVE MinuteExpiry(t) \in Minutes /\ MinuteExpiry(t) >= t
<1> DEFINE m == Minute
<1>1. m \in Nat \ {0}
  BY HeartbeatAssumption
<1> HIDE DEF m
<1>2. ((t + m - 1) \div m) * m \in Nat /\ ((t + m - 1) \div m) * m >= t
  BY <1>1
<1>3. (((t + m - 1) \div m) * m) % m = 0
  BY <1>1
<1> QED
  BY <1>2, <1>3 DEF MinuteExpiry, Minutes, m

(* The cron gives a new job an id that no row and no handler uses.          *)
LEMMA NewJobFree == Unused # {} => NewJob \in Unused
BY DEF NewJob

(* The null expiry is a whole minute.                                       *)
LEMMA ZeroIsMinute == 0 \in Minutes
<1>1. Minute \in Nat \ {0}
  BY HeartbeatAssumption
<1>2. 0 % Minute = 0
  BY <1>1
<1> QED
  BY <1>2 DEF Minutes

(* The service's own loop is not the handler of a job.                      *)
LEMMA ServiceIsNoJob == Service \notin Job
BY HeartbeatAssumption DEF Service, Job

(* The locals of no operation.                                              *)
LEMMA LocalsType ==
  Locals \in Call /\ Locals.op = "none" /\ Locals.step = "idle"
BY ZeroIsMinute DEF Locals, Call, Steps, Ops, NoItem, Handling

(* The three loops that list and delete jobs, as the code starts them.      *)
LEMMA SweepTypes ==
  ASSUME NEW l \in Lease \cup {NoLease}
  PROVE  /\ NoSweep \in SweepType /\ Disarm(l) \in SweepType /\ DeleteCleanup(l) \in SweepType
         /\ Disarm(l).lists = <<"driver", "guard">> /\ Disarm(l).lease = l /\ Disarm(l).todo = {}
         /\ DeleteCleanup(l).lists = <<"cleanup">> /\ DeleteCleanup(l).lease = l
         /\ DeleteCleanup(l).todo = {}
         /\ NoSweep.lists = <<>> /\ NoSweep.todo = {} /\ NoSweep.lease = NoLease
         /\ ~NoSweep.missed /\ ~Disarm(l).missed /\ ~DeleteCleanup(l).missed
BY DEF SweepType, NoSweep, Disarm, DeleteCleanup, Sweep
----------------------------------------------------------------------------
(* What the calls of the cron do to the rows.                               *)

(* Using up a bound keeps its type.                                         *)
LEMMA SpendType ==
  ASSUME TypeInv, NEW n \in {"op", "boot", "mishap"}, Spend(n)
  PROVE  spent' \in [{"op", "boot", "mishap"} -> Nat]
BY DEF TypeInv, Spend

(* Deleting a template removes that one, or raises and perhaps does not.    *)
LEMMA DeleteSteps ==
  ASSUME TypeInv, NEW l \in Lease, NEW ok \in BOOLEAN, DeleteTemplate(l, ok)
  PROVE  /\ templates' \in [Lease -> Template \cup {NoTemplate}]
         /\ \A k \in Lease : templates'[k] = templates[k] \/ (k = l /\ templates'[k] = NoTemplate)
         /\ ok => templates'[l] = NoTemplate /\ UNCHANGED spent
         /\ spent' \in [{"op", "boot", "mishap"} -> Nat]
<1>1. templates \in [Lease -> Template \cup {NoTemplate}]
  BY DEF TypeInv, Templates
<1>2. templates' \in {templates, [templates EXCEPT ![l] = NoTemplate]}
  BY DEF DeleteTemplate
<1>3. ok => templates' = [templates EXCEPT ![l] = NoTemplate] /\ UNCHANGED spent
  BY DEF DeleteTemplate
<1>4. spent' = spent \/ Spend("mishap")
  BY DEF DeleteTemplate
<1>5. spent' \in [{"op", "boot", "mishap"} -> Nat]
  BY <1>4, SpendType DEF TypeInv
<1> QED
  BY <1>1, <1>2, <1>3, <1>5

(* Updating a template moves the expiry of that one, or raises and perhaps  *)
(* does not.                                                                *)
LEMMA UpdateSteps ==
  ASSUME TypeInv, NEW l \in Leases, NEW exp \in Minutes, NEW ok \in BOOLEAN,
         UpdateTemplate(l, exp, ok)
  PROVE  /\ templates' \in [Lease -> Template \cup {NoTemplate}]
         /\ \A k \in Lease : k # l => templates'[k] = templates[k]
         /\ templates'[l] # NoTemplate /\ templates'[l].scope = templates[l].scope
         /\ templates'[l].exp \in {exp, templates[l].exp}
         /\ ok => templates'[l].exp = exp /\ UNCHANGED spent
         /\ spent' \in [{"op", "boot", "mishap"} -> Nat]
<1>1. templates \in [Lease -> Template \cup {NoTemplate}] /\ l \in Lease /\ templates[l] \in Template
  BY DEF TypeInv, Templates, Leases
<1>2. templates' \in {templates, [templates EXCEPT ![l].exp = exp]}
  BY DEF UpdateTemplate
<1>3. ok => templates' = [templates EXCEPT ![l].exp = exp] /\ UNCHANGED spent
  BY DEF UpdateTemplate
<1>4. spent' = spent \/ Spend("mishap")
  BY DEF UpdateTemplate
<1>5. spent' \in [{"op", "boot", "mishap"} -> Nat]
  BY <1>4, SpendType DEF TypeInv
<1>6. exp \in Nat
  BY DEF Minutes
<1>7. /\ [templates EXCEPT ![l].exp = exp] \in [Lease -> Template \cup {NoTemplate}]
      /\ [templates EXCEPT ![l].exp = exp][l] \in Template
      /\ [templates EXCEPT ![l].exp = exp][l].scope = templates[l].scope
      /\ [templates EXCEPT ![l].exp = exp][l].exp = exp
      /\ \A k \in Lease : k # l => [templates EXCEPT ![l].exp = exp][k] = templates[k]
  BY <1>1, <1>6 DEF Template
<1>8. templates'[l] \in Template
  BY <1>1, <1>2, <1>7
<1>9. templates'[l] # NoTemplate
  BY <1>8, HeartbeatAssumption
<1>10. templates' \in [Lease -> Template \cup {NoTemplate}]
  BY <1>1, <1>2, <1>7
<1> QED
  BY <1>2, <1>3, <1>5, <1>7, <1>9, <1>10

(* Adding a job fills one free id with a job of the lease in hand, or       *)
(* raises.                                                                  *)
LEMMA AddSteps ==
  ASSUME TypeInv, NEW kind \in {"driver", "guard", "cleanup"}, NEW ok \in BOOLEAN,
         AddJob(kind, ok), call.item.lease \in Lease
  PROVE  /\ Unused # {}
         /\ jobs' \in [Job -> JobRecord \cup {NoJob}]
         /\ \A j \in Job : j # NewJob => jobs'[j] = jobs[j]
         /\ \/ jobs'[NewJob] = NoJob
            \/ /\ jobs'[NewJob] # NoJob
               /\ jobs'[NewJob] = [kind |-> kind, lease |-> call.item.lease, exp |-> call.item.exp,
                                   instance |-> svc.instance, enabled |-> TRUE]
         /\ ok => jobs'[NewJob] # NoJob /\ UNCHANGED spent
         /\ spent' \in [{"op", "boot", "mishap"} -> Nat]
<1> DEFINE row == [kind |-> kind, lease |-> call.item.lease, exp |-> call.item.exp,
                   instance |-> svc.instance, enabled |-> TRUE]
<1>1. jobs \in [Job -> JobRecord \cup {NoJob}] /\ svc.instance \in Nat
  BY DEF TypeInv
<1>2. call.item.exp \in Nat
  BY DEF TypeInv, CallInv, Call, Minutes
<1>3. row \in JobRecord
  BY <1>1, <1>2 DEF JobRecord
<1>4. row # NoJob
  BY <1>3, HeartbeatAssumption
<1>5. Unused # {}
  BY DEF AddJob
<1>6. NewJob \in Job /\ jobs[NewJob] = NoJob
  BY <1>5, NewJobFree DEF Unused
<1>7. jobs' \in {jobs, [jobs EXCEPT ![NewJob] = row]}
  BY DEF AddJob
<1>8. ok => jobs' = [jobs EXCEPT ![NewJob] = row] /\ UNCHANGED spent
  BY DEF AddJob
<1>9. spent' = spent \/ Spend("mishap")
  BY DEF AddJob
<1>10. spent' \in [{"op", "boot", "mishap"} -> Nat]
  BY <1>9, SpendType DEF TypeInv
<1> HIDE DEF row
<1>11. jobs' \in [Job -> JobRecord \cup {NoJob}]
  BY <1>1, <1>3, <1>6, <1>7
<1>12. \A j \in Job : j # NewJob => jobs'[j] = jobs[j]
  BY <1>1, <1>6, <1>7
<1>13. jobs'[NewJob] = NoJob \/ jobs'[NewJob] = row
  BY <1>1, <1>6, <1>7
<1>14. ok => jobs'[NewJob] = row
  BY <1>1, <1>6, <1>8
<1> QED
  BY <1>4, <1>5, <1>8, <1>10, <1>11, <1>12, <1>13, <1>14 DEF row

(* Starting a loop leaves every other loop alone.                           *)
LEMMA StartSteps ==
  ASSUME TypeInv, NEW a \in Job \cup {Service}, NEW s \in SweepType, Start(a, s)
  PROVE  /\ sweeps' \in [Job \cup {Service} -> SweepType] /\ sweeps'[a] = s
         /\ \A b \in Job \cup {Service} : b # a => sweeps'[b] = sweeps[b]
BY DEF TypeInv, Start

(* The items an operation works through are the leases it was given.        *)
LEMMA ItemsType ==
  ASSUME NEW ids \in SUBSET Lease, NEW exp \in Minutes
  PROVE  Items(ids, exp) \subseteq Entry /\ \A i \in Items(ids, exp) : i.lease \in ids /\ i.exp = exp
BY DEF Items, Entry

(* Going to another step keeps the types of the locals.                     *)
LEMMA StepType ==
  ASSUME CallInv, NEW s \in Steps \ {"adding"}, Goto(s),
         s \in Handling => call.item.lease \in Lease
  PROVE  CallInv'
<1>1. call \in Call /\ call.op \in Ops
  BY DEF CallInv, Call
<1>2. call' = [call EXCEPT !.step = s]
  BY DEF Goto
<1>3. call' \in Call /\ call'.step = s /\ call'.item = call.item /\ call'.op = call.op /\ call'.scope = call.scope
  BY <1>1, <1>2 DEF Call
<1> QED
  BY <1>3 DEF CallInv

(* The end of an operation keeps the types of the locals.                   *)
LEMMA EndType == ASSUME End PROVE CallInv'
BY LocalsType DEF End, CallInv, Handling
----------------------------------------------------------------------------
(* Types.                                                                   *)

RestTypes ==
  /\ now \in 0 .. MaxTime
  /\ tasks \in [Job -> Task]
  /\ \A j \in Job : tasks[j].step # "idle" => tasks[j].lease \in Lease
  /\ svc \in [instance: Nat, loaded: BOOLEAN, active: BOOLEAN, gate: BOOLEAN]
  /\ promised \in [Lease -> Nat] /\ paused \subseteq Lease

(* What an action leaves alone keeps its types.                             *)
LEMMA RestKept ==
  ASSUME TypeInv, UNCHANGED <<now, tasks, svc, promised, paused>>
  PROVE  RestTypes'
BY DEF TypeInv, RestTypes

(* The types, put together from the parts an action gives.                  *)
LEMMA TypesFrom ==
  ASSUME RestTypes', CallInv',
         templates' \in [Lease -> Template \cup {NoTemplate}],
         \A l \in Lease : templates'[l] # NoTemplate => templates'[l].exp \in Minutes /\ l \in used',
         jobs' \in [Job -> JobRecord \cup {NoJob}],
         sweeps' \in [Job \cup {Service} -> SweepType],
         used' \subseteq Lease, revoked' \subseteq used',
         spent' \in [{"op", "boot", "mishap"} -> Nat]
  PROVE  TypeInv'
BY DEF TypeInv, RestTypes, Templates

(* When templates only disappear, those left have whole expiries and used   *)
(* ids.                                                                     *)
LEMMA FewerTemplates ==
  ASSUME TypeInv, used' = used,
         \A k \in Lease : templates'[k] = templates[k] \/ templates'[k] = NoTemplate
  PROVE  \A l \in Lease : templates'[l] # NoTemplate => templates'[l].exp \in Minutes /\ l \in used'
BY DEF TypeInv, Templates

(* Templates that stay keep their types.                                    *)
LEMMA SameTemplates ==
  ASSUME TypeInv, templates' = templates, used \subseteq used'
  PROVE  /\ templates' \in [Lease -> Template \cup {NoTemplate}]
         /\ \A l \in Lease : templates'[l] # NoTemplate => templates'[l].exp \in Minutes /\ l \in used'
BY DEF TypeInv, Templates

(* Time keeps the types.                                                    *)
LEMMA TickTypes == TypeInv /\ Tick => TypeInv'
<1> SUFFICES ASSUME TypeInv, Tick PROVE TypeInv'
  OBVIOUS
<1>1. now' \in 0 .. MaxTime
  BY HeartbeatAssumption DEF Tick, TypeInv
<1>2. UNCHANGED <<templates, jobs, tasks, sweeps, svc, call, used, spent, promised, revoked, paused>>
  BY DEF Tick, service, history
<1> QED
  BY <1>1, <1>2 DEF TypeInv, Templates, CallInv

(* A step of a job handler that goes on, starts or ends keeps the types, if *)
(* what it does to the rows does.                                           *)
LEMMA HandlerTypes ==
  ASSUME TypeInv, NEW j \in Job, NEW step \in {"idle", "checking", "preflight", "running", "deleting", "sweeping"},
         \/ tasks' = [tasks EXCEPT ![j].step = step] /\ tasks[j].step # "idle"
         \/ jobs[j] # NoJob /\ StartTask(j, step)
         \/ EndTask(j)
         \/ UNCHANGED tasks,
         UNCHANGED <<now, svc, call, used, promised, revoked, paused>>,
         templates' \in [Lease -> Template \cup {NoTemplate}],
         \A k \in Lease : templates'[k] = templates[k] \/ templates'[k] = NoTemplate,
         jobs' \in [Job -> JobRecord \cup {NoJob}],
         sweeps' \in [Job \cup {Service} -> SweepType],
         spent' \in [{"op", "boot", "mishap"} -> Nat]
  PROVE  TypeInv'
<1>1. tasks' \in [Job -> Task] /\ \A k \in Job : tasks'[k].step # "idle" => tasks'[k].lease \in Lease
  <2>1. tasks \in [Job -> Task] /\ \A k \in Job : tasks[k].step # "idle" => tasks[k].lease \in Lease
    BY DEF TypeInv
  <2>2. jobs \in [Job -> JobRecord \cup {NoJob}]
    BY DEF TypeInv
  <2>3. CASE tasks' = [tasks EXCEPT ![j].step = step] /\ tasks[j].step # "idle"
    BY <2>1, <2>3 DEF Task
  <2>4. CASE jobs[j] # NoJob /\ StartTask(j, step)
    BY <2>1, <2>2, <2>4 DEF Task, StartTask, JobRecord
  <2>5. CASE EndTask(j)
    BY <2>1, <2>5 DEF Task, EndTask, Idle
  <2> QED
    BY <2>1, <2>3, <2>4, <2>5
<1>2. RestTypes'
  BY <1>1 DEF RestTypes, TypeInv
<1>3. CallInv'
  BY DEF TypeInv, CallInv
<1>4. used' \subseteq Lease /\ revoked' \subseteq used'
  BY DEF TypeInv
<1> QED
  BY <1>2, <1>3, <1>4, FewerTemplates, TypesFrom

(* What a loop lists first, and what is left for it to list.                *)
LEMMA ListsTail ==
  /\ Head(<<"driver", "guard">>) = "driver" /\ Tail(<<"driver", "guard">>) = <<"guard">>
  /\ Head(<<"guard">>) = "guard" /\ Tail(<<"guard">>) = <<>>
  /\ Head(<<"cleanup">>) = "cleanup" /\ Tail(<<"cleanup">>) = <<>>
OBVIOUS

(* One listing of a loop: it adds the rows of one kind and goes to the next *)
(* kind.                                                                    *)
LEMMA SweepListSteps ==
  ASSUME TypeInv, NEW a \in Job \cup {Service}, SweepList(a)
  PROVE  /\ UNCHANGED <<now, templates, jobs, tasks, svc, call, used, spent, promised, revoked, paused>>
         /\ sweeps' \in [Job \cup {Service} -> SweepType]
         /\ \A b \in Job \cup {Service} : b # a => sweeps'[b] = sweeps[b]
         /\ sweeps'[a].lease = sweeps[a].lease /\ sweeps'[a].missed = sweeps[a].missed
         /\ \/ /\ sweeps[a].lists = <<"driver", "guard">> /\ sweeps'[a].lists = <<"guard">>
               /\ sweeps'[a].todo = sweeps[a].todo \cup Rows("driver", sweeps[a].lease)
            \/ /\ sweeps[a].lists = <<"guard">> /\ sweeps'[a].lists = <<>>
               /\ sweeps'[a].todo = sweeps[a].todo \cup Rows("guard", sweeps[a].lease)
            \/ /\ sweeps[a].lists = <<"cleanup">> /\ sweeps'[a].lists = <<>>
               /\ sweeps'[a].todo = sweeps[a].todo \cup Rows("cleanup", sweeps[a].lease)
<1>1. sweeps \in [Job \cup {Service} -> SweepType] /\ sweeps[a] \in SweepType
  BY DEF TypeInv
<1>2. UNCHANGED <<now, templates, jobs, tasks, svc, call, used, spent, promised, revoked, paused>>
  BY DEF SweepList, service, history
<1>3. PICK rows : rows = Rows(Head(sweeps[a].lists), sweeps[a].lease)
  OBVIOUS
<1>4. rows \subseteq Job
  BY <1>3 DEF Rows
<1>5. PICK rest : rest = Tail(sweeps[a].lists)
  OBVIOUS
<1>6. sweeps' = [sweeps EXCEPT ![a].todo = @ \cup rows, ![a].lists = rest]
  BY <1>3, <1>5 DEF SweepList
<1>7. sweeps[a].lists \in {<<"driver", "guard">>, <<"guard">>, <<"cleanup">>}
  BY <1>1 DEF SweepList, SweepType
<1>8. /\ sweeps[a].lists = <<"driver", "guard">> => rest = <<"guard">> /\ Head(sweeps[a].lists) = "driver"
      /\ sweeps[a].lists = <<"guard">> => rest = <<>> /\ Head(sweeps[a].lists) = "guard"
      /\ sweeps[a].lists = <<"cleanup">> => rest = <<>> /\ Head(sweeps[a].lists) = "cleanup"
  BY <1>5, ListsTail
<1>9. rest \in {<<>>, <<"guard">>}
  BY <1>7, <1>8
<1>10. /\ sweeps' \in [Job \cup {Service} -> SweepType]
       /\ \A b \in Job \cup {Service} : b # a => sweeps'[b] = sweeps[b]
       /\ sweeps'[a].lease = sweeps[a].lease /\ sweeps'[a].missed = sweeps[a].missed
       /\ sweeps'[a].todo = sweeps[a].todo \cup rows /\ sweeps'[a].lists = rest
  BY <1>1, <1>4, <1>6, <1>9 DEF SweepType
<1> QED
  BY <1>2, <1>3, <1>7, <1>8, <1>10

(* One deletion of a loop: one listed row goes, or the call raises and the  *)
(* row counts as missed.                                                    *)
LEMMA SweepDeleteSteps ==
  ASSUME TypeInv, NEW a \in Job \cup {Service}, SweepDelete(a)
  PROVE  \E j \in sweeps[a].todo :
           /\ UNCHANGED <<now, templates, tasks, svc, call, used, promised, revoked, paused>>
           /\ sweeps[a].lists = <<>> /\ j \in Job
           /\ jobs' \in [Job -> JobRecord \cup {NoJob}]
           /\ \A k \in Job : k # j => jobs'[k] = jobs[k]
           /\ jobs'[j] = NoJob \/ (jobs'[j] = jobs[j] /\ sweeps'[a].missed /\ Spend("mishap"))
           /\ sweeps' \in [Job \cup {Service} -> SweepType]
           /\ \A b \in Job \cup {Service} : b # a => sweeps'[b] = sweeps[b]
           /\ sweeps'[a].lease = sweeps[a].lease /\ sweeps'[a].lists = <<>>
           /\ sweeps'[a].todo = sweeps[a].todo \ {j}
           /\ spent' = spent \/ Spend("mishap")
           /\ sweeps[a].missed => sweeps'[a].missed
<1>1. sweeps \in [Job \cup {Service} -> SweepType] /\ sweeps[a] \in SweepType
  BY DEF TypeInv
<1>2. jobs \in [Job -> JobRecord \cup {NoJob}]
  BY DEF TypeInv
<1>3. PICK j \in sweeps[a].todo :
        \/ /\ jobs' = [jobs EXCEPT ![j] = NoJob]
           /\ sweeps' = [sweeps EXCEPT ![a].todo = @ \ {j}]
           /\ UNCHANGED spent
        \/ /\ Spend("mishap")
           /\ jobs' \in {jobs, [jobs EXCEPT ![j] = NoJob]}
           /\ sweeps' = [sweeps EXCEPT ![a].todo = @ \ {j}, ![a].missed = TRUE]
  BY DEF SweepDelete
<1>4. j \in Job /\ sweeps[a].lists = <<>>
  BY <1>1 DEF SweepType, SweepDelete
<1>5. /\ jobs' \in [Job -> JobRecord \cup {NoJob}]
      /\ \A k \in Job : k # j => jobs'[k] = jobs[k]
      /\ jobs'[j] = NoJob \/ (jobs'[j] = jobs[j] /\ Spend("mishap"))
  BY <1>2, <1>3, <1>4
<1>6. /\ sweeps' \in [Job \cup {Service} -> SweepType]
      /\ \A b \in Job \cup {Service} : b # a => sweeps'[b] = sweeps[b]
      /\ sweeps'[a].lease = sweeps[a].lease /\ sweeps'[a].lists = <<>>
      /\ sweeps'[a].todo = sweeps[a].todo \ {j}
      /\ sweeps[a].missed => sweeps'[a].missed
  BY <1>1, <1>3, <1>4 DEF SweepType
<1>7. jobs'[j] = NoJob \/ (jobs'[j] = jobs[j] /\ sweeps'[a].missed /\ Spend("mishap"))
  BY <1>1, <1>2, <1>3, <1>4 DEF SweepType
<1>8. UNCHANGED <<now, templates, tasks, svc, call, used, promised, revoked, paused>>
  BY DEF SweepDelete, service, history
<1> QED
  BY <1>3, <1>4, <1>5, <1>6, <1>7, <1>8
(* What a handler leaves alone: the service, its sweep, and every row but   *)
(* those it sweeps or, as a cleanup, deletes.                               *)
Beside(j) ==
  /\ UNCHANGED <<now, svc, call, used, promised, revoked, paused>>
  /\ \A b \in Job \cup {Service} : b # j => sweeps'[b] = sweeps[b]
  /\ \A k \in Job : k # j => tasks'[k] = tasks[k]
  /\ \A k \in Job : jobs'[k] = jobs[k] \/ (jobs'[k] = NoJob /\ k \in sweeps[j].todo)
  /\ \A l \in Lease : \/ templates'[l] = templates[l]
                      \/ /\ templates'[l] = NoTemplate
                         /\ tasks[j].step = "deleting" /\ l = tasks[j].lease
  /\ spent' = spent \/ Spend("mishap")

(* The types of the rows, as one fact.                                      *)
LEMMA SameRows ==
  ASSUME TypeInv
  PROVE  /\ templates \in [Lease -> Template \cup {NoTemplate}]
         /\ jobs \in [Job -> JobRecord \cup {NoJob}]
         /\ sweeps \in [Job \cup {Service} -> SweepType]
         /\ spent \in [{"op", "boot", "mishap"} -> Nat]
BY DEF TypeInv, Templates

(* The start of a job handler keeps the types and nothing of the service.   *)
LEMMA FireTypes ==
  ASSUME TypeInv, NEW j \in Job, Fire(j)
  PROVE  TypeInv' /\ Beside(j)
<1>1. /\ UNCHANGED <<now, templates, jobs, svc, call, used, spent, promised, revoked, paused>>
      /\ jobs[j] # NoJob
      /\ \E step \in {"checking", "deleting", "sweeping"} : StartTask(j, step)
  BY DEF Fire, service, history
<1>2. jobs[j].lease \in Lease
  BY <1>1 DEF TypeInv, JobRecord
<1>3. /\ sweeps' \in [Job \cup {Service} -> SweepType]
      /\ \A b \in Job \cup {Service} : b # j => sweeps'[b] = sweeps[b]
  <2>1. sweeps' = sweeps \/ Start(j, Disarm(jobs[j].lease))
    BY DEF Fire
  <2>2. Disarm(jobs[j].lease) \in SweepType
    BY <1>2, SweepTypes
  <2> QED
    BY <2>1, <2>2, StartSteps, SameRows
<1>4. \A k \in Job : k # j => tasks'[k] = tasks[k]
  BY <1>1 DEF StartTask, TypeInv
<1>5. Beside(j)
  BY <1>1, <1>3, <1>4 DEF Beside
<1>6. TypeInv'
  <2>1. PICK step \in {"checking", "deleting", "sweeping"} : StartTask(j, step)
    BY <1>1
  <2>2. jobs[j] # NoJob /\ StartTask(j, step)
    BY <1>1, <2>1
  <2> QED
    BY <1>1, <1>3, <2>2, SameRows, HandlerTypes
<1> QED
  BY <1>5, <1>6

(* The check of the template keeps the types and nothing of the service.    *)
LEMMA CheckTypes ==
  ASSUME TypeInv, NEW j \in Job, CheckTemplate(j)
  PROVE  TypeInv' /\ Beside(j)
<1>1. /\ UNCHANGED <<now, templates, jobs, svc, call, used, spent, promised, revoked, paused>>
      /\ tasks[j].step = "checking"
      /\ \/ \E step \in {"preflight", "sweeping"} : tasks' = [tasks EXCEPT ![j].step = step]
         \/ EndTask(j)
      /\ sweeps' = sweeps \/ Start(j, Disarm(tasks[j].lease))
  BY DEF CheckTemplate, service, history
<1>2. tasks[j].lease \in Lease
  BY <1>1 DEF TypeInv
<1>3. /\ sweeps' \in [Job \cup {Service} -> SweepType]
      /\ \A b \in Job \cup {Service} : b # j => sweeps'[b] = sweeps[b]
  <2>1. Disarm(tasks[j].lease) \in SweepType
    BY <1>2, SweepTypes
  <2> QED
    BY <1>1, <2>1, StartSteps, SameRows
<1>4. \A k \in Job : k # j => tasks'[k] = tasks[k]
  BY <1>1 DEF EndTask, TypeInv
<1>5. Beside(j)
  BY <1>1, <1>3, <1>4 DEF Beside
<1>6. TypeInv'
  <2>1. CASE EndTask(j)
    BY <1>1, <1>3, <2>1, SameRows, HandlerTypes
  <2>2. ASSUME NEW step \in {"preflight", "sweeping"}, tasks' = [tasks EXCEPT ![j].step = step]
        PROVE  TypeInv'
    BY <1>1, <1>3, <2>2, SameRows, HandlerTypes
  <2> QED
    BY <1>1, <2>1, <2>2
<1> QED
  BY <1>5, <1>6

(* A wake that is suppressed or run keeps the types and nothing of the      *)
(* service.                                                                 *)
LEMMA ShortTypes ==
  ASSUME TypeInv, NEW j \in Job, Suppress(j) \/ Run(j)
  PROVE  TypeInv' /\ Beside(j)
<1>1. /\ UNCHANGED <<now, templates, jobs, sweeps, svc, call, used, spent, promised, revoked, paused>>
      /\ tasks[j].step # "idle"
      /\ tasks' = [tasks EXCEPT ![j].step = "running"] \/ EndTask(j)
  BY DEF Suppress, Run, service, history
<1>4. \A k \in Job : k # j => tasks'[k] = tasks[k]
  BY <1>1 DEF EndTask, TypeInv
<1>5. Beside(j)
  BY <1>1, <1>4 DEF Beside
<1>6. TypeInv'
  BY <1>1, SameRows, HandlerTypes
<1> QED
  BY <1>5, <1>6

(* A handler that returns or raises keeps the types and nothing of the      *)
(* service.                                                                 *)
LEMMA ReturnTypes ==
  ASSUME TypeInv, NEW j \in Job, Return(j) \/ HandlerFails(j)
  PROVE  TypeInv' /\ Beside(j)
<1>1. /\ UNCHANGED <<now, templates, jobs, svc, call, used, promised, revoked, paused>>
      /\ EndTask(j) /\ Start(j, NoSweep)
      /\ spent' = spent \/ Spend("mishap")
  BY DEF Return, HandlerFails, service, history
<1>3. /\ sweeps' \in [Job \cup {Service} -> SweepType]
      /\ \A b \in Job \cup {Service} : b # j => sweeps'[b] = sweeps[b]
  BY <1>1, SweepTypes, StartSteps
<1>4. \A k \in Job : k # j => tasks'[k] = tasks[k]
  BY <1>1 DEF EndTask, TypeInv
<1>5. Beside(j)
  BY <1>1, <1>3, <1>4 DEF Beside
<1>6. spent' \in [{"op", "boot", "mishap"} -> Nat]
  BY <1>1, SpendType, SameRows
<1>7. TypeInv'
  BY <1>1, <1>3, <1>6, SameRows, HandlerTypes
<1> QED
  BY <1>5, <1>7

(* The deletion of an expired template keeps the types and nothing of the   *)
(* service.                                                                 *)
LEMMA ExpireTypes ==
  ASSUME TypeInv, NEW j \in Job, Expire(j)
  PROVE  TypeInv' /\ Beside(j)
<1>1. /\ UNCHANGED <<now, jobs, svc, call, used, promised, revoked, paused>>
      /\ tasks[j].step = "deleting"
      /\ tasks' = [tasks EXCEPT ![j].step = "sweeping"]
      /\ Start(j, DeleteCleanup(tasks[j].lease))
  BY DEF Expire, service, history
<1>2. tasks[j].lease \in Lease
  BY <1>1 DEF TypeInv
<1>3. /\ sweeps' \in [Job \cup {Service} -> SweepType]
      /\ \A b \in Job \cup {Service} : b # j => sweeps'[b] = sweeps[b]
  BY <1>1, <1>2, SweepTypes, StartSteps
<1>4. \A k \in Job : k # j => tasks'[k] = tasks[k]
  BY <1>1 DEF TypeInv
<1>5. PICK ok \in BOOLEAN : DeleteTemplate(tasks[j].lease, ok)
  BY DEF Expire
<1>6. /\ templates' \in [Lease -> Template \cup {NoTemplate}]
      /\ \A k \in Lease : \/ templates'[k] = templates[k]
                          \/ k = tasks[j].lease /\ templates'[k] = NoTemplate
      /\ spent' \in [{"op", "boot", "mishap"} -> Nat]
  BY <1>2, <1>5, DeleteSteps
<1>7. spent' = spent \/ Spend("mishap")
  BY <1>5 DEF DeleteTemplate
<1>8. Beside(j)
  BY <1>1, <1>3, <1>4, <1>6, <1>7 DEF Beside
<1>9. TypeInv'
  BY <1>1, <1>3, <1>6, SameRows, HandlerTypes
<1> QED
  BY <1>8, <1>9

(* A handler's loop keeps the types and nothing of the service.             *)
LEMMA HandlerSweepTypes ==
  ASSUME TypeInv, NEW j \in Job, SweepList(j) \/ SweepDelete(j)
  PROVE  TypeInv' /\ Beside(j)
<1>1. CASE SweepList(j)
  <2>1. /\ UNCHANGED <<now, templates, jobs, tasks, svc, call, used, spent, promised, revoked, paused>>
        /\ sweeps' \in [Job \cup {Service} -> SweepType]
        /\ \A b \in Job \cup {Service} : b # j => sweeps'[b] = sweeps[b]
    BY <1>1, SweepListSteps
  <2> QED
    BY <2>1, SameRows, HandlerTypes DEF Beside
<1>2. CASE SweepDelete(j)
  <2>1. PICK k \in sweeps[j].todo :
          /\ UNCHANGED <<now, templates, tasks, svc, call, used, promised, revoked, paused>>
          /\ k \in Job
          /\ jobs' \in [Job -> JobRecord \cup {NoJob}]
          /\ \A i \in Job : i # k => jobs'[i] = jobs[i]
          /\ jobs'[k] = NoJob \/ jobs'[k] = jobs[k]
          /\ sweeps' \in [Job \cup {Service} -> SweepType]
          /\ \A b \in Job \cup {Service} : b # j => sweeps'[b] = sweeps[b]
          /\ spent' = spent \/ Spend("mishap")
    BY <1>2, SweepDeleteSteps
  <2>2. spent' \in [{"op", "boot", "mishap"} -> Nat]
    BY <2>1, SpendType, SameRows
  <2>3. TypeInv'
    BY <2>1, <2>2, SameRows, HandlerTypes
  <2>4. Beside(j)
    BY <2>1 DEF Beside
  <2> QED
    BY <2>3, <2>4
<1> QED
  BY <1>1, <1>2

(* So does every step of a handler.                                         *)
LEMMA HandlerStepTypes ==
  ASSUME TypeInv, NEW j \in Job, HandlerStep(j)
  PROVE  TypeInv' /\ Beside(j)
BY FireTypes, CheckTypes, ShortTypes, ReturnTypes, ExpireTypes, HandlerSweepTypes DEF HandlerStep

(* Locals that stay keep their types.                                       *)
LEMMA CallSame == ASSUME TypeInv, UNCHANGED call PROVE CallInv'
BY DEF TypeInv, CallInv

(* An operation that only moves on.                                         *)
LEMMA OnlyCall ==
  ASSUME TypeInv, CallInv', RestTypes',
         UNCHANGED <<templates, jobs, used, revoked>>,
         sweeps' \in [Job \cup {Service} -> SweepType],
         spent' \in [{"op", "boot", "mishap"} -> Nat]
  PROVE  TypeInv'
<1>1. used' \subseteq Lease /\ revoked' \subseteq used'
  BY DEF TypeInv
<1> QED
  BY <1>1, SameTemplates, SameRows, TypesFrom

(* The start of an operation keeps the types.                               *)
LEMMA ManageTypes ==
  ASSUME TypeInv, NEW op \in Operations, NEW s \in Scope, NEW ids \in SUBSET used,
         NEW length \in Lengths, Manage(op, s, ids, length)
  PROVE  TypeInv'
<1>1. /\ UNCHANGED <<now, templates, jobs, tasks, sweeps, svc, used, promised, revoked, paused>>
      /\ Spend("op")
      /\ call' = [Locals EXCEPT !.op = op, !.step = "inventory", !.scope = s, !.ids = ids,
                                !.length = length]
  BY DEF Manage, history
<1>2. op \in {"create", "renew", "disable", "list"} /\ length \in Nat /\ ids \subseteq Lease
  BY HeartbeatAssumption DEF TypeInv
<1>3. CallInv'
  <2>1. PICK c : c = Locals
    OBVIOUS
  <2>2. c \in Call
    BY <2>1, LocalsType
  <2>3. call' = [c EXCEPT !.op = op, !.step = "inventory", !.scope = s, !.ids = ids, !.length = length]
    BY <1>1, <2>1
  <2>4. call' \in Call /\ call'.step = "inventory" /\ call'.scope = s
    BY <1>2, <2>2, <2>3 DEF Call, Ops, Steps
  <2> QED
    BY <2>4 DEF CallInv, Handling
<1>4. spent' \in [{"op", "boot", "mishap"} -> Nat]
  BY <1>1, SpendType
<1>5. RestTypes'
  BY <1>1, RestKept
<1> QED
  BY <1>1, <1>3, <1>4, <1>5, SameRows, OnlyCall

(* An inventory of an operation: its own live leases, and the expired ones  *)
(* to delete first.                                                         *)
LEMMA InventorySteps ==
  ASSUME TypeInv, Inventory
  PROVE  /\ UNCHANGED <<now, templates, jobs, tasks, sweeps, svc, used, spent, promised, revoked, paused>>
         /\ At("inventory") /\ call.op # "initialize"
         /\ CallInv' /\ call'.step = "expiring" /\ call'.op = call.op /\ call'.scope = call.scope
         /\ call'.item = call.item /\ call'.ids = call.ids /\ call'.ready = call.ready
         /\ \A l \in call'.mine : l \in Leases /\ templates[l].exp > now /\ templates[l].scope = call.scope
         /\ \A i \in call'.todo : i.lease \in Leases => templates[i.lease].exp <= now
<1>1. PICK alive : alive = {l \in Leases : templates[l].exp > now}
  OBVIOUS
<1>2. PICK mine : mine = {l \in alive : templates[l].scope = call.scope}
  OBVIOUS
<1>3. PICK old : old = Items(Leases \ alive, 0)
  OBVIOUS
<1>4. alive \subseteq Lease /\ mine \subseteq Lease /\ Leases \ alive \subseteq Lease
  BY <1>1, <1>2 DEF Leases
<1>5. old \subseteq Entry /\ \A i \in old : i.lease \in Leases \ alive
  BY <1>3, <1>4, ItemsType, ZeroIsMinute
<1>6. call' = [call EXCEPT !.step = "expiring", !.seen = alive, !.mine = mine, !.todo = old]
  BY <1>1, <1>2, <1>3 DEF Inventory
<1>7. call \in Call /\ CallInv
  BY DEF TypeInv, CallInv
<1>8. call' \in Call /\ call'.step = "expiring" /\ call'.op = call.op /\ call'.scope = call.scope
      /\ call'.item = call.item /\ call'.ids = call.ids /\ call'.mine = mine /\ call'.todo = old
      /\ call'.ready = call.ready
  BY <1>4, <1>5, <1>6, <1>7 DEF Call, Steps
<1>9. CallInv'
  BY <1>7, <1>8 DEF CallInv, Handling
<1>10. \A l \in mine : l \in Leases /\ templates[l].exp > now /\ templates[l].scope = call.scope
  BY <1>1, <1>2
<1>11. \A i \in old : i.lease \in Leases => templates[i.lease].exp <= now
  <2> SUFFICES ASSUME NEW i \in old, i.lease \in Leases PROVE templates[i.lease].exp <= now
    OBVIOUS
  <2>1. ~(templates[i.lease].exp > now)
    BY <1>1, <1>5
  <2>2. templates[i.lease].exp \in Nat /\ now \in Nat
    BY HeartbeatAssumption DEF TypeInv, Templates, Leases, Minutes
  <2> QED
    BY <2>1, <2>2
<1>12. /\ UNCHANGED <<now, templates, jobs, tasks, sweeps, svc, used, spent, promised, revoked, paused>>
       /\ At("inventory") /\ call.op # "initialize"
  BY DEF Inventory, history
<1> QED
  BY <1>8, <1>9, <1>10, <1>11, <1>12

(* An inventory keeps the types.                                            *)
LEMMA InventoryTypes == ASSUME TypeInv, Inventory PROVE TypeInv'
<1>1. /\ UNCHANGED <<now, templates, jobs, tasks, sweeps, svc, used, spent, promised, revoked, paused>>
      /\ CallInv'
  BY InventorySteps
<1> QED
  BY <1>1, RestKept, SameRows, OnlyCall

(* delete_if_expired of one template.                                       *)
LEMMA DeleteExpiredSteps ==
  ASSUME TypeInv, DeleteExpired
  PROVE  \E i \in call.todo :
           /\ UNCHANGED <<now, jobs, tasks, svc, used, promised, revoked, paused>>
           /\ At("expiring") /\ CallInv' /\ i.lease \in Lease
           /\ \/ /\ UNCHANGED <<templates, sweeps, spent>> /\ i.lease \notin Leases
                 /\ call' = [call EXCEPT !.todo = @ \ {i}]
              \/ /\ DeleteTemplate(i.lease, TRUE) /\ Start(Service, DeleteCleanup(i.lease))
                 /\ call' = [call EXCEPT !.todo = @ \ {i}]
              \/ DeleteTemplate(i.lease, FALSE) /\ End /\ UNCHANGED sweeps
<1>1. PICK i \in call.todo :
        \/ /\ UNCHANGED <<templates, sweeps, spent>> /\ i.lease \notin Leases
           /\ call' = [call EXCEPT !.todo = @ \ {i}]
        \/ /\ DeleteTemplate(i.lease, TRUE) /\ Start(Service, DeleteCleanup(i.lease))
           /\ call' = [call EXCEPT !.todo = @ \ {i}]
        \/ DeleteTemplate(i.lease, FALSE) /\ End /\ UNCHANGED sweeps
  BY DEF DeleteExpired
<1>2. call \in Call /\ CallInv
  BY DEF TypeInv, CallInv
<1>3. i.lease \in Lease
  BY <1>2 DEF Call, Entry
<1>4. CallInv'
  <2>1. CASE call' = [call EXCEPT !.todo = @ \ {i}]
    <3>1. call' \in Call /\ call'.step = call.step /\ call'.op = call.op /\ call'.scope = call.scope
          /\ call'.item = call.item
      BY <1>2, <2>1 DEF Call
    <3> QED
      BY <1>2, <3>1 DEF CallInv
  <2> QED
    BY <1>1, <2>1, EndType
<1>5. UNCHANGED <<now, jobs, tasks, svc, used, promised, revoked, paused>> /\ At("expiring")
  BY DEF DeleteExpired, history
<1> QED
  BY <1>1, <1>3, <1>4, <1>5

(* A step of the service that at most removes templates keeps the types.    *)
LEMMA TypesKept ==
  ASSUME TypeInv, CallInv', RestTypes', UNCHANGED <<jobs, used, revoked>>,
         templates' \in [Lease -> Template \cup {NoTemplate}],
         \A k \in Lease : templates'[k] = templates[k] \/ templates'[k] = NoTemplate,
         sweeps' \in [Job \cup {Service} -> SweepType],
         spent' \in [{"op", "boot", "mishap"} -> Nat]
  PROVE  TypeInv'
<1>1. used' \subseteq Lease /\ revoked' \subseteq used'
  BY DEF TypeInv
<1> QED
  BY <1>1, FewerTemplates, SameRows, TypesFrom

(* The deletion of an expired lease before an operation keeps the types.    *)
LEMMA DeleteExpiredTypes == ASSUME TypeInv, DeleteExpired PROVE TypeInv'
<1>1. PICK i \in call.todo :
           /\ UNCHANGED <<now, jobs, tasks, svc, used, promised, revoked, paused>>
           /\ CallInv' /\ i.lease \in Lease
           /\ \/ UNCHANGED <<templates, sweeps, spent>>
              \/ DeleteTemplate(i.lease, TRUE) /\ Start(Service, DeleteCleanup(i.lease))
              \/ DeleteTemplate(i.lease, FALSE) /\ UNCHANGED sweeps
  BY DeleteExpiredSteps
<1>2. RestTypes'
  BY <1>1, RestKept
<1>3. CASE UNCHANGED <<templates, sweeps, spent>>
  BY <1>1, <1>2, <1>3, SameRows, OnlyCall
<1>4. CASE DeleteTemplate(i.lease, TRUE) /\ Start(Service, DeleteCleanup(i.lease))
  <2>1. sweeps' \in [Job \cup {Service} -> SweepType]
    BY <1>1, <1>4, SweepTypes, StartSteps
  <2> QED
    BY <1>1, <1>2, <1>4, <2>1, DeleteSteps, TypesKept
<1>5. CASE DeleteTemplate(i.lease, FALSE) /\ UNCHANGED sweeps
  BY <1>1, <1>2, <1>5, SameRows, DeleteSteps, TypesKept
<1> QED
  BY <1>1, <1>3, <1>4, <1>5

(* After the inventory an operation goes to its own first step, or ends.    *)
LEMMA ActSteps ==
  ASSUME TypeInv, Act
  PROVE  /\ UNCHANGED <<now, templates, jobs, tasks, sweeps, svc, used, spent, promised, revoked, paused>>
         /\ At("expiring") /\ CallInv'
         /\ \/ /\ call.op = "create" /\ call'.op = "create" /\ call'.step = "adding"
               /\ call'.scope = call.scope
            \/ /\ call.op = "renew" /\ call'.op = "renew" /\ call'.step = "renewing"
               /\ call'.scope = call.scope
            \/ /\ call.op = "disable" /\ call'.op = "disable" /\ call'.step = "disarming"
               /\ call'.scope = call.scope /\ \A i \in call'.todo : i.lease \in call.ids
            \/ call' = Locals
<1>1. PICK exp : exp = MinuteExpiry(now + call.length)
  OBVIOUS
<1>2. PICK fits \in BOOLEAN : fits = Fits
  BY DEF Fits
<1>3. call \in Call /\ CallInv /\ now \in Nat /\ call.length \in Nat
  BY HeartbeatAssumption DEF TypeInv, CallInv, Call
<1>4. exp \in Minutes
  BY <1>1, <1>3, ExpiryIsMinute
<1>5. PICK renewed, disabled : renewed = Items(call.ids, exp) /\ disabled = Items(call.ids, 0)
  OBVIOUS
<1>6. call.ids \in SUBSET Lease
  BY <1>3 DEF Call
<1>7. renewed \subseteq Entry /\ disabled \subseteq Entry /\ \A i \in disabled : i.lease \in call.ids
  BY <1>4, <1>5, <1>6, ItemsType, ZeroIsMinute
<1>8. PICK next : next = [call EXCEPT !.seen = {}, !.mine = {}, !.ids = {}]
  OBVIOUS
<1>9. next \in Call /\ next.item = call.item /\ next.op = call.op /\ next.scope = call.scope
  BY <1>3, <1>8 DEF Call
<1>10. call' = CASE call.op = "create" /\ Fits ->
                        [next EXCEPT !.step = "adding", !.item.exp = exp]
                   [] call.op = "renew" /\ call.ids \subseteq call.mine ->
                        [next EXCEPT !.step = "renewing", !.todo = renewed]
                   [] call.op = "disable" -> [next EXCEPT !.step = "disarming", !.todo = disabled]
                   [] OTHER -> Locals
  BY <1>1, <1>5, <1>8 DEF Act
<1>11. UNCHANGED <<now, templates, jobs, tasks, sweeps, svc, used, spent, promised, revoked, paused>>
       /\ At("expiring")
  BY DEF Act, history
<1>12. CASE call.op = "create" /\ Fits
  <2>1. call' = [next EXCEPT !.step = "adding", !.item.exp = exp]
    BY <1>10, <1>12
  <2>2. call' \in Call /\ call'.step = "adding" /\ call'.op = "create" /\ call'.scope = call.scope
    BY <1>4, <1>9, <1>12, <2>1 DEF Call, Steps
  <2>3. CallInv'
    BY <1>3, <1>12, <2>2 DEF CallInv, Handling
  <2> QED
    BY <1>11, <1>12, <2>2, <2>3
<1>13. CASE call.op = "renew" /\ call.ids \subseteq call.mine
  <2>1. call' = [next EXCEPT !.step = "renewing", !.todo = renewed]
    BY <1>10, <1>13
  <2>2. call' \in Call /\ call'.step = "renewing" /\ call'.op = "renew" /\ call'.scope = call.scope
    BY <1>7, <1>9, <1>13, <2>1 DEF Call, Steps
  <2>3. CallInv'
    BY <1>3, <1>13, <2>2 DEF CallInv, Handling
  <2> QED
    BY <1>11, <1>13, <2>2, <2>3
<1>14. CASE call.op = "disable"
  <2>1. call' = [next EXCEPT !.step = "disarming", !.todo = disabled]
    BY <1>10, <1>14
  <2>2. call' \in Call /\ call'.step = "disarming" /\ call'.op = "disable" /\ call'.scope = call.scope
        /\ call'.todo = disabled
    BY <1>7, <1>9, <1>14, <2>1 DEF Call, Steps
  <2>3. CallInv'
    BY <1>3, <1>14, <2>2 DEF CallInv, Handling
  <2> QED
    BY <1>7, <1>11, <1>14, <2>2, <2>3
<1>15. CASE ~(call.op = "create" /\ Fits) /\ ~(call.op = "renew" /\ call.ids \subseteq call.mine)
            /\ call.op # "disable"
  <2>1. call' = Locals
    BY <1>10, <1>15
  <2> QED
    BY <1>11, <2>1, EndType DEF End
<1> QED
  BY <1>12, <1>13, <1>14, <1>15

(* That step keeps the types.                                               *)
LEMMA ActTypes == ASSUME TypeInv, Act PROVE TypeInv'
BY ActSteps, RestKept, SameRows, OnlyCall

(* After a lease is armed: the next lease of initialize or renew, or the    *)
(* end.                                                                     *)
LEMMA ContinueType ==
  ASSUME TypeInv, Continue
  PROVE  /\ CallInv' /\ call'.step \in {"rearming", "renewing", "idle"}
         /\ \/ /\ call.op = "initialize" /\ call'.op = "initialize" /\ call'.step = "rearming"
               /\ call'.todo = call.todo /\ call'.length = call.length
            \/ /\ call.op = "renew" /\ call'.op = "renew" /\ call'.step = "renewing"
            \/ call' = Locals /\ call.op # "initialize"
<1>1. call \in Call /\ CallInv
  BY DEF TypeInv, CallInv
<1>2. CASE call.op = "initialize"
  <2>1. call' = [call EXCEPT !.step = "rearming", !.made = 0]
    BY <1>2 DEF Continue
  <2>2. call' \in Call /\ call'.step = "rearming" /\ call'.op = "initialize" /\ call'.todo = call.todo
        /\ call'.length = call.length
    BY <1>1, <1>2, <2>1 DEF Call, Steps
  <2> QED
    BY <1>2, <2>2 DEF CallInv, Handling
<1>3. CASE call.op = "renew" /\ call.todo # {}
  <2>1. call' = [call EXCEPT !.step = "renewing", !.made = 0]
    BY <1>3 DEF Continue
  <2>2. call' \in Call /\ call'.step = "renewing" /\ call'.op = "renew" /\ call'.scope = call.scope
    BY <1>1, <1>3, <2>1 DEF Call, Steps
  <2>3. call'.scope \in Scope
    BY <1>1, <1>3, <2>2 DEF CallInv
  <2> QED
    BY <1>3, <2>2, <2>3 DEF CallInv, Handling
<1>4. CASE ~(call.op = "initialize") /\ ~(call.op = "renew" /\ call.todo # {})
  <2>1. call' = Locals
    BY <1>4 DEF Continue
  <2> QED
    BY <1>4, <2>1, EndType, LocalsType DEF End
<1> QED
  BY <1>2, <1>3, <1>4

(* A lease that could not be armed goes to the branch that undoes it.       *)
LEMMA ArmFailedType ==
  ASSUME TypeInv, ArmFailed, call.step \in Handling
  PROVE  CallInv' /\ call'.step # "opening"
<1>1. call \in Call /\ CallInv
  BY DEF TypeInv, CallInv
<1>2. CASE call.op = "create"
  <2>1. call' = [call EXCEPT !.step = "deleting", !.made = 0]
    BY <1>2 DEF ArmFailed
  <2>2. call' \in Call /\ call'.step = "deleting" /\ call'.item = call.item /\ call'.scope = call.scope
    BY <1>1, <2>1 DEF Call, Steps, Handling
  <2>3. call.item.lease \in Lease /\ call.scope \in Scope
    BY <1>1, <1>2 DEF CallInv
  <2> QED
    BY <2>2, <2>3 DEF CallInv
<1>3. CASE call.op = "renew"
  <2>1. End
    BY <1>3 DEF ArmFailed
  <2>2. call' = Locals
    BY <2>1 DEF End
  <2> QED
    BY <2>1, <2>2, EndType, LocalsType
<1>4. CASE call.op \notin {"create", "renew"}
  BY <1>4, ContinueType DEF ArmFailed
<1> QED
  BY <1>2, <1>3, <1>4

(* A create takes an unused id and adds its template, or ends with the call *)
(* that raised.                                                             *)
LEMMA AddTemplateSteps ==
  ASSUME TypeInv, NEW l \in Lease, AddTemplate(l)
  PROVE  /\ UNCHANGED <<now, jobs, tasks, sweeps, svc, promised, revoked, paused>>
         /\ At("adding") /\ call.op = "create" /\ l \notin used /\ used' = used \cup {l}
         /\ CallInv' /\ Templates(templates)' /\ spent' \in [{"op", "boot", "mishap"} -> Nat]
         /\ \A k \in Lease : k # l => templates'[k] = templates[k]
         /\ \/ /\ templates'[l].exp = call.item.exp /\ templates'[l] # NoTemplate
               /\ call'.op = "create" /\ call'.step = "cleanup" /\ call'.item.lease = l
               /\ call'.item.exp = call.item.exp
               /\ UNCHANGED spent
            \/ Spend("mishap") /\ call' = Locals
<1>1. PICK row : row = [scope |-> call.scope, exp |-> call.item.exp]
  OBVIOUS
<1>2. call \in Call /\ CallInv /\ call.op = "create"
  BY DEF TypeInv, CallInv, AddTemplate, At
<1>3. row \in Template /\ row.exp = call.item.exp /\ row.exp \in Minutes
  BY <1>1, <1>2 DEF CallInv, Call, Template, Minutes
<1>4. row # NoTemplate
  BY <1>3, HeartbeatAssumption
<1>5. templates \in [Lease -> Template \cup {NoTemplate}]
      /\ \A k \in Lease : templates[k] # NoTemplate => templates[k].exp \in Minutes /\ k \in used
  BY DEF TypeInv, Templates
<1>6. PICK with : with = [templates EXCEPT ![l] = row]
  OBVIOUS
<1>7. /\ with \in [Lease -> Template \cup {NoTemplate}] /\ with[l] = row
      /\ \A k \in Lease : k # l => with[k] = templates[k]
  BY <1>3, <1>5, <1>6
<1>8. /\ UNCHANGED <<now, jobs, tasks, sweeps, svc, promised, revoked, paused>>
      /\ At("adding") /\ l \notin used /\ used' = used \cup {l}
      /\ \/ /\ templates' = with
            /\ call' = [call EXCEPT !.step = "cleanup", !.item.lease = l]
            /\ UNCHANGED spent
         \/ /\ Spend("mishap")
            /\ templates' \in {templates, with}
            /\ End
  BY <1>1, <1>6 DEF AddTemplate, history
<1>9. Templates(templates)'
  BY <1>3, <1>5, <1>7, <1>8 DEF Templates
<1>10. CASE templates' = with /\ call' = [call EXCEPT !.step = "cleanup", !.item.lease = l]
            /\ UNCHANGED spent
  <2>1. call' \in Call /\ call'.step = "cleanup" /\ call'.item.lease = l /\ call'.op = "create"
        /\ call'.item.exp = call.item.exp /\ call'.scope = call.scope
    BY <1>2, <1>10 DEF Call, Steps, Handling
  <2>2. CallInv'
    BY <1>2, <2>1 DEF CallInv
  <2>3. UNCHANGED spent /\ spent \in [{"op", "boot", "mishap"} -> Nat]
    BY <1>10, SameRows
  <2> QED
    BY <1>2, <1>3, <1>4, <1>7, <1>8, <1>9, <1>10, <2>1, <2>2, <2>3
<1>11. CASE Spend("mishap") /\ templates' \in {templates, with} /\ End
  <2>1. CallInv' /\ call' = Locals
    BY <1>11, EndType DEF End
  <2>2. spent' \in [{"op", "boot", "mishap"} -> Nat]
    BY <1>11, SpendType
  <2> QED
    BY <1>2, <1>7, <1>8, <1>9, <1>11, <2>1, <2>2
<1> QED
  BY <1>8, <1>10, <1>11

(* Adding a template keeps the types.                                       *)
LEMMA AddTemplateTypes == ASSUME TypeInv, NEW l \in Lease, AddTemplate(l) PROVE TypeInv'
<1>1. used' \subseteq Lease /\ revoked' \subseteq used'
  BY AddTemplateSteps DEF TypeInv
<1>2. RestTypes' /\ UNCHANGED <<jobs, sweeps>>
  BY AddTemplateSteps, RestKept
<1> QED
  BY <1>1, <1>2, AddTemplateSteps, SameRows, TypesFrom DEF Templates

(* A renewal takes one lease, moves its expiry and then replaces its        *)
(* cleanup job, or goes on to revert.                                       *)
LEMMA RenewSteps ==
  ASSUME TypeInv, Renew
  PROVE  \E i \in call.todo :
           /\ UNCHANGED <<now, jobs, tasks, svc, used, revoked>>
           /\ At("renewing") /\ CallInv' /\ i.lease \in Lease /\ i.exp \in Minutes
           /\ \/ End /\ UNCHANGED <<templates, sweeps, spent, promised, paused>>
              \/ \E ok \in BOOLEAN :
                   /\ i.lease \in Leases
                   /\ UpdateTemplate(i.lease, i.exp, ok)
                   /\ call'.op = call.op /\ call'.step = IF ok THEN "cleanup" ELSE "reverting"
                   /\ call'.item = i /\ call'.back = templates[i.lease].exp
                   /\ call'.kept = (promised[i.lease] > 0)
                   /\ IF ok THEN Start(Service, DeleteCleanup(i.lease)) ELSE UNCHANGED sweeps
                   /\ promised' = [promised EXCEPT ![i.lease] = 0]
                   /\ paused' = paused \ {i.lease}
<1>1. PICK i \in call.todo :
           \/ End /\ UNCHANGED <<templates, sweeps, spent, promised, paused>>
           \/ \E ok \in BOOLEAN :
                   /\ i.lease \in Leases
                   /\ UpdateTemplate(i.lease, i.exp, ok)
                   /\ call' = [call EXCEPT !.step = IF ok THEN "cleanup" ELSE "reverting", !.item = i,
                            !.todo = @ \ {i}, !.back = templates[i.lease].exp,
                            !.kept = promised[i.lease] > 0]
                   /\ IF ok THEN Start(Service, DeleteCleanup(i.lease)) ELSE UNCHANGED sweeps
                   /\ promised' = [promised EXCEPT ![i.lease] = 0]
                   /\ paused' = paused \ {i.lease}
  BY DEF Renew
<1>2. UNCHANGED <<now, jobs, tasks, svc, used, revoked>> /\ At("renewing")
  BY DEF Renew
<1>3. call \in Call /\ CallInv
  BY DEF TypeInv, CallInv
<1>4. i \in Entry /\ i.lease \in Lease /\ i.exp \in Minutes
  BY <1>3 DEF Call, Entry
<1>5. CASE End /\ UNCHANGED <<templates, sweeps, spent, promised, paused>>
  BY <1>2, <1>4, <1>5, EndType
<1>6. ASSUME NEW ok \in BOOLEAN, i.lease \in Leases,
             UpdateTemplate(i.lease, i.exp, ok),
             call' = [call EXCEPT !.step = IF ok THEN "cleanup" ELSE "reverting", !.item = i,
                            !.todo = @ \ {i}, !.back = templates[i.lease].exp,
                            !.kept = promised[i.lease] > 0],
             IF ok THEN Start(Service, DeleteCleanup(i.lease)) ELSE UNCHANGED sweeps,
             promised' = [promised EXCEPT ![i.lease] = 0],
             paused' = paused \ {i.lease}
      PROVE  /\ CallInv' /\ call'.op = call.op
             /\ call'.step = IF ok THEN "cleanup" ELSE "reverting"
             /\ call'.item = i /\ call'.back = templates[i.lease].exp
             /\ call'.kept = (promised[i.lease] > 0)
  <2>1. PICK back, kept, step : back = templates[i.lease].exp /\ kept = (promised[i.lease] > 0)
          /\ step = IF ok THEN "cleanup" ELSE "reverting"
    OBVIOUS
  <2>2. back \in Minutes /\ kept \in BOOLEAN
    BY <1>6, <2>1 DEF Leases, TypeInv, Templates
  <2>3. step \in {"cleanup", "reverting"}
    BY <2>1
  <2>4. call' = [call EXCEPT !.step = step, !.item = i, !.todo = @ \ {i}, !.back = back, !.kept = kept]
    BY <1>6, <2>1
  <2>5. call'.step = step /\ call'.item = i /\ call'.back = back /\ call'.kept = kept
        /\ call'.op = call.op /\ call'.scope = call.scope
    BY <1>3, <2>4 DEF Call
  <2>6. call' \in Call
    <3>1. i \in [lease: Lease \cup {NoLease}, exp: Minutes]
      BY <1>4 DEF Entry
    <3> QED
      BY <1>3, <2>2, <2>3, <2>4, <3>1 DEF Call, Steps, Handling
  <2>7. CallInv'
    BY <1>3, <1>4, <2>3, <2>5, <2>6 DEF CallInv
  <2> QED
    BY <2>1, <2>5, <2>7
<1>7. CASE \E ok \in BOOLEAN :
                   /\ i.lease \in Leases
                   /\ UpdateTemplate(i.lease, i.exp, ok)
                   /\ call' = [call EXCEPT !.step = IF ok THEN "cleanup" ELSE "reverting", !.item = i,
                            !.todo = @ \ {i}, !.back = templates[i.lease].exp,
                            !.kept = promised[i.lease] > 0]
                   /\ IF ok THEN Start(Service, DeleteCleanup(i.lease)) ELSE UNCHANGED sweeps
                   /\ promised' = [promised EXCEPT ![i.lease] = 0]
                   /\ paused' = paused \ {i.lease}
  BY <1>2, <1>4, <1>6, <1>7
<1> QED
  BY <1>1, <1>5, <1>7

(* After a template was updated, all have their types.                      *)
LEMMA UpdateKeeps ==
  ASSUME TypeInv, NEW l \in Leases, NEW exp \in Minutes, NEW ok \in BOOLEAN,
         UpdateTemplate(l, exp, ok), used' = used
  PROVE  /\ templates' \in [Lease -> Template \cup {NoTemplate}]
         /\ spent' \in [{"op", "boot", "mishap"} -> Nat]
         /\ \A k \in Lease : templates'[k] # NoTemplate => templates'[k].exp \in Minutes /\ k \in used'
         /\ \A k \in Lease : templates[k] = NoTemplate => templates'[k] = NoTemplate
<1>1. templates[l] # NoTemplate /\ l \in Lease /\ templates[l].exp \in Minutes /\ l \in used
  BY DEF Leases, TypeInv, Templates
<1>2. templates'[l].exp \in Minutes
  BY <1>1, UpdateSteps
<1>3. \A k \in Lease : templates[k] # NoTemplate => templates[k].exp \in Minutes /\ k \in used
  BY DEF TypeInv, Templates
<1> QED
  BY <1>1, <1>2, <1>3, UpdateSteps

(* A renewal keeps the types.                                               *)
LEMMA RenewTypes == ASSUME TypeInv, Renew PROVE TypeInv'
<1>1. PICK i \in call.todo :
           /\ UNCHANGED <<now, jobs, tasks, svc, used, revoked>>
           /\ CallInv' /\ i.lease \in Lease /\ i.exp \in Minutes
           /\ \/ UNCHANGED <<templates, sweeps, spent, promised, paused>>
              \/ \E ok \in BOOLEAN :
                   /\ i.lease \in Leases
                   /\ UpdateTemplate(i.lease, i.exp, ok)
                   /\ IF ok THEN Start(Service, DeleteCleanup(i.lease)) ELSE UNCHANGED sweeps
                   /\ promised' = [promised EXCEPT ![i.lease] = 0]
                   /\ paused' = paused \ {i.lease}
  BY RenewSteps
<1>2. CASE UNCHANGED <<templates, sweeps, spent, promised, paused>>
  BY <1>1, <1>2, RestKept, SameRows, OnlyCall
<1>3. ASSUME NEW ok \in BOOLEAN, i.lease \in Leases,
             UpdateTemplate(i.lease, i.exp, ok),
             IF ok THEN Start(Service, DeleteCleanup(i.lease)) ELSE UNCHANGED sweeps,
             promised' = [promised EXCEPT ![i.lease] = 0],
             paused' = paused \ {i.lease}
      PROVE  TypeInv'
  <2>1. sweeps' \in [Job \cup {Service} -> SweepType]
    <3>1. ok \/ ~ok
      OBVIOUS
    <3>2. CASE ok
      BY <1>1, <1>3, <3>2, SweepTypes, StartSteps
    <3>3. CASE ~ok
      BY <1>3, <3>3, SameRows
    <3> QED
      BY <3>1, <3>2, <3>3
  <2>2. RestTypes'
    BY <1>1, <1>3 DEF TypeInv, RestTypes
  <2>3. used' \subseteq Lease /\ revoked' \subseteq used' /\ UNCHANGED jobs
    BY <1>1 DEF TypeInv
  <2> QED
    BY <1>1, <1>3, <2>1, <2>2, <2>3, UpdateKeeps, SameRows, TypesFrom
<1> QED
  BY <1>1, <1>2, <1>3

(* A job was added, or not.                                                 *)
LEMMA AddKeeps ==
  ASSUME TypeInv, CallInv', RestTypes', UNCHANGED <<templates, used, revoked>>,
         NEW kind \in {"driver", "guard", "cleanup"}, NEW ok \in BOOLEAN,
         AddJob(kind, ok), call.step \in Handling,
         sweeps' \in [Job \cup {Service} -> SweepType]
  PROVE  TypeInv'
<1>1. used' \subseteq Lease /\ revoked' \subseteq used' /\ call.item.lease \in Lease
  BY DEF TypeInv, CallInv
<1> QED
  BY <1>1, AddSteps, SameTemplates, TypesFrom

(* The new cleanup job, and where each operation goes from there.           *)
LEMMA CreateCleanupSteps ==
  ASSUME TypeInv, CreateCleanup
  PROVE  \E ok \in BOOLEAN :
           /\ UNCHANGED <<now, templates, tasks, svc, used, promised, revoked, paused>>
           /\ At("cleanup") /\ AddJob("cleanup", ok) /\ CallInv' /\ call.item.lease \in Lease
           /\ \/ call.op = "revert" /\ call' = Locals
              \/ /\ call.op = "initialize" /\ call'.op = "initialize" /\ call'.step = "reconciling"
                 /\ call'.todo = call.todo /\ call'.length = call.length
                 /\ call'.ready = IF ok THEN call.ready \cup {call.item} ELSE call.ready
              \/ /\ call.op \notin {"revert", "initialize"}
                 /\ \E step \in Handling : /\ call' = [call EXCEPT !.step = step]
                                           /\ ok => step = "arming"
                                           /\ call'.step = step /\ call'.item = call.item
                                           /\ call'.op = call.op /\ call'.back = call.back
                                           /\ call'.kept = call.kept
           /\ IF ok /\ call.op \in {"create", "renew"} /\ svc.gate
              THEN Start(Service, Disarm(call.item.lease)) ELSE UNCHANGED sweeps
<1>1. PICK ok \in BOOLEAN :
       /\ AddJob("cleanup", ok)
       /\ IF call.op = "revert" THEN End
          ELSE IF call.op = "initialize"
          THEN call' = [call EXCEPT !.step = "reconciling",
                                    !.ready = IF ok THEN @ \cup {call.item} ELSE @]
          ELSE Goto(IF ok THEN "arming" ELSE IF call.op = "create" THEN "withdrawing"
                    ELSE "restoring")
       /\ IF ok /\ call.op \in {"create", "renew"} /\ svc.gate
          THEN Start(Service, Disarm(call.item.lease)) ELSE UNCHANGED sweeps
  BY DEF CreateCleanup
<1>2. UNCHANGED <<now, templates, tasks, svc, used, promised, revoked, paused>> /\ At("cleanup")
  BY DEF CreateCleanup, history
<1>3. call \in Call /\ CallInv
  BY DEF TypeInv, CallInv
<1>4. call.item.lease \in Lease
  BY <1>2, <1>3 DEF At, CallInv, Handling
<1>5. CASE call.op = "revert"
  <2>1. End
    BY <1>1, <1>5
  <2>2. call' = Locals
    BY <2>1 DEF End
  <2> QED
    BY <1>1, <1>2, <1>4, <1>5, <2>1, <2>2, EndType
<1>6. CASE call.op = "initialize"
  <2>1. PICK ready : ready = IF ok THEN call.ready \cup {call.item} ELSE call.ready
    OBVIOUS
  <2>2. call' = [call EXCEPT !.step = "reconciling", !.ready = ready]
    BY <1>1, <1>6, <2>1
  <2>3. call.item \in Entry
    BY <1>3, <1>4 DEF Call, Entry
  <2>4. ready \subseteq Entry
    BY <1>3, <2>1, <2>3 DEF Call
  <2>5. call' \in Call /\ call'.step = "reconciling" /\ call'.op = "initialize" /\ call'.ready = ready
        /\ call'.todo = call.todo /\ call'.length = call.length
    BY <1>3, <1>6, <2>2, <2>4 DEF Call, Steps
  <2>6. CallInv'
    BY <2>5 DEF CallInv, Handling
  <2> QED
    BY <1>1, <1>2, <1>4, <1>6, <2>1, <2>5, <2>6
<1>7. CASE call.op \notin {"revert", "initialize"}
  <2>1. PICK step : step = IF ok THEN "arming" ELSE IF call.op = "create" THEN "withdrawing"
                    ELSE "restoring"
    OBVIOUS
  <2>2. Goto(step) /\ step \in Handling /\ (ok => step = "arming")
    BY <1>1, <1>7, <2>1 DEF Handling
  <2>3. step \in Steps \ {"adding"}
    BY <2>1 DEF Steps, Handling
  <2>4. call' = [call EXCEPT !.step = step]
    BY <2>2 DEF Goto
  <2>5. CallInv'
    BY <1>3, <1>4, <2>2, <2>3, StepType
  <2>6. call'.step = step /\ call'.item = call.item /\ call'.op = call.op /\ call'.back = call.back
        /\ call'.kept = call.kept
    BY <1>3, <2>4 DEF Call
  <2> QED
    BY <1>1, <1>2, <1>4, <1>7, <2>2, <2>4, <2>5, <2>6
<1> QED
  BY <1>5, <1>6, <1>7

(* Adding a cleanup job keeps the types.                                    *)
LEMMA CreateCleanupTypes == ASSUME TypeInv, CreateCleanup PROVE TypeInv'
<1>1. PICK ok \in BOOLEAN :
           /\ UNCHANGED <<now, templates, tasks, svc, used, promised, revoked, paused>>
           /\ At("cleanup") /\ AddJob("cleanup", ok) /\ CallInv' /\ call.item.lease \in Lease
           /\ IF ok /\ call.op \in {"create", "renew"} /\ svc.gate
              THEN Start(Service, Disarm(call.item.lease)) ELSE UNCHANGED sweeps
  BY CreateCleanupSteps
<1>2. sweeps' \in [Job \cup {Service} -> SweepType]
  <2>1. UNCHANGED sweeps \/ Start(Service, Disarm(call.item.lease))
    BY <1>1
  <2> QED
    BY <1>1, <2>1, SameRows, SweepTypes, StartSteps
<1>3. call.step \in Handling
  BY <1>1 DEF At, Handling
<1> QED
  BY <1>1, <1>2, <1>3, RestKept, AddKeeps

(* The new driver: with it the operation goes on to the guard.              *)
LEMMA ArmSteps ==
  ASSUME TypeInv, ArmDriver
  PROVE  \E ok \in BOOLEAN :
           /\ UNCHANGED <<now, templates, tasks, sweeps, svc, used, promised, revoked, paused>>
           /\ At("arming") /\ AddJob("driver", ok) /\ CallInv' /\ call.item.lease \in Lease
           /\ call'.step # "opening"
           /\ ok => /\ call'.step = "guarding" /\ call'.made = NewJob /\ call'.op = call.op
                    /\ call'.item = call.item /\ call'.back = call.back /\ call'.kept = call.kept
                    /\ call'.todo = call.todo /\ call'.length = call.length
<1>1. PICK ok \in BOOLEAN :
        /\ AddJob("driver", ok)
        /\ IF ok THEN call' = [call EXCEPT !.step = "guarding", !.made = NewJob] ELSE ArmFailed
  BY DEF ArmDriver
<1>2. UNCHANGED <<now, templates, tasks, sweeps, svc, used, promised, revoked, paused>>
      /\ At("arming")
  BY DEF ArmDriver, history
<1>3. call \in Call /\ CallInv
  BY DEF TypeInv, CallInv
<1>4. call.step \in Handling /\ call.item.lease \in Lease
  BY <1>2, <1>3 DEF At, CallInv, Handling
<1>5. CASE ok
  <2>1. NewJob \in Job
    BY <1>1, NewJobFree DEF AddJob, Unused
  <2>2. PICK made \in Job : made = NewJob
    BY <2>1
  <2>3. call' = [call EXCEPT !.step = "guarding", !.made = made]
    BY <1>1, <1>5, <2>2
  <2>4. call' \in Call /\ call'.step = "guarding" /\ call'.made = made /\ call'.op = call.op
        /\ call'.item = call.item /\ call'.back = call.back /\ call'.kept = call.kept
        /\ call'.todo = call.todo /\ call'.length = call.length /\ call'.scope = call.scope
    BY <1>3, <2>3 DEF Call, Steps, Handling
  <2>5. CallInv'
    BY <1>3, <1>4, <2>4 DEF CallInv
  <2> QED
    BY <1>1, <1>2, <1>4, <2>2, <2>4, <2>5
<1>6. CASE ~ok
  <2>1. ArmFailed
    BY <1>1, <1>6
  <2> QED
    BY <1>1, <1>2, <1>4, <1>6, <2>1, ArmFailedType
<1> QED
  BY <1>5, <1>6

(* Adding a driver keeps the types.                                         *)
LEMMA ArmTypes == ASSUME TypeInv, ArmDriver PROVE TypeInv'
<1>1. PICK ok \in BOOLEAN :
           /\ UNCHANGED <<now, templates, tasks, sweeps, svc, used, promised, revoked, paused>>
           /\ At("arming") /\ AddJob("driver", ok) /\ CallInv'
  BY ArmSteps
<1>2. call.step \in Handling
  BY <1>1 DEF At, Handling
<1> QED
  BY <1>1, <1>2, RestKept, SameRows, AddKeeps

(* The refusal of a gate that is closed keeps the types and every row.      *)
LEMMA ArmRefusedTypes ==
  ASSUME TypeInv, ArmRefused
  PROVE  TypeInv' /\ call'.step # "opening" /\ UNCHANGED <<templates, jobs, svc, revoked>>
<1>1. UNCHANGED <<now, templates, jobs, tasks, sweeps, svc, used, spent, promised, revoked, paused>>
      /\ At("arming") /\ ArmFailed
  BY DEF ArmRefused, history
<1>2. CallInv' /\ call'.step # "opening"
  BY <1>1, ArmFailedType DEF At, Handling
<1> QED
  BY <1>1, <1>2, RestKept, SameRows, OnlyCall

(* The new guard: with it the lease is acknowledged, where a create or a    *)
(* renewal asked for it.                                                    *)
LEMMA GuardSteps ==
  ASSUME TypeInv, ArmGuard
  PROVE  \E ok \in BOOLEAN :
           /\ UNCHANGED <<now, templates, tasks, sweeps, svc, used, revoked, paused>>
           /\ At("guarding") /\ AddJob("guard", ok) /\ CallInv' /\ call.item.lease \in Lease
           /\ call'.step # "opening"
           /\ ok => Continue
           /\ ~ok => call'.step = "disowning"
           /\ promised' = IF ok /\ (call.op = "create" \/ (call.op = "renew" /\ call.kept /\ now < call.back))
                          THEN [promised EXCEPT ![call.item.lease] = call.item.exp] ELSE promised
<1>1. PICK ok \in BOOLEAN :
       /\ AddJob("guard", ok)
       /\ IF ok THEN Continue ELSE Goto("disowning")
       /\ promised' = IF ok /\ (call.op = "create" \/ (call.op = "renew" /\ call.kept /\ now < call.back))
                      THEN [promised EXCEPT ![call.item.lease] = call.item.exp] ELSE promised
  BY DEF ArmGuard
<1>2. UNCHANGED <<now, templates, tasks, sweeps, svc, used, revoked, paused>> /\ At("guarding")
  BY DEF ArmGuard
<1>3. call \in Call /\ CallInv
  BY DEF TypeInv, CallInv
<1>4. call.item.lease \in Lease
  BY <1>2, <1>3 DEF At, CallInv, Handling
<1>5. CASE ok
  <2>1. Continue
    BY <1>1, <1>5
  <2>2. CallInv' /\ call'.step # "opening"
    BY <2>1, ContinueType
  <2> QED
    BY <1>1, <1>2, <1>4, <1>5, <2>1, <2>2
<1>6. CASE ~ok
  <2>1. Goto("disowning")
    BY <1>1, <1>6
  <2>2. CallInv' /\ call'.step = "disowning"
    BY <1>3, <1>4, <2>1, StepType DEF Steps, Handling, Goto, Call
  <2> QED
    BY <1>1, <1>2, <1>4, <1>6, <2>2
<1> QED
  BY <1>5, <1>6

(* Adding a guard keeps the types.                                          *)
LEMMA GuardTypes == ASSUME TypeInv, ArmGuard PROVE TypeInv'
<1>1. PICK ok \in BOOLEAN :
           /\ UNCHANGED <<now, templates, tasks, sweeps, svc, used, revoked, paused>>
           /\ At("guarding") /\ AddJob("guard", ok) /\ CallInv' /\ call.item.lease \in Lease
           /\ promised' = IF ok /\ (call.op = "create" \/ (call.op = "renew" /\ call.kept /\ now < call.back))
                          THEN [promised EXCEPT ![call.item.lease] = call.item.exp] ELSE promised
  BY GuardSteps
<1>2. call.step \in Handling
  BY <1>1 DEF At, Handling
<1>3. call.item.exp \in Nat
  BY DEF TypeInv, CallInv, Call, Minutes
<1>4. promised' = promised \/ promised' = [promised EXCEPT ![call.item.lease] = call.item.exp]
  BY <1>1
<1>5. promised' \in [Lease -> Nat]
  BY <1>1, <1>3, <1>4 DEF TypeInv
<1>6. RestTypes'
  BY <1>1, <1>5 DEF TypeInv, RestTypes
<1> QED
  BY <1>1, <1>2, <1>6, SameRows, AddKeeps

(* The rare ways on: only a call of the cron that raised leads to them.     *)
LEMMA WithdrawTypes ==
  ASSUME TypeInv, Withdraw
  PROVE  /\ TypeInv' /\ call'.step = "ending" /\ UNCHANGED <<jobs, svc, revoked>>
         /\ \A k \in Lease : templates'[k] = templates[k] \/ templates'[k] = NoTemplate
<1>1. UNCHANGED <<now, jobs, tasks, svc, used, promised, revoked, paused>> /\ At("withdrawing")
      /\ Start(Service, DeleteCleanup(call.item.lease)) /\ Goto("ending")
  BY DEF Withdraw, history
<1>2. PICK ok \in BOOLEAN : DeleteTemplate(call.item.lease, ok)
  BY DEF Withdraw
<1>3. call \in Call /\ CallInv
  BY DEF TypeInv, CallInv
<1>4. call.item.lease \in Lease
  BY <1>1, <1>3 DEF At, CallInv, Handling
<1>5. CallInv'
  BY <1>1, <1>3, <1>4, StepType DEF Steps
<1>6. sweeps' \in [Job \cup {Service} -> SweepType]
  BY <1>1, <1>4, SweepTypes, StartSteps
<1>7. TypeInv'
  BY <1>1, <1>2, <1>4, <1>5, <1>6, RestKept, DeleteSteps, TypesKept
<1>8. call'.step = "ending"
  BY <1>1, <1>3 DEF Goto, Call
<1> QED
  BY <1>1, <1>2, <1>4, <1>7, <1>8, DeleteSteps

(* The rollback of a lease that could not be armed keeps the types and      *)
(* brings no lease back.                                                    *)
LEMMA RevertTypes ==
  ASSUME TypeInv, Revert
  PROVE  /\ TypeInv' /\ call'.step # "opening" /\ UNCHANGED <<jobs, svc, revoked>>
         /\ \A k \in Lease : templates[k] = NoTemplate => templates'[k] = NoTemplate
<1>1. UNCHANGED <<now, jobs, tasks, svc, used, promised, revoked, paused>>
      /\ call.step \in {"reverting", "restoring"}
      /\ \/ End /\ UNCHANGED <<templates, sweeps, spent>>
         \/ /\ call.item.lease \in Leases
            /\ \E ok \in BOOLEAN :
                 /\ UpdateTemplate(call.item.lease, call.back, ok)
                 /\ \/ /\ call' = [call EXCEPT !.op = "revert", !.step = "cleanup",
                                               !.item.exp = call.back]
                       /\ Start(Service, DeleteCleanup(call.item.lease))
                    \/ End /\ UNCHANGED sweeps
  BY DEF Revert, history, At
<1>2. call \in Call /\ CallInv
  BY DEF TypeInv, CallInv
<1>3. call.item.lease \in Lease /\ call.back \in Minutes
  BY <1>1, <1>2 DEF CallInv, Handling, Call
<1>4. CASE End /\ UNCHANGED <<templates, sweeps, spent>>
  <2>1. CallInv' /\ call'.step # "opening"
    BY <1>4, EndType, LocalsType DEF End
  <2> QED
    BY <1>1, <1>4, <2>1, RestKept, SameRows, OnlyCall
<1>5. ASSUME NEW ok \in BOOLEAN, call.item.lease \in Leases,
             UpdateTemplate(call.item.lease, call.back, ok),
             \/ /\ call' = [call EXCEPT !.op = "revert", !.step = "cleanup", !.item.exp = call.back]
                /\ Start(Service, DeleteCleanup(call.item.lease))
             \/ End /\ UNCHANGED sweeps
      PROVE  /\ TypeInv' /\ call'.step # "opening"
             /\ \A k \in Lease : templates[k] = NoTemplate => templates'[k] = NoTemplate
  <2>1. CallInv' /\ call'.step # "opening"
    <3>1. CASE call' = [call EXCEPT !.op = "revert", !.step = "cleanup", !.item.exp = call.back]
      <4>1. call' \in Call /\ call'.step = "cleanup" /\ call'.op = "revert"
            /\ call'.item.lease = call.item.lease
        BY <1>2, <1>3, <3>1 DEF Call, Ops, Steps, Handling
      <4> QED
        BY <1>3, <4>1 DEF CallInv
    <3>2. CASE End
      BY <3>2, EndType, LocalsType DEF End
    <3> QED
      BY <1>5, <3>1, <3>2
  <2>2. sweeps' \in [Job \cup {Service} -> SweepType]
    BY <1>3, <1>5, SameRows, SweepTypes, StartSteps
  <2>3. /\ templates' \in [Lease -> Template \cup {NoTemplate}]
        /\ spent' \in [{"op", "boot", "mishap"} -> Nat]
        /\ \A k \in Lease : templates'[k] # NoTemplate => templates'[k].exp \in Minutes /\ k \in used'
        /\ \A k \in Lease : templates[k] = NoTemplate => templates'[k] = NoTemplate
    BY <1>1, <1>3, <1>5, UpdateKeeps
  <2>4. used' \subseteq Lease /\ revoked' \subseteq used'
    BY <1>1 DEF TypeInv
  <2> QED
    BY <1>1, <2>1, <2>2, <2>3, <2>4, RestKept, SameRows, TypesFrom
<1> QED
  BY <1>1, <1>4, <1>5

(* The deletion of a driver without a guard keeps the types and adds no     *)
(* job.                                                                     *)
LEMMA DisownTypes ==
  ASSUME TypeInv, Disown
  PROVE  /\ TypeInv' /\ call'.step # "opening" /\ UNCHANGED <<templates, svc, revoked>>
         /\ \A k \in Job : jobs'[k] = jobs[k] \/ jobs'[k] = NoJob
<1>1. UNCHANGED <<now, templates, tasks, sweeps, svc, used, promised, revoked, paused>>
      /\ At("disowning") /\ ArmFailed
  BY DEF Disown, history
<1>2. CallInv' /\ call'.step # "opening"
  BY <1>1, ArmFailedType DEF At, Handling
<1>3. (jobs' = [jobs EXCEPT ![call.made] = NoJob] /\ UNCHANGED spent) \/ (Spend("mishap") /\ UNCHANGED jobs)
  BY DEF Disown
<1>4. jobs' \in [Job -> JobRecord \cup {NoJob}] /\ \A k \in Job : jobs'[k] = jobs[k] \/ jobs'[k] = NoJob
  <2>1. jobs \in [Job -> JobRecord \cup {NoJob}]
    BY SameRows
  <2> QED
    BY <1>3, <2>1
<1>5. spent' \in [{"op", "boot", "mishap"} -> Nat]
  BY <1>3, SameRows, SpendType
<1>6. used' \subseteq Lease /\ revoked' \subseteq used'
  BY <1>1 DEF TypeInv
<1>7. TypeInv'
  BY <1>1, <1>2, <1>4, <1>5, <1>6, RestKept, SameRows, SameTemplates, TypesFrom
<1> QED
  BY <1>1, <1>2, <1>4, <1>7

(* A disable takes one lease, lets its promise go and disarms it.           *)
LEMMA DisableSteps ==
  ASSUME TypeInv, DisableNext
  PROVE  \E i \in call.todo :
           /\ UNCHANGED <<now, templates, jobs, tasks, svc, used, spent, revoked, paused>>
           /\ At("disarming") /\ i.lease \in Lease /\ CallInv'
           /\ call'.step = "deleting" /\ call'.item = i /\ call'.todo = call.todo \ {i}
           /\ call'.op = call.op /\ call'.scope = call.scope
           /\ Start(Service, Disarm(i.lease))
           /\ promised' = IF i.lease \in Leases => templates[i.lease].scope = call.scope
                          THEN [promised EXCEPT ![i.lease] = 0] ELSE promised
<1>1. PICK i \in call.todo :
           /\ call' = [call EXCEPT !.step = "deleting", !.item = i, !.todo = @ \ {i}]
           /\ Start(Service, Disarm(i.lease))
           /\ promised' = IF i.lease \in Leases => templates[i.lease].scope = call.scope
                          THEN [promised EXCEPT ![i.lease] = 0] ELSE promised
  BY DEF DisableNext
<1>2. UNCHANGED <<now, templates, jobs, tasks, svc, used, spent, revoked, paused>> /\ At("disarming")
  BY DEF DisableNext
<1>3. call \in Call /\ CallInv
  BY DEF TypeInv, CallInv
<1>4. i \in Entry /\ i.lease \in Lease
  BY <1>3 DEF Call, Entry
<1>5. call'.step = "deleting" /\ call'.item = i /\ call'.todo = call.todo \ {i}
      /\ call'.op = call.op /\ call'.scope = call.scope
  BY <1>1, <1>3 DEF Call
<1>6. call' \in Call
  <2>1. i \in [lease: Lease \cup {NoLease}, exp: Minutes]
    BY <1>4 DEF Entry
  <2> QED
    BY <1>1, <1>3, <2>1 DEF Call, Steps, Handling
<1>7. CallInv'
  BY <1>3, <1>4, <1>5, <1>6 DEF CallInv
<1> QED
  BY <1>1, <1>2, <1>4, <1>5, <1>7

(* Disarming a lease keeps the types.                                       *)
LEMMA DisableTypes == ASSUME TypeInv, DisableNext PROVE TypeInv'
<1>1. PICK i \in call.todo :
           /\ UNCHANGED <<now, templates, jobs, tasks, svc, used, spent, revoked, paused>>
           /\ i.lease \in Lease /\ CallInv'
           /\ Start(Service, Disarm(i.lease))
           /\ promised' = promised \/ promised' = [promised EXCEPT ![i.lease] = 0]
  BY DisableSteps
<1>2. RestTypes'
  BY <1>1 DEF TypeInv, RestTypes
<1>3. sweeps' \in [Job \cup {Service} -> SweepType]
  BY <1>1, SweepTypes, StartSteps
<1> QED
  BY <1>1, <1>2, <1>3, SameRows, OnlyCall

(* A disable deletes the template of the lease it disarmed; only then is    *)
(* the removal acknowledged.                                                *)
LEMMA DeleteLeaseSteps ==
  ASSUME TypeInv, DeleteLease
  PROVE  /\ UNCHANGED <<now, jobs, tasks, svc, used, promised, paused>>
         /\ At("deleting") /\ CallInv' /\ call.item.lease \in Lease
         /\ \/ call' = Locals
            \/ /\ call'.step \in {"disarming", "ending"} /\ call'.op = call.op
               /\ call'.scope = call.scope /\ call'.todo = call.todo
         /\ \/ UNCHANGED <<templates, sweeps, spent, revoked>>
            \/ \E ok \in BOOLEAN :
                 /\ DeleteTemplate(call.item.lease, ok)
                 /\ IF ok THEN Start(Service, DeleteCleanup(call.item.lease)) ELSE UNCHANGED sweeps
                 /\ revoked' = IF ok THEN revoked \cup {call.item.lease} ELSE revoked
                 /\ call.item.lease \in Leases
<1>1. PICK step \in {"disarming", "ending"} : step = IF call.todo # {} THEN "disarming" ELSE "ending"
  OBVIOUS
<1>2. /\ UNCHANGED <<now, jobs, tasks, svc, used, promised, paused>> /\ At("deleting")
      /\ \/ Goto(step) /\ UNCHANGED <<templates, sweeps, spent, revoked>>
         \/ \E ok \in BOOLEAN :
              /\ call.item.lease \in Leases
              /\ DeleteTemplate(call.item.lease, ok)
              /\ IF ok THEN Goto(step) /\ Start(Service, DeleteCleanup(call.item.lease))
                 ELSE End /\ UNCHANGED sweeps
              /\ revoked' = IF ok THEN revoked \cup {call.item.lease} ELSE revoked
  BY <1>1 DEF DeleteLease
<1>3. call \in Call /\ CallInv
  BY DEF TypeInv, CallInv
<1>4. call.item.lease \in Lease
  BY <1>2, <1>3 DEF At, CallInv, Handling
<1>5. Goto(step) => CallInv'
  BY <1>3, StepType DEF Steps, Handling
<1>6. Goto(step) => /\ call'.step \in {"disarming", "ending"} /\ call'.op = call.op
                    /\ call'.scope = call.scope /\ call'.todo = call.todo
  BY <1>3 DEF Goto, Call
<1>7. End => CallInv' /\ call' = Locals
  BY EndType DEF End
<1>8. CASE Goto(step) /\ UNCHANGED <<templates, sweeps, spent, revoked>>
  BY <1>2, <1>4, <1>5, <1>6, <1>8
<1>9. ASSUME NEW ok \in BOOLEAN, call.item.lease \in Leases, DeleteTemplate(call.item.lease, ok),
             IF ok THEN Goto(step) /\ Start(Service, DeleteCleanup(call.item.lease))
             ELSE End /\ UNCHANGED sweeps,
             revoked' = IF ok THEN revoked \cup {call.item.lease} ELSE revoked
      PROVE  /\ CallInv'
             /\ \/ call' = Locals
                \/ /\ call'.step \in {"disarming", "ending"} /\ call'.op = call.op
                   /\ call'.scope = call.scope /\ call'.todo = call.todo
             /\ IF ok THEN Start(Service, DeleteCleanup(call.item.lease)) ELSE UNCHANGED sweeps
  <2>1. CASE ok
    BY <1>5, <1>6, <1>9, <2>1
  <2>2. CASE ~ok
    BY <1>7, <1>9, <2>2
  <2> QED
    BY <2>1, <2>2
<1> QED
  BY <1>2, <1>4, <1>8, <1>9

(* That deletion keeps the types, and what it reports removed has no        *)
(* template.                                                                *)
LEMMA DeleteLeaseTypes ==
  ASSUME TypeInv, DeleteLease
  PROVE  /\ TypeInv'
         /\ \A k \in Lease : templates'[k] = templates[k] \/ templates'[k] = NoTemplate
         /\ \/ revoked' = revoked
            \/ revoked' = revoked \cup {call.item.lease} /\ templates'[call.item.lease] = NoTemplate
<1>1. /\ UNCHANGED <<now, jobs, tasks, svc, used, promised, paused>>
      /\ CallInv' /\ call.item.lease \in Lease
  BY DeleteLeaseSteps
<1>2. CASE UNCHANGED <<templates, sweeps, spent, revoked>>
  BY <1>1, <1>2, RestKept, SameRows, OnlyCall
<1>3. ASSUME NEW ok \in BOOLEAN,
             DeleteTemplate(call.item.lease, ok),
             IF ok THEN Start(Service, DeleteCleanup(call.item.lease)) ELSE UNCHANGED sweeps,
             revoked' = IF ok THEN revoked \cup {call.item.lease} ELSE revoked,
             call.item.lease \in Leases
      PROVE  /\ TypeInv'
             /\ \A k \in Lease : templates'[k] = templates[k] \/ templates'[k] = NoTemplate
             /\ \/ revoked' = revoked
                \/ revoked' = revoked \cup {call.item.lease} /\ templates'[call.item.lease] = NoTemplate
  <2>1. sweeps' \in [Job \cup {Service} -> SweepType]
    <3>1. UNCHANGED sweeps \/ Start(Service, DeleteCleanup(call.item.lease))
      BY <1>3
    <3> QED
      BY <1>1, <3>1, SameRows, SweepTypes, StartSteps
  <2>2. /\ templates' \in [Lease -> Template \cup {NoTemplate}]
        /\ \A k \in Lease : templates'[k] = templates[k] \/ templates'[k] = NoTemplate
        /\ ok => templates'[call.item.lease] = NoTemplate
        /\ spent' \in [{"op", "boot", "mishap"} -> Nat]
    BY <1>1, <1>3, DeleteSteps
  <2>3. call.item.lease \in used
    BY <1>3 DEF Leases, TypeInv, Templates
  <2>4. used' \subseteq Lease /\ revoked' \subseteq used'
    BY <1>1, <1>3, <2>3 DEF TypeInv
  <2>5. TypeInv'
    BY <1>1, <2>1, <2>2, <2>4, RestKept, SameRows, FewerTemplates, TypesFrom
  <2> QED
    BY <1>3, <2>2, <2>5
<1> QED
  BY <1>2, <1>3, DeleteLeaseSteps

(* The end of a disable or of terminate keeps the types and every row.      *)
LEMMA FinishTypes ==
  ASSUME TypeInv, Finish \/ Terminated
  PROVE  /\ TypeInv' /\ call' = Locals
         /\ UNCHANGED <<now, templates, jobs, tasks, sweeps, used, spent, promised, revoked, paused>>
         /\ svc'.gate = svc.gate /\ svc'.instance = svc.instance
<1>1. /\ UNCHANGED <<now, templates, jobs, tasks, sweeps, used, spent, promised, revoked, paused>>
      /\ End /\ (svc' = svc \/ svc' = [svc EXCEPT !.loaded = FALSE])
  BY DEF Finish, Terminated, history
<1>2. svc' \in [instance: Nat, loaded: BOOLEAN, active: BOOLEAN, gate: BOOLEAN]
      /\ svc'.gate = svc.gate /\ svc'.instance = svc.instance
  BY <1>1 DEF TypeInv
<1>3. CallInv' /\ call' = Locals
  BY <1>1, EndType DEF End
<1>4. RestTypes'
  BY <1>1, <1>2 DEF TypeInv, RestTypes
<1> QED
  BY <1>1, <1>2, <1>3, <1>4, SameRows, OnlyCall

(* A listing that raises keeps the types and every row.                     *)
LEMMA ListFailsTypes ==
  ASSUME TypeInv, ListFails
  PROVE  /\ TypeInv' /\ call'.step # "opening" /\ Spend("mishap")
         /\ UNCHANGED <<templates, jobs, revoked>>
         /\ svc'.gate = svc.gate /\ svc'.instance = svc.instance
<1>1. /\ UNCHANGED <<now, templates, jobs, tasks, used, promised, revoked, paused>>
      /\ Start(Service, NoSweep) /\ Spend("mishap")
      /\ \/ call.step = "arming" /\ ArmFailed
         \/ call.step = "cleanup" /\ Goto("reverting")
         \/ End
  BY DEF ListFails, history
<1>2. PICK loaded \in BOOLEAN : svc' = [svc EXCEPT !.loaded = loaded]
  <2>1. svc' = [svc EXCEPT !.loaded = svc.loaded /\ call.op # "terminate"]
    BY DEF ListFails
  <2>2. (svc.loaded /\ call.op # "terminate") \in BOOLEAN
    OBVIOUS
  <2> QED
    BY <2>1, <2>2
<1>3. svc' \in [instance: Nat, loaded: BOOLEAN, active: BOOLEAN, gate: BOOLEAN]
      /\ svc'.gate = svc.gate /\ svc'.instance = svc.instance
  BY <1>2 DEF TypeInv
<1>4. call \in Call /\ CallInv
  BY DEF TypeInv, CallInv
<1>5. ASSUME call.step = "arming", ArmFailed PROVE CallInv' /\ call'.step # "opening"
  BY <1>5, ArmFailedType DEF Handling
<1>6. ASSUME call.step = "cleanup", Goto("reverting") PROVE CallInv' /\ call'.step # "opening"
  <2>1. call.item.lease \in Lease
    BY <1>4, <1>6 DEF CallInv, Handling
  <2>2. CallInv'
    BY <1>4, <1>6, <2>1, StepType DEF Steps, Handling
  <2>3. call'.step = "reverting"
    BY <1>4, <1>6 DEF Goto, Call
  <2> QED
    BY <2>2, <2>3
<1>7. ASSUME End PROVE CallInv' /\ call'.step # "opening"
  BY <1>7, EndType, LocalsType DEF End
<1>8. CallInv' /\ call'.step # "opening"
  BY <1>1, <1>5, <1>6, <1>7
<1>9. sweeps' \in [Job \cup {Service} -> SweepType] /\ spent' \in [{"op", "boot", "mishap"} -> Nat]
  BY <1>1, SweepTypes, StartSteps, SpendType
<1>10. RestTypes'
  BY <1>1, <1>3 DEF TypeInv, RestTypes
<1>11. TypeInv'
  BY <1>1, <1>8, <1>9, <1>10, OnlyCall
<1> QED
  BY <1>1, <1>3, <1>8, <1>11

(* The inventory of initialize: all leases with their expiries.             *)
LEMMA InitialInventorySteps ==
  ASSUME TypeInv, InitialInventory
  PROVE  /\ TypeInv' /\ At("inventory") /\ call.op = "initialize"
         /\ UNCHANGED <<now, templates, jobs, tasks, sweeps, svc, used, spent, promised, revoked, paused>>
         /\ call'.step = "reconciling" /\ call'.op = "initialize" /\ call'.length = call.length
         /\ call'.todo = {[lease |-> l, exp |-> templates[l].exp] : l \in Leases}
         /\ call'.ready = call.ready /\ call'.item = call.item
<1>1. PICK todo : todo = {[lease |-> l, exp |-> templates[l].exp] : l \in Leases}
  OBVIOUS
<1>2. todo \subseteq Entry
  BY <1>1 DEF Entry, Leases, TypeInv, Templates
<1>3. call \in Call /\ CallInv
  BY DEF TypeInv, CallInv
<1>4. /\ UNCHANGED <<now, templates, jobs, tasks, sweeps, svc, used, spent, promised, revoked, paused>>
      /\ call' = [call EXCEPT !.step = "reconciling", !.todo = todo]
      /\ At("inventory") /\ call.op = "initialize"
  BY <1>1 DEF InitialInventory, history
<1>5. call' \in Call /\ call'.step = "reconciling" /\ call'.op = "initialize" /\ call'.todo = todo
      /\ call'.length = call.length /\ call'.ready = call.ready /\ call'.item = call.item
  BY <1>2, <1>3, <1>4 DEF Call, Steps
<1>6. CallInv'
  BY <1>5 DEF CallInv, Handling
<1> QED
  BY <1>1, <1>4, <1>5, <1>6, RestKept, SameRows, OnlyCall

(* One lease of initialize: deleted as expired, taken up, or passed over    *)
(* because it is gone or a call raised.                                     *)
LEMMA ReconcileSteps ==
  ASSUME TypeInv, Reconcile
  PROVE  \E i \in call.todo :
           /\ UNCHANGED <<now, jobs, tasks, sweeps, svc, used, promised, revoked, paused>>
           /\ At("reconciling") /\ CallInv' /\ i.lease \in Lease /\ i.exp \in Minutes
           /\ call'.op = call.op /\ call'.length = call.length /\ call'.ready = call.ready
           /\ call'.todo = call.todo \ {i}
           /\ \/ /\ i.exp <= call.length /\ call'.step = call.step /\ call'.item = call.item
                 /\ \E ok \in BOOLEAN : DeleteTemplate(i.lease, ok)
              \/ /\ UNCHANGED <<templates, spent>>
                 /\ i.lease \in Leases /\ call'.step = "cleanup" /\ call'.item = i
              \/ /\ UNCHANGED templates /\ (UNCHANGED spent \/ Spend("mishap"))
                 /\ UNCHANGED spent => i.lease \notin Leases
                 /\ call'.step = call.step /\ call'.item = call.item
<1>1. PICK i \in call.todo :
        \/ /\ i.exp <= call.length /\ call' = [call EXCEPT !.todo = @ \ {i}]
           /\ \E ok \in BOOLEAN : DeleteTemplate(i.lease, ok)
        \/ /\ UNCHANGED <<templates, spent>> /\ i.lease \in Leases
           /\ call' = [[call EXCEPT !.todo = @ \ {i}] EXCEPT !.step = "cleanup", !.item = i]
        \/ /\ UNCHANGED templates
           /\ \/ UNCHANGED spent /\ i.lease \notin Leases
              \/ Spend("mishap")
           /\ call' = [call EXCEPT !.todo = @ \ {i}]
  BY DEF Reconcile
<1>2. UNCHANGED <<now, jobs, tasks, sweeps, svc, used, promised, revoked, paused>> /\ At("reconciling")
  BY DEF Reconcile, history
<1>3. call \in Call /\ CallInv
  BY DEF TypeInv, CallInv
<1>4. i \in Entry /\ i.lease \in Lease /\ i.exp \in Minutes
  BY <1>3 DEF Call, Entry
<1>5. Spend("mishap") => spent' # spent
  BY SameRows DEF Spend
<1>6. CASE call' = [call EXCEPT !.todo = @ \ {i}]
  <2>1. call' \in Call /\ call'.step = call.step /\ call'.item = call.item /\ call'.op = call.op
        /\ call'.length = call.length /\ call'.ready = call.ready /\ call'.todo = call.todo \ {i}
        /\ call'.scope = call.scope
    BY <1>3, <1>6 DEF Call
  <2>2. CallInv'
    BY <1>3, <2>1 DEF CallInv
  <2>3. call.step = "reconciling"
    BY <1>2 DEF At
  <2>4. \/ i.exp <= call.length /\ \E ok \in BOOLEAN : DeleteTemplate(i.lease, ok)
        \/ UNCHANGED <<templates, spent>> /\ i.lease \in Leases /\ call'.step = "cleanup"
        \/ UNCHANGED templates /\ (UNCHANGED spent \/ Spend("mishap")) /\ (UNCHANGED spent => i.lease \notin Leases)
    <3>1. [call EXCEPT !.todo = @ \ {i}] # [[call EXCEPT !.todo = @ \ {i}] EXCEPT !.step = "cleanup", !.item = i]
      BY <1>3, <2>3 DEF Call
    <3> QED
      BY <1>1, <1>5, <1>6, <3>1
  <2>5. call'.step # "cleanup"
    BY <2>1, <2>3
  <2> QED
    BY <1>2, <1>4, <2>1, <2>2, <2>4, <2>5
<1>7. CASE /\ UNCHANGED <<templates, spent>> /\ i.lease \in Leases
           /\ call' = [[call EXCEPT !.todo = @ \ {i}] EXCEPT !.step = "cleanup", !.item = i]
  <2>1. i \in [lease: Lease \cup {NoLease}, exp: Minutes]
    BY <1>4 DEF Entry
  <2>2. call' \in Call /\ call'.step = "cleanup" /\ call'.item = i /\ call'.op = call.op
        /\ call'.length = call.length /\ call'.ready = call.ready /\ call'.todo = call.todo \ {i}
        /\ call'.scope = call.scope
    BY <1>3, <1>7, <2>1 DEF Call, Steps, Handling
  <2>3. CallInv'
    BY <1>3, <1>4, <2>2 DEF CallInv
  <2> QED
    BY <1>2, <1>4, <1>7, <2>2, <2>3
<1> QED
  BY <1>1, <1>6, <1>7

(* That step keeps the types.                                               *)
LEMMA ReconcileTypes ==
  ASSUME TypeInv, Reconcile
  PROVE  /\ TypeInv' /\ call'.step # "opening"
         /\ \A k \in Lease : templates'[k] = templates[k] \/ templates'[k] = NoTemplate
<1>1. PICK i \in call.todo :
           /\ UNCHANGED <<now, jobs, tasks, sweeps, svc, used, promised, revoked, paused>>
           /\ CallInv' /\ i.lease \in Lease /\ call'.step \in {"cleanup", "reconciling"}
           /\ \/ \E ok \in BOOLEAN : DeleteTemplate(i.lease, ok)
              \/ UNCHANGED templates /\ (UNCHANGED spent \/ Spend("mishap"))
  BY ReconcileSteps DEF At
<1>2. CASE \E ok \in BOOLEAN : DeleteTemplate(i.lease, ok)
  BY <1>1, <1>2, RestKept, SameRows, DeleteSteps, TypesKept
<1>3. CASE UNCHANGED templates /\ (UNCHANGED spent \/ Spend("mishap"))
  <2>1. spent' \in [{"op", "boot", "mishap"} -> Nat]
    BY <1>3, SameRows, SpendType
  <2> QED
    BY <1>1, <1>3, <2>1, RestKept, SameRows, OnlyCall
<1> QED
  BY <1>1, <1>2, <1>3

(* A loop the service starts leaves the loops of the handlers alone.        *)
LEMMA ServiceStarts ==
  ASSUME TypeInv, NEW s \in SweepType, Start(Service, s)
  PROVE  /\ sweeps' \in [Job \cup {Service} -> SweepType] /\ sweeps'[Service] = s
         /\ \A b \in Job : sweeps'[b] = sweeps[b]
<1>1. \A b \in Job : b # Service
  BY ServiceIsNoJob
<1>2. Service \in Job \cup {Service}
  OBVIOUS
<1> QED
  BY <1>1, <1>2, StartSteps

(* An operation over every lease goes on to its next loop.                  *)
LEMMA LoopSteps ==
  ASSUME TypeInv, DeleteDrivers \/ Suspend
  PROVE  /\ TypeInv'
         /\ UNCHANGED <<now, templates, jobs, tasks, svc, used, spent, promised, revoked, paused>>
         /\ \A b \in Job : sweeps'[b] = sweeps[b]
         /\ call'.op = call.op /\ call'.length = call.length /\ call'.todo = call.todo
         /\ call'.ready = call.ready /\ call'.item = call.item
         /\ \/ /\ At("reconciling") /\ call.todo = {} /\ call'.step = "opening"
               /\ sweeps'[Service] = Disarm(NoLease)
            \/ /\ At("suspending") /\ call'.step = "closing"
               /\ sweeps'[Service] = DeleteCleanup(NoLease)
<1>1. PICK step \in {"opening", "closing"}, sweep \in {Disarm(NoLease), DeleteCleanup(NoLease)} :
        /\ Goto(step) /\ Start(Service, sweep)
        /\ \/ At("reconciling") /\ call.todo = {} /\ step = "opening" /\ sweep = Disarm(NoLease)
           \/ At("suspending") /\ step = "closing" /\ sweep = DeleteCleanup(NoLease)
  BY DEF DeleteDrivers, Suspend
<1>2. UNCHANGED <<now, templates, jobs, tasks, svc, used, spent, promised, revoked, paused>>
  BY DEF DeleteDrivers, Suspend, history
<1>3. call \in Call /\ CallInv
  BY DEF TypeInv, CallInv
<1>4. CallInv'
  BY <1>1, <1>3, StepType DEF Steps, Handling
<1>5. sweep \in SweepType
  BY SweepTypes
<1>6. sweeps' \in [Job \cup {Service} -> SweepType] /\ sweeps'[Service] = sweep
      /\ \A b \in Job : sweeps'[b] = sweeps[b]
  BY <1>1, <1>5, ServiceStarts
<1>7. call'.op = call.op /\ call'.length = call.length /\ call'.todo = call.todo
      /\ call'.ready = call.ready /\ call'.step = step /\ call'.item = call.item
  BY <1>1, <1>3 DEF Goto, Call
<1>8. TypeInv'
  BY <1>2, <1>4, <1>6, RestKept, SameRows, OnlyCall
<1> QED
  BY <1>1, <1>2, <1>6, <1>7, <1>8

(* The gate opens only if no deletion was missed.                           *)
LEMMA OpenGateSteps ==
  ASSUME TypeInv, OpenGate
  PROVE  /\ TypeInv'
         /\ UNCHANGED <<now, templates, jobs, tasks, sweeps, used, spent, promised, revoked, paused>>
         /\ At("opening") /\ svc'.instance = svc.instance
         /\ \/ /\ sweeps[Service].missed /\ svc'.gate = svc.gate /\ call' = Locals
            \/ /\ ~sweeps[Service].missed /\ svc'.gate /\ call'.step = "rearming"
               /\ call'.op = call.op /\ call'.todo = call.ready /\ call'.length = call.length
<1>1. UNCHANGED <<now, templates, jobs, tasks, sweeps, used, spent, promised, revoked, paused>>
      /\ At("opening")
  BY DEF OpenGate, history
<1>2. call \in Call /\ CallInv
  BY DEF TypeInv, CallInv
<1>3. CASE sweeps[Service].missed
  <2>1. svc' = [svc EXCEPT !.active = FALSE] /\ End
    BY <1>3 DEF OpenGate
  <2>2. svc' \in [instance: Nat, loaded: BOOLEAN, active: BOOLEAN, gate: BOOLEAN]
        /\ svc'.gate = svc.gate /\ svc'.instance = svc.instance
    BY <2>1 DEF TypeInv
  <2>3. RestTypes'
    BY <1>1, <2>2 DEF TypeInv, RestTypes
  <2>4. CallInv' /\ call' = Locals
    BY <2>1, EndType DEF End
  <2> QED
    BY <1>1, <1>3, <2>2, <2>3, <2>4, SameRows, OnlyCall
<1>4. CASE ~sweeps[Service].missed
  <2>1. svc' = [svc EXCEPT !.gate = TRUE]
        /\ call' = [call EXCEPT !.step = "rearming", !.todo = call.ready, !.ready = {}]
    BY <1>4 DEF OpenGate
  <2>2. svc' \in [instance: Nat, loaded: BOOLEAN, active: BOOLEAN, gate: BOOLEAN]
        /\ svc'.gate /\ svc'.instance = svc.instance
    BY <2>1 DEF TypeInv
  <2>3. RestTypes'
    BY <1>1, <2>2 DEF TypeInv, RestTypes
  <2>4. call' \in Call /\ call'.step = "rearming" /\ call'.op = call.op /\ call'.todo = call.ready
        /\ call'.length = call.length /\ call'.scope = call.scope
    BY <1>2, <2>1 DEF Call, Steps
  <2>5. CallInv'
    BY <1>2, <2>4 DEF CallInv, Handling
  <2> QED
    BY <1>1, <1>4, <2>2, <2>3, <2>4, <2>5, SameRows, OnlyCall
<1> QED
  BY <1>3, <1>4

(* After the gate is open, the leases taken up are disarmed and armed one   *)
(* by one.                                                                  *)
LEMMA RearmSteps ==
  ASSUME TypeInv, Rearm
  PROVE  /\ TypeInv'
         /\ UNCHANGED <<now, templates, jobs, tasks, svc, used, spent, promised, revoked, paused>>
         /\ At("rearming") /\ \A b \in Job : sweeps'[b] = sweeps[b]
         /\ \/ call.todo = {} /\ call' = Locals /\ UNCHANGED sweeps
            \/ \E i \in call.todo :
                 /\ i.lease \in Lease /\ call'.step = "arming" /\ call'.item = i
                 /\ call'.op = call.op /\ call'.todo = call.todo \ {i} /\ call'.length = call.length
                 /\ sweeps'[Service] = Disarm(i.lease)
<1>1. UNCHANGED <<now, templates, jobs, tasks, svc, used, spent, promised, revoked, paused>>
      /\ At("rearming")
  BY DEF Rearm, history
<1>2. call \in Call /\ CallInv
  BY DEF TypeInv, CallInv
<1>3. CASE call.todo = {}
  <2>1. End /\ UNCHANGED sweeps
    BY <1>3 DEF Rearm
  <2>2. CallInv' /\ call' = Locals
    BY <2>1, EndType DEF End
  <2> QED
    BY <1>1, <1>3, <2>1, <2>2, RestKept, SameRows, OnlyCall
<1>4. CASE call.todo # {}
  <2>1. PICK i \in call.todo :
            /\ call' = [call EXCEPT !.step = "arming", !.item = i, !.todo = @ \ {i}]
            /\ Start(Service, Disarm(i.lease))
    BY <1>4 DEF Rearm
  <2>2. i \in Entry /\ i.lease \in Lease /\ i \in [lease: Lease \cup {NoLease}, exp: Minutes]
    BY <1>2 DEF Call, Entry
  <2>3. call' \in Call /\ call'.step = "arming" /\ call'.item = i /\ call'.op = call.op
        /\ call'.todo = call.todo \ {i} /\ call'.scope = call.scope /\ call'.length = call.length
    BY <1>2, <2>1, <2>2 DEF Call, Steps, Handling
  <2>4. CallInv'
    BY <1>2, <2>2, <2>3 DEF CallInv
  <2>5. sweeps' \in [Job \cup {Service} -> SweepType] /\ sweeps'[Service] = Disarm(i.lease)
        /\ \A b \in Job : sweeps'[b] = sweeps[b]
    <3>1. Disarm(i.lease) \in SweepType
      BY <2>2, SweepTypes
    <3> QED
      BY <2>1, <3>1, ServiceStarts
  <2> QED
    BY <1>1, <2>2, <2>3, <2>4, <2>5, RestKept, SameRows, OnlyCall
<1> QED
  BY <1>3, <1>4

(* The start of initialize: a new instance, its gate closed, old cleanup    *)
(* jobs to delete.                                                          *)
LEMMA InitializeSteps ==
  ASSUME TypeInv, Initialize
  PROVE  /\ TypeInv'
         /\ UNCHANGED <<now, templates, jobs, tasks, used, promised, revoked, paused>>
         /\ Spend("boot") /\ ~svc'.gate
         /\ call'.op = "initialize" /\ call'.step = "inventory" /\ call'.length = now
         /\ call'.ready = {} /\ call'.item = NoItem
         /\ \A b \in Job : sweeps'[b] = sweeps[b]
         /\ sweeps'[Service] = DeleteCleanup(NoLease)
<1>1. /\ UNCHANGED <<now, templates, jobs, tasks, used, promised, revoked, paused>>
      /\ Spend("boot")
      /\ svc' = [instance |-> svc.instance + 1, loaded |-> TRUE, active |-> TRUE, gate |-> FALSE]
      /\ call' = [Locals EXCEPT !.op = "initialize", !.step = "inventory", !.length = now]
      /\ Start(Service, DeleteCleanup(NoLease))
  BY DEF Initialize, history
<1>2. svc' \in [instance: Nat, loaded: BOOLEAN, active: BOOLEAN, gate: BOOLEAN] /\ ~svc'.gate
  BY <1>1 DEF TypeInv
<1>3. RestTypes'
  BY <1>1, <1>2 DEF TypeInv, RestTypes
<1>4. CallInv' /\ call'.op = "initialize" /\ call'.step = "inventory" /\ call'.length = now
      /\ call'.ready = {} /\ call'.item = NoItem
  <2>1. PICK c : c = Locals
    OBVIOUS
  <2>2. c \in Call /\ c.ready = {} /\ c.item = NoItem
    BY <2>1, LocalsType DEF Locals
  <2>3. now \in Nat
    BY HeartbeatAssumption DEF TypeInv
  <2>4. call' = [c EXCEPT !.op = "initialize", !.step = "inventory", !.length = now]
    BY <1>1, <2>1
  <2>5. call' \in Call /\ call'.op = "initialize" /\ call'.step = "inventory" /\ call'.length = now
        /\ call'.ready = {} /\ call'.item = NoItem
    BY <2>2, <2>3, <2>4 DEF Call, Ops, Steps
  <2> QED
    BY <2>5 DEF CallInv, Handling
<1>5. sweeps' \in [Job \cup {Service} -> SweepType] /\ sweeps'[Service] = DeleteCleanup(NoLease)
      /\ \A b \in Job : sweeps'[b] = sweeps[b]
  <2>1. DeleteCleanup(NoLease) \in SweepType
    BY SweepTypes
  <2> QED
    BY <1>1, <2>1, ServiceStarts
<1>6. spent' \in [{"op", "boot", "mishap"} -> Nat]
  BY <1>1, SpendType
<1> QED
  BY <1>1, <1>2, <1>3, <1>4, <1>5, <1>6, OnlyCall

(* The start of terminate: the gate closes, all drivers are to be deleted.  *)
LEMMA TerminateSteps ==
  ASSUME TypeInv, Terminate
  PROVE  /\ TypeInv'
         /\ UNCHANGED <<now, templates, jobs, tasks, used, spent, promised, revoked, paused>>
         /\ ~svc'.gate /\ call'.op = "terminate" /\ call'.step = "suspending" /\ call'.item = NoItem
         /\ \A b \in Job : sweeps'[b] = sweeps[b]
         /\ sweeps'[Service] = Disarm(NoLease)
<1>1. /\ UNCHANGED <<now, templates, jobs, tasks, used, spent, promised, revoked, paused>>
      /\ svc' = [svc EXCEPT !.active = FALSE, !.gate = FALSE]
      /\ call' = [Locals EXCEPT !.op = "terminate", !.step = "suspending"]
      /\ Start(Service, Disarm(NoLease))
  BY DEF Terminate, history
<1>2. svc' \in [instance: Nat, loaded: BOOLEAN, active: BOOLEAN, gate: BOOLEAN] /\ ~svc'.gate
  BY <1>1 DEF TypeInv
<1>3. RestTypes'
  BY <1>1, <1>2 DEF TypeInv, RestTypes
<1>4. CallInv' /\ call'.op = "terminate" /\ call'.step = "suspending" /\ call'.item = NoItem
  <2>1. PICK c : c = Locals
    OBVIOUS
  <2>2. c \in Call /\ c.item = NoItem
    BY <2>1, LocalsType DEF Locals
  <2>4. call' = [c EXCEPT !.op = "terminate", !.step = "suspending"]
    BY <1>1, <2>1
  <2>5. call' \in Call /\ call'.op = "terminate" /\ call'.step = "suspending" /\ call'.item = NoItem
    BY <2>2, <2>4 DEF Call, Ops, Steps
  <2> QED
    BY <2>5 DEF CallInv, Handling
<1>5. sweeps' \in [Job \cup {Service} -> SweepType] /\ sweeps'[Service] = Disarm(NoLease)
      /\ \A b \in Job : sweeps'[b] = sweeps[b]
  <2>1. Disarm(NoLease) \in SweepType
    BY SweepTypes
  <2> QED
    BY <1>1, <2>1, ServiceStarts
<1> QED
  BY <1>1, <1>2, <1>3, <1>4, <1>5, SameRows, OnlyCall

(* A crash ends every task; what survives of the rows keeps its lease and   *)
(* expiry, and a lost template takes its promise with it.                   *)
LEMMA CrashSteps ==
  ASSUME TypeInv, Crash
  PROVE  /\ TypeInv' /\ UNCHANGED <<now, used, spent, revoked, paused>>
         /\ ~svc'.gate /\ call' = Locals
         /\ \A a \in Job \cup {Service} : sweeps'[a] = NoSweep
         /\ \A j \in Job : tasks'[j] = Idle
         /\ \A j \in Job : \/ jobs'[j] = NoJob
                           \/ /\ jobs[j] # NoJob /\ jobs'[j].lease = jobs[j].lease
                              /\ jobs'[j].exp = jobs[j].exp /\ jobs'[j].kind = jobs[j].kind
         /\ \A l \in Lease : \/ templates'[l] = NoTemplate /\ promised'[l] = 0
                             \/ templates'[l] = templates[l] /\ promised'[l] = promised[l]
<1>1. PICK survivors \in SUBSET Leases :
        /\ templates' = [l \in Lease |-> IF l \in survivors THEN templates[l] ELSE NoTemplate]
        /\ promised' = [l \in Lease |-> IF l \in survivors THEN promised[l] ELSE 0]
  BY DEF Crash
<1>2. /\ jobs' \in {[j \in Job |-> NoJob],
                    [j \in Job |-> IF jobs[j] = NoJob THEN NoJob ELSE [jobs[j] EXCEPT !.instance = 0]]}
      /\ tasks' = [j \in Job |-> Idle]
      /\ sweeps' = [a \in DOMAIN sweeps |-> NoSweep]
      /\ svc' = [svc EXCEPT !.loaded = FALSE, !.active = FALSE, !.gate = FALSE]
      /\ End
      /\ UNCHANGED <<now, used, spent, revoked, paused>>
  BY DEF Crash
<1>3. \A l \in Lease : \/ templates'[l] = NoTemplate /\ promised'[l] = 0
                       \/ templates'[l] = templates[l] /\ promised'[l] = promised[l]
  BY <1>1
<1>4. templates' \in [Lease -> Template \cup {NoTemplate}]
  BY <1>1, SameRows
<1>5. /\ jobs' \in [Job -> JobRecord \cup {NoJob}]
      /\ \A j \in Job : \/ jobs'[j] = NoJob
                        \/ /\ jobs[j] # NoJob /\ jobs'[j].lease = jobs[j].lease
                           /\ jobs'[j].exp = jobs[j].exp /\ jobs'[j].kind = jobs[j].kind
  <2>1. CASE jobs' = [j \in Job |-> NoJob]
    BY <2>1
  <2>2. CASE jobs' = [j \in Job |-> IF jobs[j] = NoJob THEN NoJob ELSE [jobs[j] EXCEPT !.instance = 0]]
    <3>1. ASSUME NEW j \in Job, jobs[j] # NoJob
          PROVE  /\ [jobs[j] EXCEPT !.instance = 0] \in JobRecord
                 /\ [jobs[j] EXCEPT !.instance = 0].lease = jobs[j].lease
                 /\ [jobs[j] EXCEPT !.instance = 0].exp = jobs[j].exp
                 /\ [jobs[j] EXCEPT !.instance = 0].kind = jobs[j].kind
      <4>1. jobs[j] \in JobRecord
        BY <3>1, SameRows
      <4> QED
        BY <4>1 DEF JobRecord
    <3> QED
      BY <2>2, <3>1
  <2> QED
    BY <1>2, <2>1, <2>2
<1>6. svc' \in [instance: Nat, loaded: BOOLEAN, active: BOOLEAN, gate: BOOLEAN] /\ ~svc'.gate
  BY <1>2 DEF TypeInv
<1>7. tasks' \in [Job -> Task] /\ \A j \in Job : tasks'[j] = Idle /\ tasks'[j].step = "idle"
  BY <1>2 DEF Idle, Task
<1>8. promised' \in [Lease -> Nat]
  BY <1>1 DEF TypeInv
<1>9. RestTypes'
  BY <1>2, <1>6, <1>7, <1>8 DEF TypeInv, RestTypes
<1>10. CallInv' /\ call' = Locals
  BY <1>2, EndType DEF End
<1>11. sweeps' \in [Job \cup {Service} -> SweepType] /\ \A a \in Job \cup {Service} : sweeps'[a] = NoSweep
  BY <1>2, SameRows, SweepTypes
<1>12. used' \subseteq Lease /\ revoked' \subseteq used'
  BY <1>2 DEF TypeInv
<1>13. \A l \in Lease : templates'[l] # NoTemplate => templates'[l].exp \in Minutes /\ l \in used'
  BY <1>2, <1>3, FewerTemplates
<1>14. TypeInv'
  BY <1>2, <1>4, <1>5, <1>9, <1>10, <1>11, <1>12, <1>13, SameRows, TypesFrom
<1> QED
  BY <1>2, <1>3, <1>5, <1>6, <1>7, <1>10, <1>11, <1>14

(* An operator pauses one job; nothing else changes.                        *)
LEMMA PauseSteps ==
  ASSUME TypeInv, NEW j \in Job, PauseByHand(j)
  PROVE  /\ TypeInv' /\ Spend("mishap")
         /\ UNCHANGED <<now, templates, tasks, sweeps, svc, call, used, promised, revoked>>
         /\ \A k \in Job : k # j => jobs'[k] = jobs[k]
         /\ jobs[j] # NoJob /\ jobs'[j].kind = jobs[j].kind /\ jobs'[j].instance = jobs[j].instance
<1>1. /\ jobs[j] # NoJob /\ Spend("mishap")
      /\ jobs' = [jobs EXCEPT ![j].enabled = FALSE]
      /\ paused' = paused \cup {jobs[j].lease}
      /\ UNCHANGED <<now, templates, tasks, sweeps, svc, call, used, promised, revoked>>
  BY DEF PauseByHand, service
<1>2. jobs \in [Job -> JobRecord \cup {NoJob}] /\ jobs[j] \in JobRecord
  BY <1>1, SameRows
<1>3. jobs' \in [Job -> JobRecord \cup {NoJob}] /\ jobs'[j].kind = jobs[j].kind
      /\ jobs'[j].instance = jobs[j].instance /\ \A k \in Job : k # j => jobs'[k] = jobs[k]
  BY <1>1, <1>2 DEF JobRecord
<1>4. paused' \subseteq Lease
  BY <1>1, <1>2 DEF JobRecord, TypeInv
<1>5. RestTypes'
  BY <1>1, <1>4 DEF TypeInv, RestTypes
<1>6. used' \subseteq Lease /\ revoked' \subseteq used' /\ spent' \in [{"op", "boot", "mishap"} -> Nat]
  BY <1>1, SpendType DEF TypeInv
<1>7. CallInv'
  BY <1>1, CallSame
<1> QED
  BY <1>1, <1>3, <1>5, <1>6, <1>7, SameRows, SameTemplates, TypesFrom

(* The service's loop keeps the types; rows only disappear.                 *)
LEMMA ServiceSweepTypes ==
  ASSUME TypeInv, SweepList(Service) \/ SweepDelete(Service)
  PROVE  /\ TypeInv' /\ UNCHANGED <<templates, svc, call, revoked>>
         /\ \A k \in Job : jobs'[k] = jobs[k] \/ jobs'[k] = NoJob
<1>1. UNCHANGED <<now, templates, tasks, svc, call, used, promised, revoked, paused>>
  BY DEF SweepList, SweepDelete, service, history
<1>2. CallInv' /\ RestTypes'
  BY <1>1, CallSame, RestKept
<1>3. used' \subseteq Lease /\ revoked' \subseteq used'
  BY <1>1 DEF TypeInv
<1>4. CASE SweepList(Service)
  <2>1. UNCHANGED <<jobs, spent>> /\ sweeps' \in [Job \cup {Service} -> SweepType]
    BY <1>4, SweepListSteps
  <2> QED
    BY <1>1, <1>2, <2>1, SameRows, OnlyCall
<1>5. CASE SweepDelete(Service)
  <2>1. /\ jobs' \in [Job -> JobRecord \cup {NoJob}]
        /\ \A k \in Job : jobs'[k] = jobs[k] \/ jobs'[k] = NoJob
        /\ sweeps' \in [Job \cup {Service} -> SweepType]
        /\ spent' = spent \/ Spend("mishap")
    BY <1>5, SweepDeleteSteps
  <2>2. spent' \in [{"op", "boot", "mishap"} -> Nat]
    BY <2>1, SameRows, SpendType
  <2> QED
    BY <1>1, <1>2, <1>3, <2>1, <2>2, SameTemplates, TypesFrom
<1> QED
  BY <1>4, <1>5
----------------------------------------------------------------------------
(* Every step keeps the types.                                              *)

(* Every step keeps the types.                                              *)
LEMMA TypesHold == TypeInv /\ [Next]_vars => TypeInv'
<1> SUFFICES ASSUME TypeInv, [Next]_vars PROVE TypeInv'
  OBVIOUS
<1>1. CASE Tick
  BY <1>1, TickTypes
<1>2. CASE \E j \in Job : HandlerStep(j)
  BY <1>2, HandlerStepTypes
<1>3. CASE ServiceStep
  <2>1. CASE \/ Inventory \/ DeleteExpired \/ Act \/ Renew \/ CreateCleanup \/ Withdraw \/ Revert
             \/ ArmRefused \/ ArmDriver \/ ArmGuard
    BY <2>1, InventoryTypes, DeleteExpiredTypes, ActTypes, RenewTypes, CreateCleanupTypes,
       WithdrawTypes, RevertTypes, ArmRefusedTypes, ArmTypes, GuardTypes
  <2>2. CASE Disown \/ DisableNext \/ DeleteLease \/ Finish \/ ListFails
    BY <2>2, DisownTypes, DisableTypes, DeleteLeaseTypes, FinishTypes, ListFailsTypes
  <2>3. CASE InitialInventory \/ Reconcile \/ DeleteDrivers \/ OpenGate \/ Rearm \/ Suspend \/ Terminated
    BY <2>3, InitialInventorySteps, ReconcileTypes, LoopSteps, OpenGateSteps, RearmSteps, FinishTypes
  <2>4. CASE SweepList(Service) \/ SweepDelete(Service)
    BY <2>4, ServiceSweepTypes
  <2>5. CASE \E l \in Lease : AddTemplate(l)
    BY <2>5, AddTemplateTypes
  <2> QED
    BY <1>3, <2>1, <2>2, <2>3, <2>4, <2>5 DEF ServiceStep
<1>4. CASE \E op \in Operations, s \in Scope, ids \in SUBSET used, length \in Lengths :
             Manage(op, s, ids, length)
  BY <1>4, ManageTypes
<1>5. CASE Initialize \/ Terminate \/ Crash
  BY <1>5, InitializeSteps, TerminateSteps, CrashSteps
<1>6. CASE \E j \in Job : PauseByHand(j)
  BY <1>6, PauseSteps
<1>7. CASE UNCHANGED vars
  <2>1. UNCHANGED <<now, templates, jobs, tasks, sweeps, svc, call, used, spent, promised, revoked, paused>>
    BY <1>7 DEF vars
  <2>2. CallInv' /\ RestTypes'
    BY <2>1, CallSame, RestKept
  <2> QED
    BY <2>1, <2>2, SameRows, OnlyCall
<1> QED
  BY <1>1, <1>2, <1>3, <1>4, <1>5, <1>6, <1>7 DEF Next
----------------------------------------------------------------------------
(* What was removed stays removed: no step but the creation of a lease adds *)
(* a row, and that takes an id never used.                                  *)

(* No template of a removed lease comes back while no template comes back.  *)
LEMMA RevokedKept ==
  ASSUME TypeInv, RevokedInv, revoked' = revoked,
         \A k \in Lease : templates[k] = NoTemplate => templates'[k] = NoTemplate
  PROVE  RevokedInv'
BY DEF TypeInv, RevokedInv

(* Every step keeps the removed leases without a template.                  *)
LEMMA RevokedHolds == TypeInv /\ RevokedInv /\ [Next]_vars => RevokedInv'
<1> SUFFICES ASSUME TypeInv, RevokedInv, [Next]_vars PROVE RevokedInv'
  OBVIOUS
<1>1. CASE UNCHANGED <<templates, revoked>>
  BY <1>1 DEF RevokedInv
<1>2. CASE \E j \in Job : HandlerStep(j)
  <2>1. PICK j \in Job : Beside(j)
    BY <1>2, HandlerStepTypes
  <2> QED
    BY <2>1, RevokedKept DEF Beside
<1>3. CASE DeleteExpired
  <2>1. revoked' = revoked
    BY <1>3, DeleteExpiredSteps
  <2>2. \A k \in Lease : templates[k] = NoTemplate => templates'[k] = NoTemplate
    <3>1. PICK i \in call.todo :
           /\ i.lease \in Lease
           /\ UNCHANGED templates \/ \E ok \in BOOLEAN : DeleteTemplate(i.lease, ok)
      BY <1>3, DeleteExpiredSteps
    <3> QED
      BY <3>1, DeleteSteps
  <2> QED
    BY <2>1, <2>2, RevokedKept
<1>4. CASE Renew
  <2>1. PICK i \in call.todo :
           /\ UNCHANGED <<used, revoked>> /\ i.exp \in Minutes
           /\ \/ UNCHANGED templates
              \/ \E ok \in BOOLEAN : i.lease \in Leases /\ UpdateTemplate(i.lease, i.exp, ok)
    BY <1>4, RenewSteps
  <2>2. \A k \in Lease : templates[k] = NoTemplate => templates'[k] = NoTemplate
    BY <2>1, UpdateKeeps
  <2> QED
    BY <2>1, <2>2, RevokedKept
<1>5. CASE Withdraw \/ Reconcile
  <2>1. revoked' = revoked
    BY <1>5, WithdrawTypes, ReconcileSteps
  <2>2. \A k \in Lease : templates[k] = NoTemplate => templates'[k] = NoTemplate
    BY <1>5, WithdrawTypes, ReconcileTypes
  <2> QED
    BY <2>1, <2>2, RevokedKept
<1>6. CASE Revert
  BY <1>6, RevertTypes, RevokedKept
<1>7. CASE DeleteLease
  <2>1. \A k \in Lease : templates[k] = NoTemplate => templates'[k] = NoTemplate
    BY <1>7, DeleteLeaseTypes
  <2>2. \/ revoked' = revoked
        \/ revoked' = revoked \cup {call.item.lease} /\ templates'[call.item.lease] = NoTemplate
    BY <1>7, DeleteLeaseTypes
  <2> QED
    BY <2>1, <2>2 DEF RevokedInv, TypeInv
<1>8. CASE \E l \in Lease : AddTemplate(l)
  <2>1. PICK l \in Lease : AddTemplate(l)
    BY <1>8
  <2>2. l \notin used /\ revoked' = revoked /\ \A k \in Lease : k # l => templates'[k] = templates[k]
    BY <2>1, AddTemplateSteps
  <2> QED
    BY <2>2 DEF RevokedInv, TypeInv
<1>9. CASE Crash
  <2>1. revoked' = revoked
    BY <1>9, CrashSteps
  <2>2. \A k \in Lease : templates[k] = NoTemplate => templates'[k] = NoTemplate
    BY <1>9, CrashSteps
  <2> QED
    BY <2>1, <2>2, RevokedKept
<1>10. CASE ArmRefused \/ Disown \/ ListFails
  BY <1>1, <1>10, ArmRefusedTypes, DisownTypes, ListFailsTypes
<1>11. CASE Tick \/ Inventory \/ Act \/ CreateCleanup \/ ArmDriver \/ ArmGuard \/ DisableNext \/ Finish
  BY <1>1, <1>11 DEF Tick, Inventory, Act, CreateCleanup, ArmDriver, ArmGuard, DisableNext, Finish, history
<1>12. CASE \/ InitialInventory \/ DeleteDrivers \/ OpenGate \/ Rearm \/ Suspend \/ Terminated
            \/ SweepList(Service) \/ SweepDelete(Service) \/ Initialize \/ Terminate
  BY <1>1, <1>12 DEF InitialInventory, DeleteDrivers, OpenGate, Rearm, Suspend, Terminated, SweepList,
     SweepDelete, Initialize, Terminate, history
<1>13. CASE \/ \E op \in Operations, s \in Scope, ids \in SUBSET used, length \in Lengths :
                 Manage(op, s, ids, length)
            \/ \E j \in Job : PauseByHand(j)
  BY <1>1, <1>13 DEF Manage, PauseByHand, history
<1>14. CASE UNCHANGED vars
  BY <1>1, <1>14 DEF vars
<1> QED
  BY <1>2, <1>3, <1>4, <1>5, <1>6, <1>7, <1>8, <1>9, <1>10, <1>11, <1>12, <1>13, <1>14 DEF Next, ServiceStep
----------------------------------------------------------------------------
(* The gate: a step outside the opening changes neither the gate nor the    *)
(* instance, or closes it, and what it adds belongs to the instance.        *)

OwnRows ==
  \A j \in Job : \/ jobs'[j] = jobs[j]
                 \/ jobs'[j] = NoJob
                 \/ jobs'[j].instance = svc.instance
                 \/ /\ jobs[j] # NoJob /\ jobs'[j].kind = jobs[j].kind
                    /\ jobs'[j].instance = jobs[j].instance

(* A step that does not lead to the opening keeps what the gate relies on,  *)
(* if an open gate was open and the rows are the instance's own.            *)
LEMMA ElsewhereKept ==
  ASSUME TypeInv, OpeningInv, call'.step # "opening",
         svc'.gate => svc.gate /\ svc'.instance = svc.instance /\ OwnRows
  PROVE  OpeningInv'
BY DEF OpeningInv, OwnRows

(* So does a step of a handler, an operator or the cron beside it.          *)
LEMMA BesideKept ==
  ASSUME TypeInv, OpeningInv, UNCHANGED <<call, svc>>,
         \A j \in Job : \/ jobs'[j] = jobs[j]
                        \/ jobs'[j] = NoJob
                        \/ /\ jobs[j] # NoJob /\ jobs'[j].kind = jobs[j].kind
                           /\ jobs'[j].instance = jobs[j].instance,
         sweeps'[Service] = sweeps[Service]
  PROVE  OpeningInv'
BY DEF OpeningInv

(* A job that is added is of the instance that runs.                        *)
LEMMA AddOwn ==
  ASSUME TypeInv, call.step \in Handling, NEW kind \in {"driver", "guard", "cleanup"},
         \E ok \in BOOLEAN : AddJob(kind, ok)
  PROVE  OwnRows
<1>1. call.item.lease \in Lease
  BY DEF TypeInv, CallInv
<1> QED
  BY <1>1, AddSteps DEF OwnRows

(* Every step keeps what the gate relies on.                                *)
LEMMA OpeningHolds == TypeInv /\ OpeningInv /\ [Next]_vars => OpeningInv'
<1> SUFFICES ASSUME TypeInv, OpeningInv, [Next]_vars PROVE OpeningInv'
  OBVIOUS
<1>1. CASE UNCHANGED <<jobs, svc>> /\ call'.step # "opening"
  BY <1>1, ElsewhereKept DEF OwnRows
<1>2. CASE Tick \/ UNCHANGED vars
  <2>1. UNCHANGED <<call, svc, jobs, sweeps>>
    BY <1>2 DEF Tick, service, vars
  <2> QED
    BY <2>1, BesideKept
<1>3. CASE \E j \in Job : HandlerStep(j)
  <2>1. PICK j \in Job : Beside(j)
    BY <1>3, HandlerStepTypes
  <2>2. sweeps'[Service] = sweeps[Service]
    BY <2>1, ServiceIsNoJob DEF Beside
  <2> QED
    BY <2>1, <2>2, BesideKept DEF Beside
<1>4. CASE \E j \in Job : PauseByHand(j)
  <2>1. PICK j \in Job : PauseByHand(j)
    BY <1>4
  <2> QED
    BY <2>1, PauseSteps, BesideKept
<1>5. CASE Inventory \/ Act \/ DeleteExpired \/ Renew \/ (\E l \in Lease : AddTemplate(l))
  <2>1. UNCHANGED <<jobs, svc>>
    BY <1>5 DEF Inventory, Act, DeleteExpired, Renew, AddTemplate
  <2>2. call'.step # "opening"
    <3>1. CASE Inventory
      BY <3>1, InventorySteps
    <3>2. CASE Act
      BY <3>2, ActSteps, LocalsType
    <3>3. CASE DeleteExpired
      <4>1. call \in Call /\ call.step = "expiring"
        BY <3>3, DeleteExpiredSteps DEF At, TypeInv, CallInv
      <4>2. PICK i : call' = [call EXCEPT !.todo = @ \ {i}] \/ End
        BY <3>3, DeleteExpiredSteps
      <4> QED
        BY <4>1, <4>2, LocalsType DEF Call, End
    <3>4. CASE Renew
      <4>1. call' = Locals \/ call'.step \in {"cleanup", "reverting"}
        BY <3>4, RenewSteps DEF End
      <4> QED
        BY <4>1, LocalsType
    <3>5. CASE \E l \in Lease : AddTemplate(l)
      BY <3>5, AddTemplateSteps, LocalsType
    <3> QED
      BY <1>5, <3>1, <3>2, <3>3, <3>4, <3>5
  <2> QED
    BY <1>1, <2>1, <2>2
<1>6. CASE Withdraw \/ Revert \/ Rearm
  <2>1. CASE Withdraw
    BY <1>1, <2>1, WithdrawTypes
  <2>2. CASE Revert
    BY <1>1, <2>2, RevertTypes
  <2>3. CASE Rearm
    BY <1>1, <2>3, RearmSteps, LocalsType
  <2> QED
    BY <1>6, <2>1, <2>2, <2>3
<1>7. CASE CreateCleanup
  <2>1. call'.step # "opening" /\ svc' = svc
    BY <1>7, CreateCleanupSteps, LocalsType DEF Handling
  <2>2. OwnRows
    <3>1. call.step \in Handling /\ \E ok \in BOOLEAN : AddJob("cleanup", ok)
      BY <1>7 DEF CreateCleanup, At, Handling
    <3> QED
      BY <3>1, AddOwn
  <2> QED
    BY <2>1, <2>2, ElsewhereKept
<1>8. CASE ArmDriver
  <2>1. call'.step # "opening" /\ svc' = svc
    BY <1>8, ArmSteps
  <2>2. OwnRows
    <3>1. call.step \in Handling /\ \E ok \in BOOLEAN : AddJob("driver", ok)
      BY <1>8 DEF ArmDriver, At, Handling
    <3> QED
      BY <3>1, AddOwn
  <2> QED
    BY <2>1, <2>2, ElsewhereKept
<1>9. CASE ArmGuard
  <2>1. call'.step # "opening" /\ svc' = svc
    BY <1>9, GuardSteps
  <2>2. OwnRows
    <3>1. call.step \in Handling /\ \E ok \in BOOLEAN : AddJob("guard", ok)
      BY <1>9 DEF ArmGuard, At, Handling
    <3> QED
      BY <3>1, AddOwn
  <2> QED
    BY <2>1, <2>2, ElsewhereKept
<1>10. CASE ArmRefused \/ Disown
  <2>1. call'.step # "opening" /\ svc' = svc /\ OwnRows
    BY <1>10, ArmRefusedTypes, DisownTypes DEF OwnRows
  <2> QED
    BY <2>1, ElsewhereKept
<1>11. CASE DisableNext \/ DeleteLease
  <2>1. UNCHANGED <<jobs, svc>> /\ call'.step # "opening"
    BY <1>11, DisableSteps, DeleteLeaseSteps, LocalsType
  <2> QED
    BY <1>1, <2>1
<1>12. CASE Finish \/ Terminated \/ ListFails
  <2>1. call'.step # "opening" /\ svc'.gate = svc.gate /\ svc'.instance = svc.instance /\ UNCHANGED jobs
    BY <1>12, FinishTypes, ListFailsTypes, LocalsType
  <2> QED
    BY <2>1, ElsewhereKept DEF OwnRows
<1>13. CASE InitialInventory \/ Reconcile
  <2>1. UNCHANGED <<jobs, svc>> /\ call'.step # "opening"
    BY <1>13, InitialInventorySteps, ReconcileSteps, ReconcileTypes
  <2> QED
    BY <1>1, <2>1
<1>14. CASE DeleteDrivers \/ Suspend
  <2>1. UNCHANGED <<jobs, svc>>
        /\ \/ call'.step = "opening" /\ sweeps'[Service] = Disarm(NoLease)
           \/ call'.step = "closing"
    BY <1>14, LoopSteps
  <2>2. CASE call'.step = "closing"
    BY <1>1, <2>1, <2>2
  <2>3. CASE call'.step = "opening" /\ sweeps'[Service] = Disarm(NoLease)
    BY <2>1, <2>3, SweepTypes DEF OpeningInv
  <2> QED
    BY <2>1, <2>2, <2>3
<1>15. CASE OpenGate
  <2>1. UNCHANGED <<jobs, sweeps>> /\ At("opening") /\ svc'.instance = svc.instance
        /\ call'.step # "opening"
        /\ \/ sweeps[Service].missed /\ svc'.gate = svc.gate
           \/ ~sweeps[Service].missed /\ svc'.gate
    BY <1>15, OpenGateSteps, LocalsType
  <2>2. sweeps[Service].todo = {} /\ sweeps[Service].lists = <<>> /\ call.step = "opening"
    BY <2>1 DEF At, Swept
  <2>3. ~sweeps[Service].missed =>
          \A j \in Job : jobs[j] = NoJob \/ jobs[j].kind = "cleanup"
    BY <2>2 DEF OpeningInv
  <2> QED
    BY <2>1, <2>3 DEF OpeningInv
<1>16. CASE SweepList(Service)
  <2>1. UNCHANGED <<jobs, svc, call>>
        /\ sweeps'[Service].lease = sweeps[Service].lease /\ sweeps'[Service].missed = sweeps[Service].missed
        /\ \/ /\ sweeps[Service].lists = <<"driver", "guard">> /\ sweeps'[Service].lists = <<"guard">>
              /\ sweeps'[Service].todo = sweeps[Service].todo \cup Rows("driver", sweeps[Service].lease)
           \/ /\ sweeps[Service].lists = <<"guard">> /\ sweeps'[Service].lists = <<>>
              /\ sweeps'[Service].todo = sweeps[Service].todo \cup Rows("guard", sweeps[Service].lease)
           \/ /\ sweeps[Service].lists = <<"cleanup">> /\ sweeps'[Service].lists = <<>>
              /\ sweeps'[Service].todo = sweeps[Service].todo \cup Rows("cleanup", sweeps[Service].lease)
    BY <1>16, SweepListSteps
  <2>2. \A j \in Job : jobs[j] # NoJob => jobs[j].kind \in {"driver", "guard", "cleanup"}
    BY DEF TypeInv, JobRecord
  <2> QED
    BY <2>1, <2>2 DEF OpeningInv, Rows
<1>17. CASE SweepDelete(Service)
  <2>1. PICK j \in sweeps[Service].todo :
          /\ UNCHANGED <<svc, call>> /\ sweeps[Service].lists = <<>>
          /\ \A k \in Job : k # j => jobs'[k] = jobs[k]
          /\ jobs'[j] = NoJob \/ (jobs'[j] = jobs[j] /\ sweeps'[Service].missed)
          /\ sweeps'[Service].lease = sweeps[Service].lease /\ sweeps'[Service].lists = <<>>
          /\ sweeps'[Service].todo = sweeps[Service].todo \ {j}
          /\ sweeps[Service].missed => sweeps'[Service].missed
    BY <1>17, SweepDeleteSteps
  <2> QED
    BY <2>1 DEF OpeningInv
<1>18. CASE Initialize \/ Terminate \/ Crash
  <2>1. ~svc'.gate /\ call'.step # "opening"
    BY <1>18, InitializeSteps, TerminateSteps, CrashSteps, LocalsType
  <2> QED
    BY <2>1, ElsewhereKept
<1>19. CASE \E op \in Operations, s \in Scope, ids \in SUBSET used, length \in Lengths :
              Manage(op, s, ids, length)
  <2>1. PICK op \in Operations, s \in Scope, ids \in SUBSET used, length \in Lengths :
              Manage(op, s, ids, length)
    BY <1>19
  <2>2. UNCHANGED <<jobs, svc>>
        /\ call' = [Locals EXCEPT !.op = op, !.step = "inventory", !.scope = s, !.ids = ids,
                                  !.length = length]
    BY <2>1 DEF Manage
  <2>3. call'.step = "inventory"
    BY <2>2 DEF Locals
  <2> QED
    BY <1>1, <2>2, <2>3
<1> QED
  BY <1>2, <1>3, <1>4, <1>5, <1>6, <1>7, <1>8, <1>9, <1>10, <1>11, <1>12, <1>13, <1>14, <1>15,
     <1>16, <1>17, <1>18, <1>19 DEF Next, ServiceStep
----------------------------------------------------------------------------
(* The invariant holds at the start.                                        *)
LEMMA InitHolds == Init => Inv
<1> SUFFICES ASSUME Init PROVE Inv
  OBVIOUS
<1>1. call = Locals /\ CallInv
  BY LocalsType DEF Init, CallInv, Handling
<1>2. \A l \in Lease : templates[l] = NoTemplate
  BY DEF Init
<1>3. Templates(templates)
  BY <1>2 DEF Init, Templates
<1>4. sweeps \in [Job \cup {Service} -> SweepType] /\ \A a \in Job \cup {Service} : sweeps[a] = NoSweep
  BY SweepTypes DEF Init
<1>5. now \in 0 .. MaxTime
  BY HeartbeatAssumption DEF Init
<1>6. tasks \in [Job -> Task] /\ \A j \in Job : tasks[j].step = "idle"
  BY DEF Init, Idle, Task
<1>7. spent \in [{"op", "boot", "mishap"} -> Nat]
  BY HeartbeatAssumption DEF Init
<1>8. TypeInv
  BY <1>1, <1>3, <1>4, <1>5, <1>6, <1>7 DEF Init, TypeInv
<1>9. OpeningInv
  BY <1>1, LocalsType DEF Init, OpeningInv
<1> QED
  BY <1>2, <1>8, <1>9 DEF Inv, RevokedInv, Init

(* Every step keeps the invariant.                                          *)
LEMMA NextHolds == Inv /\ [Next]_vars => Inv'
BY TypesHold, RevokedHolds, OpeningHolds DEF Inv

(* The invariant holds in every reachable state.                            *)
LEMMA InvHolds == Spec => []Inv
BY InitHolds, NextHolds, PTL DEF Spec

(* Every variable has its type, expiries are whole minutes.                 *)
THEOREM HeartbeatTypes == Spec => []TypeOK
<1>1. Inv => TypeOK
  <2> SUFFICES ASSUME Inv PROVE TypeOK
    OBVIOUS
  <2>1. templates \in [Lease -> Template \cup {NoTemplate}]
        /\ \A l \in Leases : templates[l].exp % Minute = 0 /\ l \in used
    BY DEF Inv, TypeInv, Templates, Leases, Minutes
  <2>2. \A a \in DOMAIN sweeps : sweeps[a].todo \subseteq Job /\ sweeps[a].lease \in Lease \cup {NoLease}
    BY DEF Inv, TypeInv, SweepType
  <2>3. call.op \in Ops
    BY DEF Inv, TypeInv, CallInv, Call
  <2> QED
    BY <2>1, <2>2, <2>3 DEF Inv, TypeInv, TypeOK, Ops
<1> QED
  BY <1>1, InvHolds, PTL

(* The gate opens only when every driver and guard of an earlier instance   *)
(* has been deleted, whatever the cron does, and none comes back while it   *)
(* is open.                                                                 *)
THEOREM GateIsClean == Spec => []GateOpensClean
<1>1. Inv => GateOpensClean
  BY DEF Inv, OpeningInv, GateOpensClean
<1> QED
  BY <1>1, InvHolds, PTL

(* A lease whose removal was confirmed never wakes the agent again: through *)
(* drivers that could not be deleted, handlers under way, restarts.         *)
THEOREM RevokedSleeps == Spec => RevokedNeverWakes
<1>1. Inv /\ [Next]_vars => [\A j \in Job : tasks[j].lease \in revoked => ~Wakes(j)]_vars
  BY DEF Inv, RevokedInv, Wakes, Leases
<1> QED
  BY <1>1, InvHolds, PTL DEF Spec, RevokedNeverWakes
----------------------------------------------------------------------------
(* A lease is driven.  Nothing is promised once a call of the cron raised,  *)
(* and nothing of a lease whose id may be named by other scopes.            *)

Calm == spent["mishap"] = 0

(* The steps that write the jobs of a lease.                                *)
Arming == {"cleanup", "arming", "guarding"}
Writing(l) == call.step \in Arming /\ call.op \in {"create", "renew"} /\ l = call.item.lease

(* Until when a lease has to stand: while its jobs are rewritten, no longer *)
(* than both its old and its new expiry.                                    *)
Term(l) ==
  IF ~Writing(l) THEN promised[l]
  ELSE IF call.op = "create" THEN call.item.exp
  ELSE IF ~call.kept THEN 0
  ELSE IF call.back < call.item.exp THEN call.back ELSE call.item.exp

Live(l) == now < Term(l)

(* Which steps belong to which operation, when no call raises.              *)
PhaseInv ==
  /\ call.op # "revert"
  /\ call.op = "none" => call.step = "idle"
  /\ call.step = "inventory" => call.op \in {"create", "renew", "disable", "list", "initialize"}
  /\ call.step = "expiring" => call.op \in {"create", "renew", "disable", "list"}
  /\ call.step = "renewing" => call.op = "renew"
  /\ call.step \in {"disarming", "deleting", "ending"} => call.op = "disable"
  /\ call.step \in Arming => call.op \in {"create", "renew", "initialize"}
  /\ call.step = "guarding" => call.made \in Job
  /\ call.step \in {"reconciling", "opening", "rearming"} => call.op = "initialize"
  /\ call.step \in {"suspending", "closing"} => call.op = "terminate"
  /\ call.step \notin {"reverting", "restoring", "withdrawing", "disowning"}

TemplateInv ==
  /\ \A l \in Lease : (Live(l) => l \in Leases) /\ (promised[l] > 0 => l \in used)
  /\ \A l \in Leases : promised[l] > 0 => templates[l].exp = promised[l]
  /\ \A l \in Lease : Writing(l) => /\ promised[l] = 0
                                    /\ l \in Leases => templates[l].exp = call.item.exp
  /\ call.step = "deleting" => promised[call.item.lease] = 0
  /\ call.step = "expiring" =>
       \A i \in call.todo : i.lease \in Leases => templates[i.lease].exp <= now

(* What is about to delete has a reason to.                                 *)
TaskInv ==
  \A j \in Job :
    /\ tasks[j].step # "idle" => tasks[j].lease \in used
    /\ tasks[j].step \in {"deleting", "sweeping"} => ~Live(tasks[j].lease)

RowInv ==
  /\ \A j \in Job : jobs[j] # NoJob => /\ jobs[j].exp >= Term(jobs[j].lease)
                                       /\ jobs[j].lease \in used
  /\ call.step \in Arming => call.item.lease \in used

(* A handler sweeps the jobs of its own lease.                              *)
HandlerSweepInv ==
  \A a \in Job :
    /\ ~Swept(a) => tasks[a].step = "sweeping" /\ sweeps[a].lease = tasks[a].lease
    /\ \A k \in sweeps[a].todo : jobs[k] # NoJob => jobs[k].lease = tasks[a].lease

(* The service sweeps drivers only of the lease it rewrites or removes, or  *)
(* while the gate is closed.                                                *)
Closed == call.step \in {"opening", "suspending"} /\ ~svc.gate
Meant(l) == call.step \in {"arming", "deleting"} /\ call.item.lease = l

ServiceSweepInv ==
  /\ \A k \in sweeps[Service].todo :
       jobs[k] # NoJob /\ jobs[k].kind # "cleanup" => Closed \/ Meant(jobs[k].lease)
  /\ sweeps[Service].lists \in {<<"driver", "guard">>, <<"guard">>} =>
       Closed \/ (sweeps[Service].lease \in Lease /\ Meant(sweeps[Service].lease))
  /\ call.step = "guarding" => Swept(Service)

(* What of the old jobs of the lease that is rewritten may still be there.  *)
RewriteInv ==
  \A k \in Job :
    jobs[k] # NoJob /\ Writing(jobs[k].lease) =>
      /\ call.step = "cleanup" /\ jobs[k].kind = "cleanup" =>
           \/ k \in sweeps[Service].todo
           \/ sweeps[Service].lists = <<"cleanup">> /\ sweeps[Service].lease = call.item.lease
      /\ call.step = "arming" =>
           \/ jobs[k].kind = "cleanup" /\ jobs[k].exp = call.item.exp
           \/ jobs[k].kind # "cleanup" /\ k \in sweeps[Service].todo
           \/ /\ sweeps[Service].lease = call.item.lease
              /\ \/ jobs[k].kind # "cleanup" /\ sweeps[Service].lists = <<"driver", "guard">>
                 \/ jobs[k].kind = "guard" /\ sweeps[Service].lists = <<"guard">>
      /\ call.step = "guarding" => jobs[k].exp = call.item.exp

IsDriver(j, l, exp) ==
  /\ jobs[j] # NoJob /\ jobs[j].kind = "driver" /\ jobs[j].lease = l /\ jobs[j].exp = exp
  /\ jobs[j].instance = svc.instance

(* The leases that initialize has yet to arm.                               *)
Awaiting(l) ==
  /\ call.op = "initialize"
  /\ \/ \E i \in call.todo : i.lease = l
     \/ call.step \in {"arming", "guarding"} /\ call.item.lease = l

DriverInv ==
  /\ svc.gate =>
       \A l \in Lease : now < promised[l] /\ ~Awaiting(l) => \E j \in Job : IsDriver(j, l, promised[l])
  /\ call.step = "guarding" /\ Live(call.item.lease) =>
       IsDriver(call.made, call.item.lease, call.item.exp)

(* What initialize has seen of the leases; none that lives is forgotten.    *)
Known(i) == i.lease \in used /\ promised[i.lease] \in {0, i.exp}

InitializeInv ==
  call.op = "initialize" =>
    /\ call.length <= now
    /\ \A i \in call.ready : Known(i)
    /\ call.step # "inventory" => \A i \in call.todo : Known(i)
    /\ call.step \in Arming => Known(call.item)
    /\ call.step \in {"inventory", "reconciling", "cleanup", "opening"} => ~svc.gate
    /\ call.step \in {"reconciling", "cleanup", "opening"} =>
         \A l \in Lease : now < promised[l] =>
           \/ \E i \in call.ready : i.lease = l
           \/ call.step # "opening" /\ \E i \in call.todo : i.lease = l
           \/ call.step = "cleanup" /\ call.item.lease = l

(* disable names leases of its own scope, or such as are gone.              *)
Own(l) == l \in Leases => templates[l].scope = call.scope

DisableInv ==
  call.op = "disable" =>
    /\ call.step \in {"inventory", "expiring"} => \A l \in call.ids : Own(l)
    /\ call.step \in {"disarming", "deleting"} => \A i \in call.todo : Own(i.lease)

(* Past the start of initialize, an active service has an open gate.        *)
Rearming == {"rearming", "arming", "guarding"}

GateInv ==
  /\ svc.active => svc.gate \/ call.op = "initialize"
  /\ call.op \in {"create", "renew", "disable", "list"} => svc.gate
  /\ call.op = "initialize" /\ call.step \in Rearming => svc.gate

Driving ==
  Calm => /\ PhaseInv /\ TemplateInv /\ TaskInv /\ RowInv /\ HandlerSweepInv /\ ServiceSweepInv
          /\ RewriteInv /\ DriverInv /\ InitializeInv /\ DisableInv

Parts ==
  /\ PhaseInv /\ TemplateInv /\ TaskInv /\ RowInv /\ HandlerSweepInv /\ ServiceSweepInv
  /\ RewriteInv /\ DriverInv /\ InitializeInv /\ DisableInv

(* The parts, as one name.                                                  *)
LEMMA DrivingParts == Driving <=> (Calm => Parts)
BY DEF Driving, Parts

(* While no call has raised, a step did not raise and none had before it.   *)
LEMMA NoMishap ==
  ASSUME TypeInv, Calm'
  PROVE  /\ ~Spend("mishap")
         /\ \A n \in {"op", "boot"} : Spend(n) => Calm
         /\ spent' = spent => Calm
BY DEF TypeInv, Calm, Spend

(* The instants and the rows that the arithmetic speaks of.                 *)
LEMMA Numbers ==
  ASSUME TypeInv
  PROVE  /\ now \in Nat /\ call.item.exp \in Nat /\ call.back \in Nat
         /\ \A l \in Lease : promised[l] \in Nat /\ Term(l) \in Nat
         /\ \A l \in Leases : l \in Lease /\ templates[l].exp \in Nat /\ l \in used
         /\ \A j \in Job : jobs[j] # NoJob => /\ jobs[j].exp \in Nat /\ jobs[j].lease \in Lease
                                              /\ jobs[j].kind \in {"driver", "guard", "cleanup"}
<1>1. now \in Nat
  BY HeartbeatAssumption DEF TypeInv
<1>2. call.item.exp \in Nat /\ call.back \in Nat
  BY DEF TypeInv, CallInv, Call, Minutes
<1>3. \A l \in Lease : promised[l] \in Nat
  BY DEF TypeInv
<1>4. \A l \in Lease : Term(l) \in Nat
  BY <1>2, <1>3 DEF Term
<1>5. \A l \in Leases : l \in Lease /\ templates[l].exp \in Nat /\ l \in used
  BY DEF TypeInv, Templates, Leases, Minutes
<1>6. \A j \in Job : jobs[j] # NoJob => /\ jobs[j].exp \in Nat /\ jobs[j].lease \in Lease
                                        /\ jobs[j].kind \in {"driver", "guard", "cleanup"}
  BY DEF TypeInv, JobRecord
<1> QED
  BY <1>1, <1>2, <1>3, <1>4, <1>5, <1>6

(* A lease with a promise is not being written, so its term is its promise. *)
LEMMA PromisedTerm ==
  ASSUME TypeInv, TemplateInv, NEW l \in Lease
  PROVE  /\ promised[l] > 0 => ~Writing(l) /\ Term(l) = promised[l]
         /\ now < promised[l] => Live(l) /\ promised[l] > 0
         /\ promised[l] <= Term(l)
<1>1. now \in Nat /\ promised[l] \in Nat /\ Term(l) \in Nat
  BY Numbers
<1>2. promised[l] > 0 => ~Writing(l)
  BY <1>1 DEF TemplateInv
<1>3. promised[l] > 0 => Term(l) = promised[l]
  BY <1>2 DEF Term
<1>4. now < promised[l] => promised[l] > 0
  BY <1>1
<1>5. now < promised[l] => Live(l)
  BY <1>3, <1>4 DEF Live
<1> QED
  BY <1>1, <1>2, <1>3, <1>4, <1>5

(* While a lease is written, its term is not beyond its new expiry.         *)
LEMMA WritingTerm ==
  ASSUME TypeInv, NEW l \in Lease, Writing(l)
  PROVE  Term(l) <= call.item.exp
BY Numbers DEF Term, Writing

(* Terms move only with the operation and its promises.                     *)
LEMMA SameTerm ==
  ASSUME UNCHANGED <<call, promised>>
  PROVE  \A l : Term(l)' = Term(l) /\ Writing(l)' = Writing(l)
BY DEF Term, Writing

(* Time, and the handlers: they take nothing from a lease that lives.       *)
LEMMA Decays ==
  ASSUME TypeInv, TypeInv', Parts, now' >= now, UNCHANGED <<svc, call, used, promised>>,
         sweeps'[Service] = sweeps[Service],
         \A k \in Job : jobs'[k] = jobs[k] \/ (jobs'[k] = NoJob /\ ~Live(jobs[k].lease)),
         \A l \in Lease : templates'[l] = templates[l] \/ (templates'[l] = NoTemplate /\ ~Live(l)),
         TaskInv', HandlerSweepInv'
  PROVE  Parts'
<1>1. \A l : Term(l)' = Term(l) /\ Writing(l)' = Writing(l)
  BY SameTerm
<1>2. now \in Nat /\ now' \in Nat /\ now' >= now
  BY Numbers, HeartbeatAssumption DEF TypeInv
<1>3. ASSUME NEW l \in Lease, Live(l)' PROVE Live(l)
  <2>1. Term(l) \in Nat /\ Term(l)' = Term(l)
    BY <1>1, Numbers
  <2>2. now' < Term(l)
    BY <1>3, <2>1 DEF Live
  <2> QED
    BY <1>2, <2>1, <2>2 DEF Live
<1>4. \A l \in Leases' : l \in Leases /\ templates'[l] = templates[l]
  BY DEF Leases
<1>5. PhaseInv'
  BY DEF Parts, PhaseInv
<1>6. TemplateInv'
  <2>1. \A l \in Lease : (Live(l)' => l \in Leases') /\ (promised'[l] > 0 => l \in used')
    BY <1>3 DEF Parts, TemplateInv, Leases
  <2>2. \A l \in Leases' : promised'[l] > 0 => templates'[l].exp = promised'[l]
    BY <1>4 DEF Parts, TemplateInv
  <2>3. \A l \in Lease : Writing(l)' => /\ promised'[l] = 0
                                        /\ l \in Leases' => templates'[l].exp = call'.item.exp
    BY <1>1, <1>4 DEF Parts, TemplateInv
  <2>4. call'.step = "deleting" => promised'[call'.item.lease] = 0
    BY DEF Parts, TemplateInv
  <2>5. call'.step = "expiring" =>
          \A i \in call'.todo : i.lease \in Leases' => templates'[i.lease].exp <= now'
    <3> SUFFICES ASSUME call.step = "expiring", NEW i \in call.todo, i.lease \in Leases'
                 PROVE  templates'[i.lease].exp <= now'
      OBVIOUS
    <3>1. i.lease \in Leases /\ templates'[i.lease].exp = templates[i.lease].exp
      BY <1>4
    <3>2. templates[i.lease].exp <= now /\ templates[i.lease].exp \in Nat
      BY <3>1, Numbers DEF Parts, TemplateInv
    <3> QED
      BY <1>2, <3>1, <3>2
  <2> QED
    BY <2>1, <2>2, <2>3, <2>4, <2>5 DEF TemplateInv
<1>7. RowInv'
  BY <1>1 DEF Parts, RowInv
<1>8. ServiceSweepInv'
  <2>1. \A k \in sweeps[Service].todo : k \in Job
    BY DEF TypeInv, SweepType
  <2> QED
    BY <2>1 DEF Parts, ServiceSweepInv, Closed, Meant, Swept
<1>9. RewriteInv'
  BY <1>1 DEF Parts, RewriteInv
<1>10. DriverInv'
  <2>1. ASSUME svc'.gate, NEW l \in Lease, now' < promised'[l], ~Awaiting(l)'
        PROVE  \E j \in Job : IsDriver(j, l, promised[l])'
    <3>1. now < promised[l]
      BY <1>2, <2>1, Numbers
    <3>2. ~Awaiting(l)
      BY <2>1 DEF Awaiting
    <3>3. PICK j \in Job : IsDriver(j, l, promised[l])
      BY <2>1, <3>1, <3>2 DEF Parts, DriverInv
    <3>4. Live(l)
      BY <3>1, PromisedTerm DEF Parts
    <3> QED
      BY <3>3, <3>4 DEF IsDriver
  <2>2. ASSUME call'.step = "guarding", Live(call.item.lease)'
        PROVE  IsDriver(call.made, call.item.lease, call.item.exp)'
    <3>1. call.item.lease \in Lease
      BY <2>2 DEF TypeInv, CallInv, Handling
    <3>2. Live(call.item.lease)
      BY <1>3, <2>2, <3>1
    <3>3. IsDriver(call.made, call.item.lease, call.item.exp) /\ call.made \in Job
      BY <2>2, <3>2 DEF Parts, DriverInv, PhaseInv
    <3> QED
      BY <3>2, <3>3 DEF IsDriver
  <2> QED
    BY <2>1, <2>2 DEF DriverInv
<1>11. InitializeInv'
  <2> SUFFICES ASSUME call.op = "initialize"
               PROVE  InitializeInv'
    BY DEF InitializeInv
  <2>1. call.length <= now /\ call.length \in Nat
    BY DEF Parts, InitializeInv, TypeInv, CallInv, Call
  <2>2. call'.length <= now'
    BY <1>2, <2>1
  <2>3. \A i : Known(i) => Known(i)'
    BY DEF Known
  <2>4. \A l \in Lease : now' < promised'[l] => now < promised[l]
    BY <1>2, Numbers
  <2> QED
    BY <2>2, <2>3, <2>4 DEF Parts, InitializeInv
<1>12. DisableInv'
  BY <1>4 DEF Parts, DisableInv, Own
<1> QED
  BY <1>5, <1>6, <1>7, <1>8, <1>9, <1>10, <1>11, <1>12 DEF Parts

(* Time keeps the parts: a term only runs out.                              *)
LEMMA TickDrives ==
  ASSUME TypeInv, TypeInv', Calm', Parts, Tick
  PROVE  Parts'
<1>1. UNCHANGED <<templates, jobs, tasks, sweeps, svc, call, used, promised>> /\ now' = now + 1
  BY DEF Tick, service, history
<1>2. now' >= now /\ now \in Nat /\ now' \in Nat
  BY <1>1, Numbers
<1>3. \A l \in Lease : Live(l)' => Live(l)
  BY <1>1, <1>2, SameTerm, Numbers DEF Live
<1>4. TaskInv'
  BY <1>1, <1>3 DEF Parts, TaskInv, TypeInv
<1>5. HandlerSweepInv'
  BY <1>1 DEF Parts, HandlerSweepInv, Swept
<1> QED
  BY <1>1, <1>2, <1>4, <1>5, Decays

(* One handler moved, and what it is about to delete has had its term.      *)
LEMMA HandlerDrives ==
  ASSUME TypeInv, TypeInv', Parts, NEW j \in Job, Beside(j),
         \A k \in Job : k \in sweeps[j].todo /\ jobs'[k] # jobs[k] => ~Live(jobs[k].lease),
         tasks[j].step = "deleting" => ~Live(tasks[j].lease),
         tasks'[j].step # "idle" => tasks'[j].lease \in used,
         tasks'[j].step \in {"deleting", "sweeping"} => ~Live(tasks'[j].lease),
         ~Swept(j)' => tasks'[j].step = "sweeping" /\ sweeps'[j].lease = tasks'[j].lease,
         \A k \in sweeps'[j].todo : jobs'[k] # NoJob => jobs'[k].lease = tasks'[j].lease
  PROVE  Parts'
<1>1. /\ UNCHANGED <<now, svc, call, used, promised>>
      /\ \A b \in Job : b # j => sweeps'[b] = sweeps[b] /\ tasks'[b] = tasks[b]
      /\ sweeps'[Service] = sweeps[Service]
  BY ServiceIsNoJob DEF Beside
<1>2. \A l : Live(l)' = Live(l)
  BY <1>1, SameTerm DEF Live
<1>3. TaskInv'
  BY <1>1, <1>2 DEF Parts, TaskInv
<1>4. HandlerSweepInv'
  <2>1. \A b \in Job : sweeps[b].todo \subseteq Job
    BY DEF TypeInv, SweepType
  <2> QED
    BY <1>1, <2>1 DEF Parts, HandlerSweepInv, Swept, Beside
<1>5. \A k \in Job : jobs'[k] = jobs[k] \/ (jobs'[k] = NoJob /\ ~Live(jobs[k].lease))
  BY DEF Beside
<1>6. \A l \in Lease : templates'[l] = templates[l] \/ (templates'[l] = NoTemplate /\ ~Live(l))
  BY DEF Beside
<1>7. now' >= now
  BY <1>1, Numbers
<1> QED
  BY <1>1, <1>3, <1>4, <1>5, <1>6, <1>7, Decays

(* Whoever does not sweep has nothing to sweep.                             *)
LEMMA NothingSwept ==
  ASSUME TypeInv, Parts, NEW j \in Job, tasks[j].step # "sweeping"
  PROVE  Swept(j)
BY DEF Parts, HandlerSweepInv

(* A handler that starts keeps them.                                        *)
LEMMA FireDrives ==
  ASSUME TypeInv, TypeInv', Calm', Parts, NEW j \in Job, Fire(j)
  PROVE  Parts'
<1>1. Beside(j)
  BY FireTypes
<1>2. /\ jobs[j] # NoJob /\ tasks[j] = Idle /\ UNCHANGED jobs
      /\ jobs[j].kind = "driver" \/ now >= jobs[j].exp
      /\ \/ jobs[j].kind = "cleanup" /\ StartTask(j, "deleting") /\ UNCHANGED sweeps
         \/ StartTask(j, "checking") /\ UNCHANGED sweeps
         \/ now >= jobs[j].exp /\ StartTask(j, "sweeping") /\ Start(j, Disarm(jobs[j].lease))
  <2>1. jobs[j] # NoJob => jobs[j].exp \in Nat /\ now \in Nat
    BY Numbers
  <2> QED
    BY <2>1 DEF Fire
<1>3. jobs[j].lease \in Lease /\ jobs[j].lease \in used /\ jobs[j].exp >= Term(jobs[j].lease)
  BY <1>2, Numbers DEF Parts, RowInv
<1>4. now >= jobs[j].exp => ~Live(jobs[j].lease)
  BY <1>2, <1>3, Numbers DEF Live
<1>5. tasks[j].step = "idle"
  BY <1>2 DEF Idle
<1>6. Swept(j)
  BY <1>5, NothingSwept
<1>7. ASSUME NEW step, StartTask(j, step)
      PROVE  tasks'[j].step = step /\ tasks'[j].lease = jobs[j].lease
  BY <1>7 DEF StartTask, TypeInv
<1>8. tasks'[j].lease = jobs[j].lease
  BY <1>2, <1>7
<1>9. tasks'[j].step \in {"deleting", "sweeping"} => now >= jobs[j].exp
  <2>1. jobs[j].kind = "cleanup" => now >= jobs[j].exp
    BY <1>2
  <2> QED
    BY <1>2, <1>7, <2>1
<1>10. \/ Swept(j)'
       \/ /\ tasks'[j].step = "sweeping" /\ sweeps'[j].lease = jobs[j].lease
  <2>1. CASE UNCHANGED sweeps
    BY <1>6, <2>1 DEF Swept
  <2>2. CASE StartTask(j, "sweeping") /\ Start(j, Disarm(jobs[j].lease))
    BY <1>3, <1>7, <2>2, SweepTypes, StartSteps
  <2> QED
    BY <1>2, <2>1, <2>2
<1>11. sweeps'[j].todo = {}
  <2>1. CASE UNCHANGED sweeps
    BY <1>6, <2>1 DEF Swept
  <2>2. CASE Start(j, Disarm(jobs[j].lease))
    BY <1>3, <2>2, SweepTypes, StartSteps
  <2> QED
    BY <1>2, <2>1, <2>2
<1> QED
  BY <1>1, <1>2, <1>3, <1>4, <1>5, <1>8, <1>9, <1>10, <1>11, HandlerDrives

(* The check of the template keeps them: a handler goes on to delete only   *)
(* what has no term.                                                        *)
LEMMA CheckDrives ==
  ASSUME TypeInv, TypeInv', Calm', Parts, NEW j \in Job, CheckTemplate(j)
  PROVE  Parts'
<1>1. Beside(j)
  BY CheckTypes
<1>2. /\ tasks[j].step = "checking" /\ UNCHANGED jobs
      /\ \/ /\ tasks[j].lease \notin Leases /\ tasks' = [tasks EXCEPT ![j].step = "sweeping"]
            /\ Start(j, Disarm(tasks[j].lease))
         \/ tasks' = [tasks EXCEPT ![j].step = "preflight"] /\ UNCHANGED sweeps
         \/ EndTask(j) /\ UNCHANGED sweeps
  BY DEF CheckTemplate
<1>3. tasks[j].lease \in Lease /\ tasks[j].lease \in used
  BY <1>2 DEF TypeInv, Parts, TaskInv
<1>4. tasks[j].lease \notin Leases => ~Live(tasks[j].lease)
  BY <1>3 DEF Parts, TemplateInv
<1>5. Swept(j)
  BY <1>2, NothingSwept
<1>6. CASE /\ tasks[j].lease \notin Leases /\ tasks' = [tasks EXCEPT ![j].step = "sweeping"]
           /\ Start(j, Disarm(tasks[j].lease))
  <2>1. tasks'[j].step = "sweeping" /\ tasks'[j].lease = tasks[j].lease
    BY <1>6 DEF TypeInv, Task
  <2>2. sweeps'[j].todo = {} /\ sweeps'[j].lease = tasks[j].lease
    BY <1>3, <1>6, SweepTypes, StartSteps
  <2> QED
    BY <1>1, <1>2, <1>3, <1>4, <1>6, <2>1, <2>2, HandlerDrives
<1>7. CASE tasks' = [tasks EXCEPT ![j].step = "preflight"] /\ UNCHANGED sweeps
  <2>1. tasks'[j].step = "preflight" /\ tasks'[j].lease = tasks[j].lease
    BY <1>7 DEF TypeInv, Task
  <2>2. sweeps'[j].todo = {} /\ Swept(j)'
    BY <1>5, <1>7 DEF Swept
  <2> QED
    BY <1>1, <1>2, <1>3, <2>1, <2>2, HandlerDrives
<1>8. CASE EndTask(j) /\ UNCHANGED sweeps
  <2>1. tasks'[j].step = "idle"
    BY <1>8 DEF TypeInv, EndTask, Idle
  <2>2. sweeps'[j].todo = {} /\ Swept(j)'
    BY <1>5, <1>8 DEF Swept
  <2> QED
    BY <1>1, <1>2, <2>1, <2>2, HandlerDrives
<1> QED
  BY <1>2, <1>6, <1>7, <1>8

(* A wake that is suppressed or run keeps them.                             *)
LEMMA ShortDrives ==
  ASSUME TypeInv, TypeInv', Calm', Parts, NEW j \in Job, Suppress(j) \/ Run(j)
  PROVE  Parts'
<1>1. Beside(j)
  BY ShortTypes
<1>2. /\ tasks[j].step = "preflight" /\ UNCHANGED <<jobs, sweeps>>
      /\ tasks' = [tasks EXCEPT ![j].step = "running"] \/ EndTask(j)
  BY DEF Suppress, Run
<1>3. tasks[j].lease \in used
  BY <1>2 DEF Parts, TaskInv
<1>4. \/ tasks'[j].step = "idle"
      \/ tasks'[j].step = "running" /\ tasks'[j].lease = tasks[j].lease
  BY <1>2 DEF TypeInv, Task, EndTask, Idle
<1>5. sweeps'[j].todo = {} /\ Swept(j)'
  BY <1>2, NothingSwept DEF Swept
<1> QED
  BY <1>1, <1>2, <1>3, <1>4, <1>5, HandlerDrives

(* A handler that returns or raises keeps them.                             *)
LEMMA ReturnDrives ==
  ASSUME TypeInv, TypeInv', Calm', Parts, NEW j \in Job, Return(j) \/ HandlerFails(j)
  PROVE  Parts'
<1>1. Beside(j)
  BY ReturnTypes
<1>2. Return(j)
  BY NoMishap DEF HandlerFails
<1>3. UNCHANGED jobs /\ EndTask(j) /\ Start(j, NoSweep) /\ tasks[j].step # "deleting"
  BY <1>2 DEF Return
<1>4. tasks'[j].step = "idle"
  BY <1>3 DEF TypeInv, EndTask, Idle
<1>5. sweeps'[j].todo = {} /\ Swept(j)'
  BY <1>3, SweepTypes, StartSteps DEF Swept
<1> QED
  BY <1>1, <1>3, <1>4, <1>5, HandlerDrives

(* An expired template is deleted only after its term.                      *)
LEMMA ExpireDrives ==
  ASSUME TypeInv, TypeInv', Calm', Parts, NEW j \in Job, Expire(j)
  PROVE  Parts'
<1>1. Beside(j)
  BY ExpireTypes
<1>2. /\ tasks[j].step = "deleting" /\ UNCHANGED jobs
      /\ tasks' = [tasks EXCEPT ![j].step = "sweeping"]
      /\ Start(j, DeleteCleanup(tasks[j].lease))
  BY DEF Expire
<1>3. tasks[j].lease \in Lease /\ tasks[j].lease \in used /\ ~Live(tasks[j].lease)
  BY <1>2 DEF TypeInv, Parts, TaskInv
<1>4. tasks'[j].step = "sweeping" /\ tasks'[j].lease = tasks[j].lease
  BY <1>2 DEF TypeInv, Task
<1>5. sweeps'[j].todo = {} /\ sweeps'[j].lease = tasks[j].lease
  BY <1>2, <1>3, SweepTypes, StartSteps
<1> QED
  BY <1>1, <1>2, <1>3, <1>4, <1>5, HandlerDrives

(* A handler sweeps only jobs of a lease whose term is over.                *)
LEMMA HandlerSweepDrives ==
  ASSUME TypeInv, TypeInv', Calm', Parts, NEW j \in Job, SweepList(j) \/ SweepDelete(j)
  PROVE  Parts'
<1>1. Beside(j)
  BY HandlerSweepTypes
<1>2. UNCHANGED tasks
  BY DEF SweepList, SweepDelete
<1>3. ~Swept(j)
  BY DEF SweepList, SweepDelete, Swept
<1>4. /\ tasks[j].step = "sweeping" /\ sweeps[j].lease = tasks[j].lease
      /\ tasks[j].lease \in Lease /\ tasks[j].lease \in used /\ ~Live(tasks[j].lease)
      /\ \A k \in sweeps[j].todo : jobs[k] # NoJob => jobs[k].lease = tasks[j].lease
  BY <1>3 DEF Parts, HandlerSweepInv, TaskInv, TypeInv
<1>5. sweeps[j].todo \subseteq Job
  BY DEF TypeInv, SweepType
<1>6. CASE SweepList(j)
  <2>1. UNCHANGED jobs /\ sweeps'[j].lease = sweeps[j].lease
        /\ \E kind \in {"driver", "guard", "cleanup"} :
             sweeps'[j].todo = sweeps[j].todo \cup Rows(kind, sweeps[j].lease)
    BY <1>6, SweepListSteps
  <2>2. sweeps[j].lease # NoLease
    BY <1>4, HeartbeatAssumption
  <2>3. \A k \in sweeps'[j].todo : jobs'[k] # NoJob => jobs'[k].lease = tasks'[j].lease
    BY <1>2, <1>4, <2>1, <2>2 DEF Rows
  <2> QED
    BY <1>1, <1>2, <1>4, <2>1, <2>3, HandlerDrives
<1>7. CASE SweepDelete(j)
  <2>1. PICK i \in sweeps[j].todo :
           /\ \A k \in Job : k # i => jobs'[k] = jobs[k]
           /\ jobs'[i] = NoJob
           /\ sweeps'[j].lease = sweeps[j].lease
           /\ sweeps'[j].todo = sweeps[j].todo \ {i}
    BY <1>7, SweepDeleteSteps, NoMishap
  <2>2. \A k \in Job : k \in sweeps[j].todo /\ jobs'[k] # jobs[k] => ~Live(jobs[k].lease)
    BY <1>4, <2>1
  <2>3. \A k \in sweeps'[j].todo : jobs'[k] # NoJob => jobs'[k].lease = tasks'[j].lease
    BY <1>2, <1>4, <1>5, <2>1
  <2> QED
    BY <1>1, <1>2, <1>4, <2>1, <2>2, <2>3, HandlerDrives
<1> QED
  BY <1>6, <1>7

(* Every step of a handler keeps the parts.                                 *)
LEMMA HandlerStepDrives ==
  ASSUME TypeInv, TypeInv', Calm', Parts, NEW j \in Job, HandlerStep(j)
  PROVE  Parts'
BY FireDrives, CheckDrives, ShortDrives, ReturnDrives, ExpireDrives, HandlerSweepDrives DEF HandlerStep
----------------------------------------------------------------------------
(* The service, outside the steps that write jobs.                          *)

(* A loop that has listed nothing, or lists cleanup jobs only, threatens no *)
(* driver.                                                                  *)
LEMMA FreshSweep ==
  ASSUME sweeps'[Service].todo = {}, sweeps'[Service].lists \in {<<>>, <<"cleanup">>},
         call'.step = "guarding" => sweeps'[Service].lists = <<>>
  PROVE  ServiceSweepInv'
BY DEF ServiceSweepInv, Swept

(* Drivers stay where the jobs, the instance and the promises do.           *)
LEMMA SameDrivers ==
  ASSUME TypeInv, Parts, UNCHANGED jobs, call'.step # "guarding",
         now' = now, \A l \in Lease : promised'[l] = promised[l] \/ promised'[l] = 0,
         svc'.gate => /\ svc.gate /\ svc'.instance = svc.instance
                      /\ \A l \in Lease : Awaiting(l) => Awaiting(l)'
  PROVE  DriverInv'
<1> SUFFICES ASSUME svc'.gate, NEW l \in Lease, now < promised'[l], ~Awaiting(l)'
             PROVE  \E j \in Job : IsDriver(j, l, promised[l])'
  BY DEF DriverInv
<1>1. promised'[l] = promised[l]
  BY Numbers
<1>2. PICK j \in Job : IsDriver(j, l, promised[l])
  BY <1>1 DEF Parts, DriverInv
<1> QED
  BY <1>1, <1>2 DEF IsDriver

(* No jobs are written before or after the step.                            *)
LEMMA Plain ==
  ASSUME TypeInv, TypeInv', Parts, UNCHANGED <<now, jobs, tasks, used>>,
         \A a \in Job : sweeps'[a] = sweeps[a],
         \A l \in Lease : ~Writing(l) /\ ~Writing(l)',
         call'.step \in Arming => call'.item.lease \in used,
         \A l \in Lease : promised'[l] = promised[l] \/ promised'[l] = 0,
         \A l \in Lease : \/ templates'[l] = templates[l]
                          \/ templates'[l] = NoTemplate /\ ~(now < promised'[l]),
         call'.step = "deleting" => promised'[call'.item.lease] = 0,
         call'.step = "expiring" =>
           \A i \in call'.todo : i.lease \in Leases' => templates'[i.lease].exp <= now,
         PhaseInv', ServiceSweepInv', DriverInv', InitializeInv', DisableInv'
  PROVE  Parts'
<1>1. \A l \in Lease : Term(l) = promised[l] /\ Term(l)' = promised'[l] /\ Term(l)' <= Term(l)
  BY Numbers DEF Term
<1>2. ASSUME NEW l \in Lease, Live(l)' PROVE Live(l)
  BY <1>1, <1>2, Numbers DEF Live
<1>3. TemplateInv'
  <2>1. ASSUME NEW l \in Lease, Live(l)' PROVE l \in Leases'
    <3>1. l \in Leases
      BY <1>2, <2>1 DEF Parts, TemplateInv
    <3>2. now < promised'[l]
      BY <1>1, <2>1 DEF Live
    <3> QED
      BY <3>1, <3>2 DEF Leases
  <2>2. \A l \in Leases' : promised'[l] > 0 => templates'[l].exp = promised'[l]
    <3> SUFFICES ASSUME NEW l \in Leases', promised'[l] > 0 PROVE templates'[l].exp = promised'[l]
      OBVIOUS
    <3>1. l \in Lease /\ l \in Leases /\ templates'[l] = templates[l] /\ promised'[l] = promised[l]
      BY DEF Leases
    <3> QED
      BY <3>1 DEF Parts, TemplateInv
  <2>3. \A l \in Lease : promised'[l] > 0 => l \in used'
    BY DEF Parts, TemplateInv
  <2> QED
    BY <2>1, <2>2, <2>3 DEF TemplateInv
<1>4. TaskInv'
  <2>1. \A j \in Job : tasks[j].step # "idle" => tasks[j].lease \in Lease
    BY DEF TypeInv
  <2> QED
    BY <1>2, <2>1 DEF Parts, TaskInv
<1>5. RowInv'
  <2> SUFFICES ASSUME NEW j \in Job, jobs[j] # NoJob
               PROVE  jobs[j].exp >= Term(jobs[j].lease)'
    BY DEF RowInv, Parts
  <2>1. jobs[j].exp \in Nat /\ jobs[j].lease \in Lease /\ jobs[j].exp >= Term(jobs[j].lease)
    BY Numbers DEF Parts, RowInv
  <2>2. PICK l \in Lease : l = jobs[j].lease
    BY <2>1
  <2>3. Term(l)' <= Term(l) /\ Term(l) \in Nat /\ Term(l)' \in Nat
    BY <1>1, Numbers DEF TypeInv
  <2>4. jobs[j].exp >= Term(l)'
    BY <2>1, <2>2, <2>3
  <2> QED
    BY <2>2, <2>4
<1>6. HandlerSweepInv'
  BY DEF Parts, HandlerSweepInv, Swept
<1>7. RewriteInv'
  <2>1. \A k \in Job : jobs[k] # NoJob => jobs[k].lease \in Lease
    BY Numbers
  <2> QED
    BY <2>1 DEF RewriteInv
<1> QED
  BY <1>3, <1>4, <1>5, <1>6, <1>7 DEF Parts

(* Outside the writing steps of create and renew no lease is being written. *)
LEMMA Quiet ==
  ASSUME call.step \notin Arming \/ call.op \notin {"create", "renew"}
  PROVE  \A l \in Lease : ~Writing(l)
BY DEF Writing

(* An operation ends: nothing holds but for what all operations respect.    *)
LEMMA EndDrives ==
  ASSUME TypeInv, TypeInv', Parts, UNCHANGED <<now, jobs, tasks, used, promised, templates>>,
         \A a \in Job \cup {Service} : sweeps'[a] = sweeps[a],
         call' = Locals, \A l \in Lease : ~Writing(l), Swept(Service),
         svc'.gate => /\ svc.gate /\ svc'.instance = svc.instance
                      /\ \A l \in Lease : ~Awaiting(l)
  PROVE  Parts'
<1>1. call'.op = "none" /\ call'.step = "idle"
  BY LocalsType
<1>2. PhaseInv' /\ InitializeInv' /\ DisableInv'
  BY <1>1 DEF PhaseInv, InitializeInv, DisableInv, Arming
<1>3. ServiceSweepInv'
  BY <1>1, FreshSweep DEF Swept
<1>4. DriverInv'
  BY <1>1, SameDrivers
<1>5. \A l \in Lease : ~Writing(l)'
  BY <1>1 DEF Writing
<1> QED
  BY <1>1, <1>2, <1>3, <1>4, <1>5, Plain DEF Arming

(* The start of an operation keeps the parts: a disable names leases of its *)
(* own scope.                                                               *)
LEMMA ManageDrives ==
  ASSUME TypeInv, TypeInv', Calm', Parts, ~ForeignIds,
         NEW op \in Operations, NEW s \in Scope, NEW ids \in SUBSET used,
         NEW length \in Lengths, Manage(op, s, ids, length)
  PROVE  Parts'
<1>1. /\ UNCHANGED <<now, templates, jobs, tasks, sweeps, svc, used, promised>>
      /\ call.op = "none"
      /\ \A l \in ids \cap Leases : templates[l].scope = s
      /\ call' = [Locals EXCEPT !.op = op, !.step = "inventory", !.scope = s, !.ids = ids,
                                !.length = length]
  BY DEF Manage, history
<1>2. call'.op = op /\ call'.step = "inventory" /\ call'.scope = s /\ call'.ids = ids
  BY <1>1 DEF Locals
<1>3. op \in {"create", "renew", "disable", "list"}
  BY HeartbeatAssumption
<1>4. call.step = "idle"
  BY <1>1 DEF Parts, PhaseInv
<1>5. PhaseInv' /\ InitializeInv' /\ DisableInv'
  BY <1>1, <1>2, <1>3 DEF PhaseInv, InitializeInv, DisableInv, Own, Leases, Arming
<1>6. ServiceSweepInv'
  BY <1>1, <1>2, <1>4 DEF Parts, ServiceSweepInv, Closed, Meant
<1>7. \A l \in Lease : ~Writing(l) /\ ~Writing(l)'
  BY <1>2, <1>4 DEF Writing, Arming
<1>8. \A l \in Lease : ~Awaiting(l)
  BY <1>1 DEF Awaiting
<1>9. DriverInv'
  BY <1>1, <1>2, <1>8, SameDrivers
<1> QED
  BY <1>1, <1>2, <1>5, <1>6, <1>7, <1>9, Plain DEF Arming

(* An inventory keeps them: what it takes for expired is so.                *)
LEMMA InventoryDrives ==
  ASSUME TypeInv, TypeInv', Calm', Parts, Inventory
  PROVE  Parts'
<1>1. /\ UNCHANGED <<now, templates, jobs, tasks, sweeps, svc, used, spent, promised>>
      /\ At("inventory") /\ call.op # "initialize"
      /\ call'.step = "expiring" /\ call'.op = call.op /\ call'.scope = call.scope
      /\ call'.ids = call.ids
      /\ \A i \in call'.todo : i.lease \in Leases => templates[i.lease].exp <= now
  BY InventorySteps
<1>2. call.step = "inventory" /\ Swept(Service)
  BY <1>1 DEF At
<1>3. call.op \in {"create", "renew", "disable", "list"}
  BY <1>1, <1>2 DEF Parts, PhaseInv
<1>4. PhaseInv' /\ InitializeInv'
  BY <1>1, <1>3 DEF PhaseInv, InitializeInv, Arming
<1>5. DisableInv'
  BY <1>1, <1>2 DEF Parts, DisableInv, Own, Leases
<1>6. ServiceSweepInv'
  BY <1>1, <1>2, FreshSweep DEF Swept
<1>7. \A l \in Lease : ~Writing(l) /\ ~Writing(l)'
  BY <1>1, <1>2 DEF Writing, Arming
<1>8. \A l \in Lease : ~Awaiting(l)
  BY <1>1 DEF Awaiting
<1>9. DriverInv'
  BY <1>1, <1>8, SameDrivers
<1>10. \A i \in call'.todo : i.lease \in Leases' => templates'[i.lease].exp <= now
  BY <1>1 DEF Leases
<1> QED
  BY <1>1, <1>4, <1>5, <1>6, <1>7, <1>9, <1>10, Plain DEF Arming

(* The deletion of an expired lease keeps them.                             *)
LEMMA DeleteExpiredDrives ==
  ASSUME TypeInv, TypeInv', Calm', Parts, DeleteExpired
  PROVE  Parts'
<1>1. PICK i \in call.todo :
           /\ UNCHANGED <<now, jobs, tasks, svc, used, promised>>
           /\ At("expiring") /\ i.lease \in Lease
           /\ call' = [call EXCEPT !.todo = @ \ {i}]
           /\ \/ UNCHANGED <<templates, sweeps>>
              \/ DeleteTemplate(i.lease, TRUE) /\ Start(Service, DeleteCleanup(i.lease))
  <2>2. \A i \in call.todo : ~DeleteTemplate(i.lease, FALSE)
    BY NoMishap DEF DeleteTemplate
  <2> QED
    BY <2>2, DeleteExpiredSteps
<1>2. call.step = "expiring" /\ Swept(Service)
  BY <1>1 DEF At
<1>3. call \in Call
  BY DEF TypeInv, CallInv
<1>4. call'.step = "expiring" /\ call'.op = call.op /\ call'.scope = call.scope
      /\ call'.ids = call.ids /\ call'.todo = call.todo \ {i}
  BY <1>1, <1>2, <1>3 DEF Call
<1>5. call.op \in {"create", "renew", "disable", "list"}
  BY <1>2 DEF Parts, PhaseInv
<1>6. \A l \in Lease : templates'[l] = templates[l] \/ (l = i.lease /\ templates'[l] = NoTemplate)
  BY <1>1, DeleteSteps
<1>7. ~(now < promised[i.lease]) \/ UNCHANGED templates
  <2>1. ASSUME now < promised[i.lease] PROVE FALSE
    <3>1. i.lease \in Leases /\ promised[i.lease] > 0
      BY <1>1, <2>1, PromisedTerm DEF Parts, TemplateInv
    <3>2. templates[i.lease].exp <= now /\ templates[i.lease].exp = promised[i.lease]
      BY <1>2, <3>1 DEF Parts, TemplateInv
    <3>3. now \in Nat /\ promised[i.lease] \in Nat
      BY <1>1, Numbers
    <3> QED
      BY <2>1, <3>2, <3>3
  <2> QED
    BY <2>1
<1>8. PhaseInv' /\ InitializeInv'
  BY <1>4, <1>5 DEF PhaseInv, InitializeInv, Arming
<1>9. DisableInv'
  BY <1>2, <1>4, <1>6 DEF Parts, DisableInv, Own, Leases
<1>10. ServiceSweepInv'
  <2>1. CASE UNCHANGED sweeps
    BY <1>2, <1>4, <2>1, FreshSweep DEF Swept
  <2>2. CASE Start(Service, DeleteCleanup(i.lease))
    <3>1. sweeps'[Service] = DeleteCleanup(i.lease)
      BY <1>1, <2>2, SweepTypes, ServiceStarts
    <3>2. sweeps'[Service].todo = {} /\ sweeps'[Service].lists = <<"cleanup">>
      BY <3>1 DEF DeleteCleanup, Sweep, NoSweep
    <3> QED
      BY <1>4, <3>2, FreshSweep
  <2> QED
    BY <1>1, <2>1, <2>2
<1>11. \A a \in Job : sweeps'[a] = sweeps[a]
  BY <1>1, SweepTypes, ServiceStarts
<1>12. \A l \in Lease : ~Writing(l) /\ ~Writing(l)'
  BY <1>2, <1>4 DEF Writing, Arming
<1>13. \A l \in Lease : ~Awaiting(l)
  BY <1>5 DEF Awaiting
<1>14. DriverInv'
  BY <1>1, <1>4, <1>13, SameDrivers
<1>15. \A k \in call'.todo : k.lease \in Leases' => templates'[k.lease].exp <= now
  BY <1>2, <1>4, <1>6 DEF Parts, TemplateInv, Leases
<1>16. \A l \in Lease : templates'[l] = templates[l] \/ (templates'[l] = NoTemplate /\ ~(now < promised'[l]))
  BY <1>1, <1>6, <1>7
<1> QED
  BY <1>1, <1>4, <1>8, <1>9, <1>10, <1>11, <1>12, <1>14, <1>15, <1>16, Plain DEF Arming

(* The first step of an operation's own keeps them.                         *)
LEMMA ActDrives ==
  ASSUME TypeInv, TypeInv', Calm', Parts, Act
  PROVE  Parts'
<1>1. /\ UNCHANGED <<now, templates, jobs, tasks, sweeps, svc, used, promised>>
      /\ At("expiring")
      /\ \/ /\ call.op = "create" /\ call'.op = "create" /\ call'.step = "adding"
         \/ /\ call.op = "renew" /\ call'.op = "renew" /\ call'.step = "renewing"
         \/ /\ call.op = "disable" /\ call'.op = "disable" /\ call'.step = "disarming"
            /\ call'.scope = call.scope /\ \A i \in call'.todo : i.lease \in call.ids
         \/ call' = Locals
  BY ActSteps
<1>2. call.step = "expiring" /\ Swept(Service)
  BY <1>1 DEF At
<1>3. call.op \in {"create", "renew", "disable", "list"}
  BY <1>2 DEF Parts, PhaseInv
<1>4. PhaseInv' /\ InitializeInv' /\ call'.step \notin Arming /\ call'.step \in {"adding", "renewing", "disarming", "idle"}
  BY <1>1, LocalsType DEF PhaseInv, InitializeInv, Arming
<1>5. DisableInv'
  BY <1>1, <1>2, LocalsType DEF Parts, DisableInv, Own, Leases
<1>6. ServiceSweepInv'
  BY <1>1, <1>2, <1>4, FreshSweep DEF Swept
<1>7. \A l \in Lease : ~Writing(l) /\ ~Writing(l)'
  BY <1>2, <1>4 DEF Writing, Arming
<1>8. \A l \in Lease : ~Awaiting(l)
  BY <1>3 DEF Awaiting
<1>9. DriverInv'
  BY <1>1, <1>4, <1>8, SameDrivers
<1> QED
  BY <1>1, <1>4, <1>5, <1>6, <1>7, <1>9, Plain DEF Arming

(* A disable lets the promise go before it disarms.                         *)
LEMMA DisableDrives ==
  ASSUME TypeInv, TypeInv', Calm', Parts, DisableNext
  PROVE  Parts'
<1>1. PICK i \in call.todo :
           /\ UNCHANGED <<now, templates, jobs, tasks, svc, used>>
           /\ At("disarming") /\ i.lease \in Lease
           /\ call'.step = "deleting" /\ call'.item = i /\ call'.todo = call.todo \ {i}
           /\ call'.op = call.op /\ call'.scope = call.scope
           /\ Start(Service, Disarm(i.lease))
           /\ promised' = IF i.lease \in Leases => templates[i.lease].scope = call.scope
                          THEN [promised EXCEPT ![i.lease] = 0] ELSE promised
  BY DisableSteps
<1>2. call.step = "disarming" /\ call.op = "disable"
  BY <1>1 DEF At, Parts, PhaseInv
<1>3. \A k \in call.todo : Own(k.lease)
  BY <1>2 DEF Parts, DisableInv
<1>4. promised' = [promised EXCEPT ![i.lease] = 0]
  BY <1>1, <1>3 DEF Own
<1>5. promised'[i.lease] = 0 /\ \A l \in Lease : promised'[l] = promised[l] \/ promised'[l] = 0
  BY <1>1, <1>4 DEF TypeInv
<1>6. sweeps'[Service] = Disarm(i.lease) /\ \A a \in Job : sweeps'[a] = sweeps[a]
  BY <1>1, SweepTypes, ServiceStarts
<1>7. ServiceSweepInv'
  <2>1. sweeps'[Service].todo = {} /\ sweeps'[Service].lease = i.lease
    BY <1>1, <1>6, SweepTypes
  <2> QED
    BY <1>1, <2>1 DEF ServiceSweepInv, Meant
<1>8. PhaseInv' /\ InitializeInv'
  BY <1>1, <1>2 DEF PhaseInv, InitializeInv, Arming
<1>9. DisableInv'
  BY <1>1, <1>3 DEF DisableInv, Own, Leases
<1>10. \A l \in Lease : ~Writing(l) /\ ~Writing(l)'
  BY <1>1, <1>2 DEF Writing, Arming
<1>11. \A l \in Lease : ~Awaiting(l)
  BY <1>2 DEF Awaiting
<1>12. DriverInv'
  BY <1>1, <1>5, <1>11, SameDrivers
<1> QED
  BY <1>1, <1>5, <1>6, <1>7, <1>8, <1>9, <1>10, <1>12, Plain DEF Arming

(* The deletion of a disarmed lease keeps them: nothing is promised of it   *)
(* any more.                                                                *)
LEMMA DeleteLeaseDrives ==
  ASSUME TypeInv, TypeInv', Calm', Parts, DeleteLease
  PROVE  Parts'
<1>1. /\ UNCHANGED <<now, jobs, tasks, svc, used, promised>>
      /\ At("deleting") /\ call.item.lease \in Lease
      /\ \/ call' = Locals
         \/ /\ call'.step \in {"disarming", "ending"} /\ call'.op = call.op
            /\ call'.scope = call.scope /\ call'.todo = call.todo
      /\ \/ UNCHANGED <<templates, sweeps>>
         \/ /\ DeleteTemplate(call.item.lease, TRUE)
            /\ Start(Service, DeleteCleanup(call.item.lease))
  <2>1. ~DeleteTemplate(call.item.lease, FALSE)
    BY NoMishap DEF DeleteTemplate
  <2>2. \A ok \in BOOLEAN : DeleteTemplate(call.item.lease, ok) => ok
    BY <2>1
  <2> QED
    BY <2>2, DeleteLeaseSteps
<1>2. call.step = "deleting" /\ Swept(Service) /\ call.op = "disable"
  BY <1>1 DEF At, Parts, PhaseInv
<1>3. promised[call.item.lease] = 0
  BY <1>2 DEF Parts, TemplateInv
<1>4. \A l \in Lease : \/ templates'[l] = templates[l]
                       \/ l = call.item.lease /\ templates'[l] = NoTemplate
  BY <1>1, DeleteSteps
<1>5. \A a \in Job : sweeps'[a] = sweeps[a]
  BY <1>1, SweepTypes, ServiceStarts
<1>6. sweeps'[Service].todo = {} /\ sweeps'[Service].lists \in {<<>>, <<"cleanup">>}
  <2>1. CASE UNCHANGED sweeps
    BY <1>2, <2>1 DEF Swept
  <2>2. CASE Start(Service, DeleteCleanup(call.item.lease))
    <3>1. sweeps'[Service] = DeleteCleanup(call.item.lease)
      BY <1>1, <2>2, SweepTypes, ServiceStarts
    <3> QED
      BY <3>1 DEF DeleteCleanup, Sweep, NoSweep
  <2> QED
    BY <1>1, <2>1, <2>2
<1>7. call'.step \in {"idle", "disarming", "ending"} /\ call'.op \in {"none", "disable"}
      /\ (call'.op = "none" => call'.step = "idle") /\ (call'.step = "disarming" => call'.op = "disable")
  BY <1>1, <1>2, LocalsType
<1>8. PhaseInv' /\ InitializeInv' /\ ServiceSweepInv'
  BY <1>6, <1>7, FreshSweep DEF PhaseInv, InitializeInv, Arming
<1>9. DisableInv'
  BY <1>1, <1>2, <1>4, <1>7, LocalsType DEF Parts, DisableInv, Own, Leases
<1>10. \A l \in Lease : ~Writing(l) /\ ~Writing(l)'
  BY <1>2, <1>7 DEF Writing, Arming
<1>11. \A l \in Lease : ~Awaiting(l)
  BY <1>2 DEF Awaiting
<1>12. DriverInv'
  BY <1>1, <1>7, <1>11, SameDrivers
<1>13. \A l \in Lease : templates'[l] = templates[l] \/ (templates'[l] = NoTemplate /\ ~(now < promised'[l]))
  <2>1. ~(now < promised[call.item.lease])
    BY <1>3, Numbers
  <2> QED
    BY <1>1, <1>4, <2>1
<1> QED
  BY <1>1, <1>5, <1>7, <1>8, <1>9, <1>10, <1>12, <1>13, Plain DEF Arming
----------------------------------------------------------------------------
(* Operations end; initialize and terminate.                                *)

(* The end of a disable or of terminate keeps them.                         *)
LEMMA FinishDrives ==
  ASSUME TypeInv, TypeInv', Calm', Parts, Finish \/ Terminated
  PROVE  Parts'
<1>1. /\ UNCHANGED <<now, jobs, tasks, used, promised, templates, sweeps>>
      /\ call' = Locals /\ Swept(Service) /\ svc'.gate = svc.gate /\ svc'.instance = svc.instance
      /\ call.step \in {"ending", "closing"}
  BY DEF Finish, Terminated, End, At, history, TypeInv
<1>2. \A l \in Lease : ~Writing(l)
  BY <1>1 DEF Writing, Arming
<1>3. \A l \in Lease : promised[l] \in Nat
  BY DEF TypeInv
<1>4. call'.op = "none" /\ call'.step = "idle"
  BY <1>1, LocalsType
<1>5. call.op # "initialize"
  BY <1>1 DEF Parts, PhaseInv
<1>6. \A l \in Lease : ~Awaiting(l)
  BY <1>5 DEF Awaiting
<1> QED
  BY <1>1, <1>2, <1>6, EndDrives

(* The inventory of initialize keeps them: it misses no lease.              *)
LEMMA InitialInventoryDrives ==
  ASSUME TypeInv, TypeInv', Calm', Parts, InitialInventory
  PROVE  Parts'
<1>1. /\ At("inventory") /\ call.op = "initialize"
      /\ UNCHANGED <<now, templates, jobs, tasks, sweeps, svc, used, promised>>
      /\ call'.step = "reconciling" /\ call'.op = "initialize" /\ call'.length = call.length
      /\ call'.todo = {[lease |-> l, exp |-> templates[l].exp] : l \in Leases}
      /\ call'.ready = call.ready
  BY InitialInventorySteps
<1>2. call.step = "inventory" /\ Swept(Service) /\ ~svc.gate
  BY <1>1 DEF At, Parts, InitializeInv
<1>3. \A i \in call'.todo : Known(i)'
  <2>1. ASSUME NEW l \in Leases
        PROVE  l \in used /\ promised[l] \in {0, templates[l].exp}
    <3>1. l \in Lease /\ l \in used /\ promised[l] \in Nat
      BY Numbers
    <3> QED
      BY <3>1 DEF Parts, TemplateInv
  <2> QED
    BY <1>1, <2>1 DEF Known
<1>4. \A l \in Lease : now < promised[l] => \E i \in call'.todo : i.lease = l
  <2>1. \A l \in Lease : now < promised[l] => l \in Leases
    BY PromisedTerm DEF Parts, TemplateInv
  <2>2. \A l \in Leases : /\ [lease |-> l, exp |-> templates[l].exp] \in call'.todo
                          /\ [lease |-> l, exp |-> templates[l].exp].lease = l
    BY <1>1
  <2> QED
    BY <2>1, <2>2
<1>5. InitializeInv'
  BY <1>1, <1>2, <1>3, <1>4 DEF Parts, InitializeInv, Known, Arming
<1>6. PhaseInv' /\ DisableInv'
  BY <1>1 DEF PhaseInv, DisableInv, Arming
<1>7. ServiceSweepInv'
  BY <1>1, <1>2, FreshSweep DEF Swept
<1>8. DriverInv'
  BY <1>1, <1>2, SameDrivers
<1>9. \A l \in Lease : ~Writing(l) /\ ~Writing(l)'
  BY <1>1, <1>2 DEF Writing, Arming
<1> QED
  BY <1>1, <1>5, <1>6, <1>7, <1>8, <1>9, Plain DEF Arming

(* initialize drops only leases whose term is over.                         *)
LEMMA ReconcileDrives ==
  ASSUME TypeInv, TypeInv', Calm', Parts, Reconcile
  PROVE  Parts'
<1>1. PICK i \in call.todo :
           /\ UNCHANGED <<now, jobs, tasks, sweeps, svc, used, promised>>
           /\ At("reconciling") /\ i.lease \in Lease /\ i.exp \in Minutes
           /\ call'.op = call.op /\ call'.length = call.length /\ call'.ready = call.ready
           /\ call'.todo = call.todo \ {i}
           /\ \/ /\ i.exp <= call.length /\ call'.step = call.step
                 /\ \E ok \in BOOLEAN : DeleteTemplate(i.lease, ok)
              \/ /\ UNCHANGED templates
                 /\ i.lease \in Leases /\ call'.step = "cleanup" /\ call'.item = i
              \/ /\ UNCHANGED templates /\ i.lease \notin Leases /\ call'.step = call.step
  BY ReconcileSteps, NoMishap
<1>2. call.step = "reconciling" /\ Swept(Service) /\ call.op = "initialize" /\ ~svc.gate
  BY <1>1 DEF At, Parts, InitializeInv, PhaseInv
<1>3. Known(i) /\ call.length <= now
  BY <1>2 DEF Parts, InitializeInv
<1>4. i.lease \notin Leases => ~(now < promised[i.lease])
  BY <1>1, PromisedTerm DEF Parts, TemplateInv
<1>5. i.exp <= call.length => ~(now < promised[i.lease])
  <2>1. i.exp \in Nat /\ call.length \in Nat /\ now \in Nat
    BY <1>1, Numbers DEF Minutes, TypeInv, CallInv, Call
  <2> QED
    BY <1>3, <2>1 DEF Known
<1>6. \A l \in Lease : \/ templates'[l] = templates[l]
                       \/ templates'[l] = NoTemplate /\ ~(now < promised'[l])
  <2>1. CASE UNCHANGED templates
    BY <2>1
  <2>2. CASE i.exp <= call.length /\ \E ok \in BOOLEAN : DeleteTemplate(i.lease, ok)
    <3>1. PICK ok \in BOOLEAN : DeleteTemplate(i.lease, ok)
      BY <2>2
    <3>2. \A l \in Lease : templates'[l] = templates[l] \/ (l = i.lease /\ templates'[l] = NoTemplate)
      BY <1>1, <3>1, DeleteSteps
    <3> QED
      BY <1>1, <1>5, <2>2, <3>2
  <2> QED
    BY <1>1, <2>1, <2>2
<1>7. \A l \in Lease : now < promised[l] =>
        \/ \E k \in call'.ready : k.lease = l
        \/ \E k \in call'.todo : k.lease = l
        \/ call'.step = "cleanup" /\ call'.item.lease = l
  <2> SUFFICES ASSUME NEW l \in Lease, now < promised[l], ~\E k \in call'.ready : k.lease = l
               PROVE  \/ \E k \in call'.todo : k.lease = l
                      \/ call'.step = "cleanup" /\ call'.item.lease = l
    OBVIOUS
  <2>1. PICK k \in call.todo : k.lease = l
    BY <1>1, <1>2 DEF Parts, InitializeInv
  <2>2. CASE k # i
    BY <1>1, <2>1, <2>2
  <2>3. CASE k = i
    BY <1>1, <1>4, <1>5, <2>1, <2>3
  <2> QED
    BY <2>2, <2>3
<1>8. call'.step \in {"reconciling", "cleanup"} /\ (call'.step = "cleanup" => call'.item = i)
  BY <1>1, <1>2
<1>9. InitializeInv'
  <2>1. \A k \in call'.ready : Known(k)'
    BY <1>1, <1>2 DEF Parts, InitializeInv, Known
  <2>2. \A k \in call'.todo : Known(k)'
    BY <1>1, <1>2 DEF Parts, InitializeInv, Known
  <2>3. call'.step \in Arming => Known(call.item)'
    BY <1>1, <1>3, <1>8 DEF Known, Arming
  <2> QED
    BY <1>1, <1>2, <1>3, <1>7, <1>8, <2>1, <2>2, <2>3 DEF InitializeInv
<1>10. PhaseInv' /\ DisableInv'
  BY <1>1, <1>2, <1>8 DEF PhaseInv, DisableInv, Arming
<1>11. ServiceSweepInv'
  BY <1>1, <1>2, <1>8, FreshSweep DEF Swept
<1>12. DriverInv'
  BY <1>1, <1>2, <1>8, SameDrivers
<1>13. \A l \in Lease : ~Writing(l) /\ ~Writing(l)'
  BY <1>1, <1>2 DEF Writing
<1>14. call'.step \in Arming => call'.item.lease \in used
  BY <1>3, <1>8 DEF Known, Arming
<1> QED
  BY <1>1, <1>6, <1>8, <1>9, <1>10, <1>11, <1>12, <1>13, <1>14, Plain

(* The closing loops of initialize and terminate keep them: the gate is     *)
(* closed.                                                                  *)
LEMMA LoopDrives ==
  ASSUME TypeInv, TypeInv', Calm', Parts, DeleteDrivers \/ Suspend
  PROVE  Parts'
<1>1. /\ UNCHANGED <<now, templates, jobs, tasks, svc, used, promised>>
      /\ \A b \in Job : sweeps'[b] = sweeps[b]
      /\ call'.op = call.op /\ call'.length = call.length /\ call'.todo = call.todo
      /\ call'.ready = call.ready
      /\ \/ /\ call.step = "reconciling" /\ call.todo = {} /\ call'.step = "opening"
            /\ sweeps'[Service] = Disarm(NoLease)
         \/ /\ call.step = "suspending" /\ call'.step = "closing"
            /\ sweeps'[Service] = DeleteCleanup(NoLease)
  BY LoopSteps DEF At
<1>2. \A l \in Lease : ~Writing(l) /\ ~Writing(l)'
  BY <1>1 DEF Writing, Arming
<1>3. CASE call.step = "reconciling" /\ call.todo = {} /\ call'.step = "opening"
           /\ sweeps'[Service] = Disarm(NoLease)
  <2>1. call.op = "initialize" /\ ~svc.gate
    BY <1>3 DEF Parts, PhaseInv, InitializeInv
  <2>2. InitializeInv'
    BY <1>1, <1>3, <2>1 DEF Parts, InitializeInv, Known, Arming
  <2>3. sweeps'[Service].todo = {}
    BY <1>3 DEF Disarm, Sweep, NoSweep
  <2>4. ServiceSweepInv'
    BY <1>1, <1>3, <2>1, <2>3 DEF ServiceSweepInv, Closed
  <2>5. PhaseInv' /\ DisableInv'
    BY <1>1, <1>3, <2>1 DEF PhaseInv, DisableInv, Arming
  <2>6. DriverInv'
    BY <1>1, <1>3, <2>1, SameDrivers
  <2> QED
    BY <1>1, <1>2, <1>3, <2>2, <2>4, <2>5, <2>6, Plain DEF Arming
<1>4. CASE call.step = "suspending" /\ call'.step = "closing"
           /\ sweeps'[Service] = DeleteCleanup(NoLease)
  <2>1. call.op = "terminate"
    BY <1>4 DEF Parts, PhaseInv
  <2>2. PhaseInv' /\ DisableInv' /\ InitializeInv'
    BY <1>1, <1>4, <2>1 DEF PhaseInv, DisableInv, InitializeInv, Arming
  <2>3. sweeps'[Service].todo = {} /\ sweeps'[Service].lists = <<"cleanup">>
    BY <1>4 DEF DeleteCleanup, Sweep, NoSweep
  <2>4. ServiceSweepInv'
    BY <1>4, <2>3, FreshSweep
  <2>5. \A l \in Lease : ~Awaiting(l)
    BY <2>1 DEF Awaiting
  <2>6. DriverInv'
    BY <1>1, <1>4, <2>5, SameDrivers
  <2> QED
    BY <1>1, <1>2, <1>4, <2>2, <2>4, <2>6, Plain DEF Arming
<1> QED
  BY <1>1, <1>3, <1>4

(* What initialize could reconcile is what it arms once the gate is open.   *)
LEMMA OpenGateDrives ==
  ASSUME TypeInv, TypeInv', Calm', Parts, OpenGate
  PROVE  Parts'
<1>1. /\ UNCHANGED <<now, templates, jobs, tasks, sweeps, used, promised>>
      /\ At("opening") /\ svc'.instance = svc.instance
      /\ \/ svc'.gate = svc.gate /\ call' = Locals
         \/ /\ call'.step = "rearming" /\ call'.op = call.op /\ call'.todo = call.ready
            /\ call'.length = call.length
  BY OpenGateSteps
<1>2. call.step = "opening" /\ Swept(Service) /\ call.op = "initialize" /\ ~svc.gate
  BY <1>1 DEF At, Parts, PhaseInv, InitializeInv
<1>3. \A l \in Lease : ~Writing(l)
  BY <1>2 DEF Writing
<1>4. CASE svc'.gate = svc.gate /\ call' = Locals
  BY <1>1, <1>2, <1>3, <1>4, EndDrives
<1>5. CASE /\ call'.step = "rearming" /\ call'.op = call.op /\ call'.todo = call.ready
           /\ call'.length = call.length
  <2>1. call'.op = "initialize" /\ call'.step = "rearming"
    BY <1>2, <1>5
  <2>2. call'.ready = {}
    <3>1. call' # Locals
      BY <2>1, LocalsType
    <3>2. call \in Call
      BY DEF TypeInv, CallInv
    <3>3. call' = [call EXCEPT !.step = "rearming", !.todo = call.ready, !.ready = {}]
      BY <3>1 DEF OpenGate, End
    <3> QED
      BY <3>2, <3>3 DEF Call
  <2>3. InitializeInv'
    BY <1>1, <1>2, <1>5, <2>1, <2>2 DEF Parts, InitializeInv, Known, Arming
  <2>4. PhaseInv' /\ DisableInv'
    BY <2>1 DEF PhaseInv, DisableInv, Arming
  <2>5. ServiceSweepInv'
    BY <1>1, <1>2, <2>1, FreshSweep DEF Swept
  <2>6. \A l \in Lease : now < promised[l] => Awaiting(l)'
    BY <1>2, <1>5, <2>1 DEF Parts, InitializeInv, Awaiting
  <2>7. DriverInv'
    BY <1>1, <2>1, <2>6 DEF DriverInv
  <2>8. \A l \in Lease : ~Writing(l)'
    BY <2>1 DEF Writing, Arming
  <2> QED
    BY <1>1, <1>3, <2>1, <2>3, <2>4, <2>5, <2>7, <2>8, Plain DEF Arming
<1> QED
  BY <1>1, <1>4, <1>5

(* Arming anew keeps them: the lease awaits its driver while the old one is *)
(* swept.                                                                   *)
LEMMA RearmDrives ==
  ASSUME TypeInv, TypeInv', Calm', Parts, Rearm
  PROVE  Parts'
<1>1. /\ UNCHANGED <<now, templates, jobs, tasks, svc, used, promised>>
      /\ At("rearming") /\ \A b \in Job : sweeps'[b] = sweeps[b]
      /\ \/ call.todo = {} /\ call' = Locals /\ UNCHANGED sweeps
         \/ \E i \in call.todo :
              /\ i.lease \in Lease /\ call'.step = "arming" /\ call'.item = i
              /\ call'.op = call.op /\ call'.todo = call.todo \ {i} /\ call'.length = call.length
              /\ sweeps'[Service] = Disarm(i.lease)
  BY RearmSteps
<1>2. call.step = "rearming" /\ Swept(Service) /\ call.op = "initialize"
  BY <1>1 DEF At, Parts, PhaseInv
<1>3. \A l \in Lease : ~Writing(l)
  BY <1>2 DEF Writing
<1>4. CASE call.todo = {} /\ call' = Locals /\ UNCHANGED sweeps
  <2>1. \A l \in Lease : ~Awaiting(l)
    BY <1>2, <1>4 DEF Awaiting
  <2> QED
    BY <1>1, <1>2, <1>3, <1>4, <2>1, EndDrives
<1>5. ASSUME NEW i \in call.todo,
             i.lease \in Lease, call'.step = "arming", call'.item = i,
             call'.op = call.op, call'.todo = call.todo \ {i}, call'.length = call.length,
             sweeps'[Service] = Disarm(i.lease)
      PROVE  Parts'
  <2>1. Known(i)
    BY <1>2 DEF Parts, InitializeInv
  <2>2. call'.ready = call.ready
    <3>1. call' # Locals
      BY <1>5, LocalsType
    <3>2. call \in Call
      BY DEF TypeInv, CallInv
    <3>3. PICK k \in call.todo : call' = [call EXCEPT !.step = "arming", !.item = k, !.todo = @ \ {k}]
      BY <3>1 DEF Rearm, End
    <3> QED
      BY <3>2, <3>3 DEF Call
  <2>3. InitializeInv'
    BY <1>1, <1>2, <1>5, <2>1, <2>2 DEF Parts, InitializeInv, Known, Arming
  <2>4. PhaseInv' /\ DisableInv'
    BY <1>2, <1>5 DEF PhaseInv, DisableInv, Arming
  <2>5. sweeps'[Service].todo = {} /\ sweeps'[Service].lease = i.lease
    BY <1>5 DEF Disarm, Sweep, NoSweep
  <2>6. ServiceSweepInv'
    BY <1>5, <2>5 DEF ServiceSweepInv, Meant
  <2>7. \A l \in Lease : Awaiting(l) => Awaiting(l)'
    BY <1>2, <1>5 DEF Awaiting
  <2>8. DriverInv'
    BY <1>1, <1>5, <2>7, SameDrivers
  <2>9. \A l \in Lease : ~Writing(l)'
    BY <1>2, <1>5 DEF Writing
  <2>10. call'.item.lease \in used
    BY <1>5, <2>1 DEF Known
  <2> QED
    BY <1>1, <1>3, <1>5, <2>3, <2>4, <2>6, <2>8, <2>9, <2>10, Plain
<1> QED
  BY <1>1, <1>4, <1>5

(* The start of initialize keeps them: a closed gate asks for no driver.    *)
LEMMA InitializeDrives ==
  ASSUME TypeInv, TypeInv', Parts, Initialize
  PROVE  Parts'
<1>1. /\ UNCHANGED <<now, templates, jobs, tasks, used, promised>> /\ ~svc'.gate
      /\ call'.op = "initialize" /\ call'.step = "inventory" /\ call'.length = now
      /\ call'.ready = {} /\ \A b \in Job : sweeps'[b] = sweeps[b]
      /\ sweeps'[Service] = DeleteCleanup(NoLease)
  BY InitializeSteps
<1>2. call.step = "idle"
  BY DEF Initialize, Parts, PhaseInv
<1>3. InitializeInv' /\ PhaseInv' /\ DisableInv'
  BY <1>1, Numbers DEF InitializeInv, PhaseInv, DisableInv, Arming
<1>4. sweeps'[Service].todo = {} /\ sweeps'[Service].lists = <<"cleanup">>
  BY <1>1 DEF DeleteCleanup, Sweep, NoSweep
<1>5. ServiceSweepInv'
  BY <1>1, <1>4, FreshSweep
<1>6. DriverInv'
  BY <1>1 DEF DriverInv
<1>7. \A l \in Lease : ~Writing(l) /\ ~Writing(l)'
  BY <1>1, <1>2 DEF Writing, Arming
<1> QED
  BY <1>1, <1>3, <1>5, <1>6, <1>7, Plain DEF Arming

(* The start of terminate keeps them for the same reason.                   *)
LEMMA TerminateDrives ==
  ASSUME TypeInv, TypeInv', Parts, Terminate
  PROVE  Parts'
<1>1. /\ UNCHANGED <<now, templates, jobs, tasks, used, promised>> /\ ~svc'.gate
      /\ call'.op = "terminate" /\ call'.step = "suspending"
      /\ \A b \in Job : sweeps'[b] = sweeps[b]
      /\ sweeps'[Service] = Disarm(NoLease)
  BY TerminateSteps
<1>2. call.step = "idle"
  BY DEF Terminate, Parts, PhaseInv
<1>3. InitializeInv' /\ PhaseInv' /\ DisableInv'
  BY <1>1 DEF InitializeInv, PhaseInv, DisableInv, Arming
<1>4. sweeps'[Service].todo = {}
  BY <1>1 DEF Disarm, Sweep, NoSweep
<1>5. ServiceSweepInv'
  BY <1>1, <1>4 DEF ServiceSweepInv, Closed
<1>6. DriverInv'
  BY <1>1 DEF DriverInv
<1>7. \A l \in Lease : ~Writing(l) /\ ~Writing(l)'
  BY <1>1, <1>2 DEF Writing, Arming
<1> QED
  BY <1>1, <1>3, <1>5, <1>6, <1>7, Plain DEF Arming

(* A lease survives the death of the process with its promise or loses both.*)
LEMMA CrashDrives ==
  ASSUME TypeInv, TypeInv', Parts, Crash
  PROVE  Parts'
<1>1. /\ UNCHANGED <<now, used>> /\ ~svc'.gate /\ call' = Locals
      /\ \A a \in Job \cup {Service} : sweeps'[a] = NoSweep
      /\ \A j \in Job : tasks'[j] = Idle
      /\ \A j \in Job : \/ jobs'[j] = NoJob
                        \/ /\ jobs[j] # NoJob /\ jobs'[j].lease = jobs[j].lease
                           /\ jobs'[j].exp = jobs[j].exp /\ jobs'[j].kind = jobs[j].kind
      /\ \A l \in Lease : \/ templates'[l] = NoTemplate /\ promised'[l] = 0
                          \/ templates'[l] = templates[l] /\ promised'[l] = promised[l]
  BY CrashSteps
<1>2. call'.op = "none" /\ call'.step = "idle"
  BY <1>1, LocalsType
<1>3. \A l \in Lease : ~Writing(l)' /\ Term(l)' = promised'[l]
  BY <1>2 DEF Writing, Term, Arming
<1>4. ASSUME NEW l \in Lease PROVE Term(l)' <= Term(l) /\ Term(l) \in Nat /\ Term(l)' \in Nat
  <2>1. promised[l] <= Term(l) /\ promised[l] \in Nat /\ Term(l) \in Nat
    BY PromisedTerm, Numbers DEF Parts
  <2> QED
    BY <1>1, <1>3, <2>1
<1>5. TemplateInv'
  <2>1. ASSUME NEW l \in Lease, Live(l)' PROVE l \in Leases'
    <3>1. now < promised'[l] /\ now \in Nat
      BY <1>1, <1>3, <2>1, Numbers DEF Live
    <3>2. templates'[l] = templates[l] /\ promised'[l] = promised[l]
      BY <1>1, <3>1
    <3>3. l \in Leases
      BY <3>1, <3>2, PromisedTerm DEF Parts, TemplateInv
    <3> QED
      BY <3>2, <3>3 DEF Leases
  <2>2. \A l \in Leases' : promised'[l] > 0 => templates'[l].exp = promised'[l]
    <3> SUFFICES ASSUME NEW l \in Leases', promised'[l] > 0 PROVE templates'[l].exp = promised'[l]
      OBVIOUS
    <3>1. l \in Lease /\ l \in Leases /\ templates'[l] = templates[l] /\ promised'[l] = promised[l]
      BY <1>1 DEF Leases
    <3> QED
      BY <3>1 DEF Parts, TemplateInv
  <2>3. \A l \in Lease : promised'[l] > 0 => l \in used'
    BY <1>1 DEF Parts, TemplateInv
  <2> QED
    BY <1>2, <1>3, <2>1, <2>2, <2>3 DEF TemplateInv
<1>6. TaskInv'
  BY <1>1 DEF TaskInv, Idle
<1>7. RowInv'
  <2> SUFFICES ASSUME NEW j \in Job, jobs'[j] # NoJob
               PROVE  (jobs[j].exp >= Term(jobs[j].lease) /\ jobs[j].lease \in used)'
    BY <1>2 DEF RowInv, Arming
  <2>1. jobs[j] # NoJob /\ jobs'[j].lease = jobs[j].lease /\ jobs'[j].exp = jobs[j].exp
    BY <1>1
  <2>2. /\ jobs[j].exp \in Nat /\ jobs[j].lease \in Lease /\ jobs[j].exp >= Term(jobs[j].lease)
        /\ jobs[j].lease \in used
    BY <2>1, Numbers DEF Parts, RowInv
  <2>3. PICK l \in Lease : l = jobs[j].lease
    BY <2>2
  <2>4. jobs[j].exp >= Term(l)'
    BY <1>4, <2>2, <2>3
  <2> QED
    BY <1>1, <2>1, <2>2, <2>3, <2>4
<1>8. \A a \in Job \cup {Service} : Swept(a)'
  BY <1>1 DEF Swept, NoSweep
<1>9. HandlerSweepInv' /\ ServiceSweepInv'
  BY <1>2, <1>8, FreshSweep DEF HandlerSweepInv, Swept
<1>10. RewriteInv'
  <2>1. \A k \in Job : jobs'[k] # NoJob => jobs'[k].lease \in Lease
    BY DEF TypeInv, JobRecord
  <2> QED
    BY <1>3, <2>1 DEF RewriteInv
<1>11. PhaseInv' /\ DriverInv' /\ InitializeInv' /\ DisableInv'
  BY <1>1, <1>2 DEF PhaseInv, DriverInv, InitializeInv, DisableInv, Arming
<1> QED
  BY <1>5, <1>6, <1>7, <1>9, <1>10, <1>11 DEF Parts
----------------------------------------------------------------------------
(* The loops of the service, and its steps that write templates and jobs.   *)

(* Handlers that stay where they are have the same reason to delete, if no  *)
(* term is prolonged.                                                       *)
LEMMA TasksStand ==
  ASSUME TypeInv, Parts, UNCHANGED tasks, used \subseteq used',
         \A l \in Lease : l \in used /\ Live(l)' => Live(l)
  PROVE  TaskInv'
BY DEF Parts, TaskInv, TypeInv

(* Loops of handlers that stay list jobs of their own lease, if no listed   *)
(* id is used anew.                                                         *)
LEMMA HandlersStand ==
  ASSUME TypeInv, Parts, UNCHANGED tasks, \A a \in Job : sweeps'[a] = sweeps[a],
         \A k \in Job : \/ jobs'[k] = jobs[k] \/ jobs'[k] = NoJob
                        \/ \A a \in Job : k \notin sweeps[a].todo
  PROVE  HandlerSweepInv'
<1>1. \A a \in Job : sweeps[a].todo \subseteq Job
  BY DEF TypeInv, SweepType
<1> QED
  BY <1>1 DEF Parts, HandlerSweepInv, Swept

(* A job that is being deleted by the service drives no lease that lives.   *)
LEMMA DeletedDrivesNone ==
  ASSUME TypeInv, Parts, NEW j \in sweeps[Service].todo, NEW l \in Lease,
         svc.gate, now < promised[l], ~Awaiting(l)
  PROVE  ~IsDriver(j, l, promised[l])
<1> SUFFICES ASSUME IsDriver(j, l, promised[l])
             PROVE  FALSE
  OBVIOUS
<1>1. Closed \/ Meant(l)
  BY DEF IsDriver, Parts, ServiceSweepInv
<1>2. call.step \in {"arming", "deleting"} /\ call.item.lease = l
  BY <1>1 DEF Closed, Meant
<1>3. promised[l] # 0
  BY Numbers
<1>4. call.step = "arming" /\ ~Writing(l)
  BY <1>2, <1>3 DEF Parts, TemplateInv
<1>5. call.op = "initialize"
  BY <1>2, <1>4 DEF Parts, PhaseInv, Writing, Arming
<1> QED
  BY <1>2, <1>4, <1>5 DEF Awaiting

(* A step of the service's loop keeps the parts, if it keeps the two about  *)
(* that loop.                                                               *)
LEMMA ServiceSweepFrame ==
  ASSUME TypeInv, TypeInv', Parts,
         UNCHANGED <<now, templates, tasks, svc, call, used, promised>>,
         \A a \in Job : sweeps'[a] = sweeps[a],
         \A k \in Job : jobs'[k] = jobs[k] \/ (jobs'[k] = NoJob /\ k \in sweeps[Service].todo),
         ServiceSweepInv', RewriteInv'
  PROVE  Parts'
<1>1. \A l : Term(l)' = Term(l) /\ Writing(l)' = Writing(l)
  BY SameTerm
<1>2. \A l : Live(l)' = Live(l)
  BY <1>1 DEF Live
<1>3. PhaseInv' /\ InitializeInv' /\ DisableInv'
  BY DEF Parts, PhaseInv, InitializeInv, DisableInv, Known, Own, Leases
<1>4. TemplateInv'
  BY <1>1, <1>2 DEF Parts, TemplateInv, Leases
<1>5. TaskInv'
  BY <1>2, TasksStand
<1>6. RowInv'
  BY <1>1 DEF Parts, RowInv
<1>7. HandlerSweepInv'
  BY HandlersStand
<1>8. DriverInv'
  <2>1. ASSUME svc.gate, NEW l \in Lease, now < promised[l], ~Awaiting(l)'
        PROVE  \E j \in Job : IsDriver(j, l, promised[l])'
    <3>1. ~Awaiting(l)
      BY <2>1 DEF Awaiting
    <3>2. PICK j \in Job : IsDriver(j, l, promised[l])
      BY <2>1, <3>1 DEF Parts, DriverInv
    <3>3. j \notin sweeps[Service].todo
      BY <2>1, <3>1, <3>2, DeletedDrivesNone
    <3> QED
      BY <3>2, <3>3 DEF IsDriver
  <2>2. ASSUME call.step = "guarding", Live(call.item.lease)'
        PROVE  IsDriver(call.made, call.item.lease, call.item.exp)'
    <3>1. IsDriver(call.made, call.item.lease, call.item.exp) /\ call.made \in Job
      BY <1>2, <2>2 DEF Parts, DriverInv, PhaseInv
    <3>2. sweeps[Service].todo = {}
      BY <2>2 DEF Parts, ServiceSweepInv, Swept
    <3> QED
      BY <3>1, <3>2 DEF IsDriver
  <2> QED
    BY <2>1, <2>2 DEF DriverInv
<1> QED
  BY <1>3, <1>4, <1>5, <1>6, <1>7, <1>8 DEF Parts

(* A listing of the service's loop keeps them.                              *)
LEMMA ServiceListDrives ==
  ASSUME TypeInv, TypeInv', Calm', Parts, SweepList(Service)
  PROVE  Parts'
<1> DEFINE s == sweeps[Service]
<1>1. /\ UNCHANGED <<now, templates, jobs, tasks, svc, call, used, promised>>
      /\ \A b \in Job : sweeps'[b] = sweeps[b]
      /\ sweeps'[Service].lease = s.lease
      /\ \/ /\ s.lists = <<"driver", "guard">> /\ sweeps'[Service].lists = <<"guard">>
            /\ sweeps'[Service].todo = s.todo \cup Rows("driver", s.lease)
         \/ /\ s.lists = <<"guard">> /\ sweeps'[Service].lists = <<>>
            /\ sweeps'[Service].todo = s.todo \cup Rows("guard", s.lease)
         \/ /\ s.lists = <<"cleanup">> /\ sweeps'[Service].lists = <<>>
            /\ sweeps'[Service].todo = s.todo \cup Rows("cleanup", s.lease)
  BY SweepListSteps, ServiceIsNoJob
<1>2. /\ \A k \in s.todo : jobs[k] # NoJob /\ jobs[k].kind # "cleanup" => Closed \/ Meant(jobs[k].lease)
      /\ s.lists \in {<<"driver", "guard">>, <<"guard">>} =>
           Closed \/ (s.lease \in Lease /\ Meant(s.lease))
      /\ call.step = "guarding" => Swept(Service)
  BY DEF Parts, ServiceSweepInv
<1>3. call.step # "guarding"
  BY <1>1, <1>2 DEF Swept
<1>4. ServiceSweepInv'
  <2>1. (Closed' <=> Closed) /\ \A l : Meant(l)' <=> Meant(l)
    BY <1>1 DEF Closed, Meant
  <2>2. \A kind, k : s.lease \in Lease /\ k \in Rows(kind, s.lease) => jobs[k].lease = s.lease
    BY HeartbeatAssumption DEF Rows
  <2>3. \A k \in Rows("cleanup", s.lease) : jobs[k].kind = "cleanup"
    BY DEF Rows
  <2>4. ASSUME NEW k \in sweeps'[Service].todo, jobs[k] # NoJob, jobs[k].kind # "cleanup"
        PROVE  Closed \/ Meant(jobs[k].lease)
    BY <1>1, <1>2, <2>2, <2>3, <2>4
  <2>5. sweeps'[Service].lists \in {<<"driver", "guard">>, <<"guard">>} =>
          Closed \/ (s.lease \in Lease /\ Meant(s.lease))
    <3>1. s.lists \in {<<"driver", "guard">>, <<"guard">>} \/ sweeps'[Service].lists = <<>>
      BY <1>1
    <3>2. <<>> \notin {<<"driver", "guard">>, <<"guard">>}
      OBVIOUS
    <3> QED
      BY <1>2, <3>1, <3>2
  <2> HIDE DEF s
  <2> QED
    BY <1>1, <1>3, <2>1, <2>4, <2>5 DEF ServiceSweepInv, s
<1>5. RewriteInv'
  <2> SUFFICES ASSUME NEW k \in Job, jobs[k] # NoJob, Writing(jobs[k].lease)
               PROVE  /\ call.step = "cleanup" /\ jobs[k].kind = "cleanup" =>
                           \/ k \in sweeps'[Service].todo
                           \/ /\ sweeps'[Service].lists = <<"cleanup">>
                              /\ sweeps'[Service].lease = call.item.lease
                      /\ call.step = "arming" =>
                           \/ jobs[k].kind = "cleanup" /\ jobs[k].exp = call.item.exp
                           \/ jobs[k].kind # "cleanup" /\ k \in sweeps'[Service].todo
                           \/ /\ sweeps'[Service].lease = call.item.lease
                              /\ \/ /\ jobs[k].kind # "cleanup"
                                    /\ sweeps'[Service].lists = <<"driver", "guard">>
                                 \/ jobs[k].kind = "guard" /\ sweeps'[Service].lists = <<"guard">>
    BY <1>1, <1>3, SameTerm DEF RewriteInv
  <2>1. jobs[k].lease = call.item.lease /\ jobs[k].kind \in {"driver", "guard", "cleanup"}
    BY Numbers DEF Writing
  <2>2. \A kind : jobs[k].kind = kind /\ s.lease = call.item.lease => k \in Rows(kind, s.lease)
    BY <2>1 DEF Rows
  <2>3. ASSUME call.step = "cleanup", jobs[k].kind = "cleanup"
        PROVE  k \in sweeps'[Service].todo
    BY <1>1, <2>2, <2>3 DEF Parts, RewriteInv
  <2>4. ASSUME call.step = "arming"
        PROVE  \/ jobs[k].kind = "cleanup" /\ jobs[k].exp = call.item.exp
               \/ jobs[k].kind # "cleanup" /\ k \in sweeps'[Service].todo
               \/ /\ sweeps'[Service].lease = call.item.lease
                  /\ \/ /\ jobs[k].kind # "cleanup"
                        /\ sweeps'[Service].lists = <<"driver", "guard">>
                     \/ jobs[k].kind = "guard" /\ sweeps'[Service].lists = <<"guard">>
    <3>1. \/ jobs[k].kind = "cleanup" /\ jobs[k].exp = call.item.exp
          \/ jobs[k].kind # "cleanup" /\ k \in s.todo
          \/ /\ s.lease = call.item.lease
             /\ \/ jobs[k].kind # "cleanup" /\ s.lists = <<"driver", "guard">>
                \/ jobs[k].kind = "guard" /\ s.lists = <<"guard">>
      BY <2>4 DEF Parts, RewriteInv
    <3> HIDE DEF s
    <3>2. CASE jobs[k].kind = "cleanup" /\ jobs[k].exp = call.item.exp
      BY <3>2
    <3>3. CASE jobs[k].kind # "cleanup" /\ k \in s.todo
      BY <1>1, <3>3
    <3>4. CASE s.lease = call.item.lease /\ jobs[k].kind # "cleanup" /\ s.lists = <<"driver", "guard">>
      BY <1>1, <2>1, <2>2, <3>4
    <3>5. CASE s.lease = call.item.lease /\ jobs[k].kind = "guard" /\ s.lists = <<"guard">>
      BY <1>1, <2>2, <3>5
    <3> QED
      BY <3>1, <3>2, <3>3, <3>4, <3>5
  <2> QED
    BY <2>3, <2>4
<1> QED
  BY <1>1, <1>4, <1>5, ServiceSweepFrame

(* A deletion of the service's loop keeps them: a driver goes only where it *)
(* is meant to.                                                             *)
LEMMA ServiceDeleteDrives ==
  ASSUME TypeInv, TypeInv', Calm', Parts, SweepDelete(Service)
  PROVE  Parts'
<1>1. PICK j \in sweeps[Service].todo :
           /\ UNCHANGED <<now, templates, tasks, svc, call, used, promised>>
           /\ j \in Job /\ sweeps[Service].lists = <<>>
           /\ \A k \in Job : k # j => jobs'[k] = jobs[k]
           /\ jobs'[j] = NoJob
           /\ \A b \in Job : sweeps'[b] = sweeps[b]
           /\ sweeps'[Service].lists = <<>>
           /\ sweeps'[Service].todo = sweeps[Service].todo \ {j}
  BY SweepDeleteSteps, NoMishap, ServiceIsNoJob
<1>2. sweeps[Service].todo \subseteq Job
  BY DEF TypeInv, SweepType
<1>3. ServiceSweepInv'
  <2>1. (Closed' <=> Closed) /\ \A l : Meant(l)' <=> Meant(l)
    BY <1>1 DEF Closed, Meant
  <2>2. \A k \in sweeps'[Service].todo : k \in sweeps[Service].todo /\ jobs'[k] = jobs[k]
    BY <1>1, <1>2
  <2>3. call.step # "guarding"
    BY <1>1 DEF Parts, ServiceSweepInv, Swept
  <2> QED
    BY <1>1, <2>1, <2>2, <2>3 DEF Parts, ServiceSweepInv
<1>4. RewriteInv'
  <2> SUFFICES ASSUME NEW k \in Job, jobs'[k] # NoJob, Writing(jobs[k].lease)
               PROVE  /\ call.step = "cleanup" /\ jobs[k].kind = "cleanup" =>
                           k \in sweeps'[Service].todo
                      /\ call.step = "arming" =>
                           \/ jobs[k].kind = "cleanup" /\ jobs[k].exp = call.item.exp
                           \/ jobs[k].kind # "cleanup" /\ k \in sweeps'[Service].todo
                      /\ call.step = "guarding" => jobs[k].exp = call.item.exp
    BY <1>1, SameTerm DEF RewriteInv
  <2>1. k # j /\ jobs[k] # NoJob
    BY <1>1
  <2> QED
    BY <1>1, <2>1 DEF Parts, RewriteInv
<1> QED
  BY <1>1, <1>3, <1>4, ServiceSweepFrame

(* A new template keeps them: no job, no handler and no promise is of its   *)
(* id.                                                                      *)
LEMMA AddTemplateDrives ==
  ASSUME TypeInv, TypeInv', Calm', Parts, NEW l \in Lease, AddTemplate(l)
  PROVE  Parts'
<1>1. /\ UNCHANGED <<now, jobs, tasks, sweeps, svc, promised>>
      /\ At("adding") /\ call.op = "create" /\ l \notin used /\ used' = used \cup {l}
      /\ \A k \in Lease : k # l => templates'[k] = templates[k]
      /\ templates'[l].exp = call.item.exp /\ templates'[l] # NoTemplate
      /\ call'.op = "create" /\ call'.step = "cleanup" /\ call'.item.lease = l
      /\ call'.item.exp = call.item.exp
  BY AddTemplateSteps, NoMishap
<1>2. call.step = "adding" /\ Swept(Service)
  BY <1>1 DEF At
<1>3. \A x \in Lease : ~Writing(x) /\ (Writing(x)' <=> x = l)
  BY <1>1, <1>2 DEF Writing, Arming
<1>4. \A x \in Lease : x # l => Term(x)' = Term(x)
  BY <1>1, <1>3 DEF Term
<1>5. promised[l] = 0 /\ l \notin Leases
  BY <1>1, Numbers DEF Parts, TemplateInv
<1>6. \A x \in used : x \in Lease /\ x # l
  BY <1>1 DEF TypeInv
<1>7. TemplateInv'
  <2>1. ASSUME NEW x \in Lease, x # l PROVE Live(x)' => x \in Leases'
    <3>1. Live(x)' => Live(x)
      BY <1>1, <1>4, <2>1 DEF Live
    <3>2. x \in Leases => x \in Leases'
      BY <1>1, <2>1 DEF Leases
    <3> QED
      BY <3>1, <3>2 DEF Parts, TemplateInv
  <2>2. l \in Leases'
    BY <1>1 DEF Leases
  <2>3. \A x \in Leases' : promised'[x] > 0 => templates'[x].exp = promised'[x]
    <3> SUFFICES ASSUME NEW x \in Leases', promised'[x] > 0 PROVE templates'[x].exp = promised'[x]
      OBVIOUS
    <3>1. x \in Lease /\ x # l
      BY <1>1, <1>5 DEF Leases
    <3>2. x \in Leases /\ templates'[x] = templates[x]
      BY <1>1, <3>1 DEF Leases
    <3> QED
      BY <1>1, <3>2 DEF Parts, TemplateInv
  <2>4. \A x \in Lease : promised'[x] > 0 => x \in used'
    BY <1>1 DEF Parts, TemplateInv
  <2>5. \A x \in Lease : Writing(x)' => /\ promised'[x] = 0
                                        /\ x \in Leases' => templates'[x].exp = call'.item.exp
    BY <1>1, <1>3, <1>5
  <2> QED
    BY <1>1, <2>1, <2>2, <2>3, <2>4, <2>5 DEF TemplateInv
<1>8. TaskInv'
  <2>1. \A x \in Lease : x \in used /\ Live(x)' => Live(x)
    BY <1>1, <1>4, <1>6 DEF Live
  <2> QED
    BY <1>1, <2>1, TasksStand
<1>9. RowInv'
  <2> SUFFICES ASSUME NEW j \in Job, jobs[j] # NoJob
               PROVE  (jobs[j].exp >= Term(jobs[j].lease) /\ jobs[j].lease \in used)'
    BY <1>1 DEF RowInv
  <2>1. jobs[j].lease \in used /\ jobs[j].exp >= Term(jobs[j].lease)
    BY DEF Parts, RowInv
  <2>2. PICK x \in used : x = jobs[j].lease
    BY <2>1
  <2>3. Term(x)' = Term(x)
    BY <1>4, <1>6
  <2> QED
    BY <1>1, <2>1, <2>2, <2>3
<1>10. HandlerSweepInv'
  BY <1>1, HandlersStand
<1>11. ServiceSweepInv'
  BY <1>1, <1>2, FreshSweep DEF Swept
<1>12. RewriteInv'
  <2>1. \A k \in Job : jobs[k] # NoJob => jobs[k].lease \in Lease /\ jobs[k].lease # l
    BY <1>6 DEF Parts, RowInv
  <2> QED
    BY <1>1, <1>3, <2>1 DEF RewriteInv
<1>13. \A x \in Lease : ~Awaiting(x)
  BY <1>1 DEF Awaiting
<1>14. DriverInv'
  BY <1>1, <1>13, SameDrivers
<1>15. PhaseInv' /\ InitializeInv' /\ DisableInv'
  BY <1>1 DEF PhaseInv, InitializeInv, DisableInv, Arming
<1> QED
  BY <1>7, <1>8, <1>9, <1>10, <1>11, <1>12, <1>14, <1>15 DEF Parts

(* A renewal keeps the promise only as far as the old expiry jobs let it.   *)
LEMMA RenewDrives ==
  ASSUME TypeInv, TypeInv', Calm', Parts, Renew
  PROVE  Parts'
<1>1. PICK i \in call.todo :
           /\ UNCHANGED <<now, jobs, tasks, svc, used>>
           /\ At("renewing") /\ i.lease \in Lease /\ i.exp \in Minutes
           /\ \/ End /\ UNCHANGED <<templates, sweeps, promised>>
              \/ \E ok \in BOOLEAN :
                   /\ i.lease \in Leases
                   /\ UpdateTemplate(i.lease, i.exp, ok)
                   /\ call'.op = call.op /\ call'.step = IF ok THEN "cleanup" ELSE "reverting"
                   /\ call'.item = i /\ call'.back = templates[i.lease].exp
                   /\ call'.kept = (promised[i.lease] > 0)
                   /\ IF ok THEN Start(Service, DeleteCleanup(i.lease)) ELSE UNCHANGED sweeps
                   /\ promised' = [promised EXCEPT ![i.lease] = 0]
  BY RenewSteps
<1>2. call.step = "renewing" /\ Swept(Service) /\ call.op = "renew"
  BY <1>1 DEF At, Parts, PhaseInv
<1>3. \A x \in Lease : ~Writing(x) /\ ~Awaiting(x)
  BY <1>2 DEF Writing, Arming, Awaiting
<1>4. CASE End /\ UNCHANGED <<templates, sweeps, promised>>
  BY <1>1, <1>2, <1>3, <1>4, EndDrives DEF End
<1>5. ASSUME NEW ok \in BOOLEAN, i.lease \in Leases, UpdateTemplate(i.lease, i.exp, ok),
             call'.op = call.op, call'.step = IF ok THEN "cleanup" ELSE "reverting",
             call'.item = i, call'.back = templates[i.lease].exp,
             call'.kept = (promised[i.lease] > 0),
             IF ok THEN Start(Service, DeleteCleanup(i.lease)) ELSE UNCHANGED sweeps,
             promised' = [promised EXCEPT ![i.lease] = 0]
      PROVE  Parts'
  <2> DEFINE l == i.lease
  <2>1. ok
    BY <1>5, NoMishap DEF UpdateTemplate
  <2>2. call'.step = "cleanup" /\ call'.op = "renew"
    BY <1>2, <1>5, <2>1
  <2>3. l \in Lease /\ l \in Leases /\ l \in used
    BY <1>1, <1>5, Numbers
  <2>4. promised'[l] = 0 /\ \A x \in Lease : x # l => promised'[x] = promised[x]
    BY <1>5, <2>3 DEF TypeInv
  <2>5. templates'[l].exp = i.exp /\ templates'[l] # NoTemplate
        /\ \A x \in Lease : x # l => templates'[x] = templates[x]
    BY <1>1, <1>5, <2>1, UpdateSteps
  <2>6. sweeps'[Service] = DeleteCleanup(l) /\ \A a \in Job : sweeps'[a] = sweeps[a]
    BY <1>5, <2>1, <2>3, SweepTypes, ServiceStarts
  <2>7. sweeps'[Service].todo = {} /\ sweeps'[Service].lists = <<"cleanup">>
        /\ sweeps'[Service].lease = l
    BY <2>6 DEF DeleteCleanup, Sweep, NoSweep
  <2>8. call'.item.lease = l /\ call'.item.exp = i.exp
    BY <1>5
  <2>9. \A x \in Lease : Writing(x)' <=> x = l
    BY <2>2, <2>8 DEF Writing, Arming
  <2>10. ASSUME NEW x \in Lease PROVE Term(x)' <= Term(x) /\ Term(x) \in Nat /\ Term(x)' \in Nat
    <3>1. Term(x) = promised[x] /\ promised[x] \in Nat
      BY <1>3, Numbers DEF Term
    <3>2. CASE x # l
      BY <2>4, <2>9, <3>1, <3>2 DEF Term
    <3>3. CASE x = l
      <4>1. Term(l)' = IF ~call'.kept THEN 0
                       ELSE IF call'.back < call'.item.exp THEN call'.back ELSE call'.item.exp
        BY <2>2, <2>3, <2>9 DEF Term
      <4>2. call'.kept => call'.back = promised[l]
        BY <1>5, <2>3 DEF Parts, TemplateInv
      <4>3. call'.item.exp \in Nat /\ (~call'.kept \/ call'.kept)
        BY <1>1, <2>8 DEF Minutes
      <4> HIDE DEF l
      <4> QED
        BY <3>1, <3>3, <4>1, <4>2, <4>3
    <3> QED
      BY <3>2, <3>3
  <2> HIDE DEF l
  <2>11. ASSUME NEW x \in Lease, Live(x)' PROVE Live(x)
    BY <1>1, <2>10, <2>11, Numbers DEF Live
  <2>12. TemplateInv'
    <3>1. ASSUME NEW x \in Lease, Live(x)' PROVE x \in Leases'
      <4>1. x \in Leases
        BY <2>11, <3>1 DEF Parts, TemplateInv
      <4> QED
        BY <2>5, <4>1 DEF Leases
    <3>2. \A x \in Leases' : promised'[x] > 0 => templates'[x].exp = promised'[x]
      <4> SUFFICES ASSUME NEW x \in Leases', promised'[x] > 0 PROVE templates'[x].exp = promised'[x]
        OBVIOUS
      <4>1. x \in Lease /\ x # l
        BY <2>4 DEF Leases
      <4>2. x \in Leases /\ templates'[x] = templates[x] /\ promised'[x] = promised[x]
        BY <2>4, <2>5, <4>1 DEF Leases
      <4> QED
        BY <4>2 DEF Parts, TemplateInv
    <3>3. \A x \in Lease : promised'[x] > 0 => x \in used'
      BY <1>1, <2>4 DEF Parts, TemplateInv
    <3>4. \A x \in Lease : Writing(x)' => /\ promised'[x] = 0
                                          /\ x \in Leases' => templates'[x].exp = call'.item.exp
      BY <2>4, <2>5, <2>8, <2>9
    <3> QED
      BY <2>2, <3>1, <3>2, <3>3, <3>4 DEF TemplateInv
  <2>13. TaskInv'
    BY <1>1, <2>11, TasksStand
  <2>14. RowInv'
    <3> SUFFICES ASSUME NEW j \in Job, jobs[j] # NoJob
                 PROVE  (jobs[j].exp >= Term(jobs[j].lease) /\ jobs[j].lease \in used)'
      BY <1>1, <2>3, <2>8 DEF RowInv
    <3>1. /\ jobs[j].exp \in Nat /\ jobs[j].lease \in Lease /\ jobs[j].exp >= Term(jobs[j].lease)
          /\ jobs[j].lease \in used
      BY Numbers DEF Parts, RowInv
    <3>2. PICK x \in Lease : x = jobs[j].lease
      BY <3>1
    <3>3. jobs[j].exp >= Term(x)'
      BY <2>10, <3>1, <3>2
    <3> QED
      BY <1>1, <3>1, <3>2, <3>3
  <2>15. HandlerSweepInv'
    BY <1>1, <2>6, HandlersStand
  <2>16. ServiceSweepInv'
    BY <2>2, <2>7, FreshSweep
  <2>17. RewriteInv'
    BY <2>2, <2>7, <2>8 DEF RewriteInv
  <2>18. DriverInv'
    BY <1>1, <1>3, <2>2, <2>4, SameDrivers
  <2>19. PhaseInv' /\ InitializeInv' /\ DisableInv'
    BY <2>2 DEF PhaseInv, InitializeInv, DisableInv, Arming
  <2> QED
    BY <2>12, <2>13, <2>14, <2>15, <2>16, <2>17, <2>18, <2>19 DEF Parts
<1> QED
  BY <1>1, <1>4, <1>5

(* A new job takes the place of no other that someone refers to.            *)
LEMMA JobAdded ==
  ASSUME TypeInv, Calm', NEW kind \in {"driver", "guard", "cleanup"}, NEW ok \in BOOLEAN,
         AddJob(kind, ok), call.item.lease \in Lease
  PROVE  /\ ok /\ NewJob \in Job /\ jobs[NewJob] = NoJob
         /\ \A a \in Job \cup {Service} : NewJob \notin sweeps[a].todo
         /\ \A j \in Job : j # NewJob => jobs'[j] = jobs[j]
         /\ jobs'[NewJob] # NoJob /\ jobs'[NewJob].kind = kind
         /\ jobs'[NewJob].lease = call.item.lease /\ jobs'[NewJob].exp = call.item.exp
         /\ jobs'[NewJob].instance = svc.instance
<1>1. ok
  BY NoMishap DEF AddJob
<1>2. NewJob \in Unused
  BY NewJobFree DEF AddJob
<1>3. NewJob \in Job /\ jobs[NewJob] = NoJob
  BY <1>2 DEF Unused
<1>4. \A a \in Job \cup {Service} : NewJob \notin sweeps[a].todo
  BY <1>2 DEF Unused, TypeInv
<1>5. /\ \A j \in Job : j # NewJob => jobs'[j] = jobs[j]
      /\ jobs'[NewJob] # NoJob
      /\ jobs'[NewJob] = [kind |-> kind, lease |-> call.item.lease, exp |-> call.item.exp,
                          instance |-> svc.instance, enabled |-> TRUE]
  BY <1>1, AddSteps
<1> QED
  BY <1>1, <1>3, <1>4, <1>5

(* A new job is on no list of a handler's loop.                             *)
LEMMA HandlersKeep ==
  ASSUME TypeInv, Parts, UNCHANGED tasks, \A a \in Job : sweeps'[a] = sweeps[a],
         NEW n, \A k \in Job : k # n => jobs'[k] = jobs[k],
         \A a \in Job \cup {Service} : n \notin sweeps[a].todo
  PROVE  HandlerSweepInv'
<1>1. \A k \in Job : jobs'[k] = jobs[k] \/ \A a \in Job : k \notin sweeps[a].todo
  OBVIOUS
<1> QED
  BY <1>1, HandlersStand

(* A row added for the lease at hand expires no earlier than its term.      *)
LEMMA RowsKeep ==
  ASSUME TypeInv, TypeInv', Parts, call.step \in Arming, UNCHANGED used,
         NEW n \in Job, \A k \in Job : k # n => jobs'[k] = jobs[k],
         jobs'[n] # NoJob => jobs'[n].lease = call.item.lease /\ jobs'[n].exp = call.item.exp,
         call.item.lease \in Lease,
         call'.step \in Arming => call'.item.lease = call.item.lease,
         \A l \in Lease : Term(l)' <= Term(l)
  PROVE  RowInv'
<1>1. \A l \in Lease : Term(l) \in Nat /\ Term(l)' \in Nat
  <2>1. call'.item.exp \in Nat /\ call'.back \in Nat
    BY DEF TypeInv, CallInv, Call, Minutes
  <2>2. \A l \in Lease : promised'[l] \in Nat
    BY DEF TypeInv
  <2>3. \A l \in Lease : Term(l)' \in Nat
    BY <2>1, <2>2 DEF Term
  <2> QED
    BY <2>3, Numbers
<1>2. Term(call.item.lease) <= call.item.exp /\ call.item.exp \in Nat
  <2>1. CASE Writing(call.item.lease)
    BY <2>1, WritingTerm, Numbers
  <2>2. CASE ~Writing(call.item.lease)
    <3>1. call.op = "initialize"
      BY <2>2 DEF Writing, Parts, PhaseInv
    <3>2. promised[call.item.lease] \in {0, call.item.exp}
      BY <3>1 DEF Parts, InitializeInv, Known
    <3>3. Term(call.item.lease) = promised[call.item.lease]
      BY <2>2 DEF Term
    <3> QED
      BY <3>2, <3>3, Numbers
  <2> QED
    BY <2>1, <2>2
<1>3. call.item.lease \in used
  BY DEF Parts, RowInv
<1> SUFFICES ASSUME NEW j \in Job, jobs'[j] # NoJob
             PROVE  (jobs[j].exp >= Term(jobs[j].lease) /\ jobs[j].lease \in used)'
  BY <1>3 DEF RowInv
<1>4. PICK x \in Lease : x = jobs'[j].lease
  BY DEF TypeInv, JobRecord
<1>5. jobs'[j].exp >= Term(x) /\ jobs'[j].exp \in Nat /\ x \in used
  <2>1. CASE j = n
    BY <1>1, <1>2, <1>3, <1>4, <2>1
  <2>2. CASE j # n
    BY <1>4, <2>2, Numbers DEF Parts, RowInv
  <2> QED
    BY <2>1, <2>2
<1>6. jobs'[j].exp >= Term(x)'
  BY <1>1, <1>5
<1> QED
  BY <1>4, <1>5, <1>6

(* A new cleanup job keeps them: it runs at the new expiry, and the old one *)
(* is gone.                                                                 *)
LEMMA CreateCleanupDrives ==
  ASSUME TypeInv, TypeInv', Calm', Parts, GateInv, CreateCleanup
  PROVE  Parts'
<1>1. PICK ok \in BOOLEAN :
           /\ UNCHANGED <<now, templates, tasks, svc, used, promised>>
           /\ At("cleanup") /\ AddJob("cleanup", ok) /\ call.item.lease \in Lease
           /\ \/ call.op = "revert" /\ call' = Locals
              \/ /\ call.op = "initialize" /\ call'.op = "initialize" /\ call'.step = "reconciling"
                 /\ call'.todo = call.todo /\ call'.length = call.length
                 /\ call'.ready = IF ok THEN call.ready \cup {call.item} ELSE call.ready
              \/ /\ call.op \notin {"revert", "initialize"}
                 /\ \E step \in Handling : /\ ok => step = "arming"
                                           /\ call'.step = step /\ call'.item = call.item
                                           /\ call'.op = call.op /\ call'.back = call.back
                                           /\ call'.kept = call.kept
           /\ IF ok /\ call.op \in {"create", "renew"} /\ svc.gate
              THEN Start(Service, Disarm(call.item.lease)) ELSE UNCHANGED sweeps
  BY CreateCleanupSteps
<1>2. /\ ok /\ NewJob \in Job /\ jobs[NewJob] = NoJob
      /\ \A a \in Job \cup {Service} : NewJob \notin sweeps[a].todo
      /\ \A j \in Job : j # NewJob => jobs'[j] = jobs[j]
      /\ jobs'[NewJob] # NoJob /\ jobs'[NewJob].kind = "cleanup"
      /\ jobs'[NewJob].lease = call.item.lease /\ jobs'[NewJob].exp = call.item.exp
  BY <1>1, JobAdded
<1> DEFINE n == NewJob
<1> HIDE DEF n
<1>3. /\ n \in Job /\ \A j \in Job : j # n => jobs'[j] = jobs[j]
      /\ \A a \in Job \cup {Service} : n \notin sweeps[a].todo
      /\ jobs'[n] # NoJob /\ jobs'[n].kind = "cleanup" /\ jobs[n] = NoJob
      /\ jobs'[n].lease = call.item.lease /\ jobs'[n].exp = call.item.exp
  BY <1>2 DEF n
<1>4. call.step = "cleanup" /\ Swept(Service) /\ call.op \in {"create", "renew", "initialize"}
  BY <1>1 DEF At, Parts, PhaseInv, Arming
<1>5. ASSUME call.op \in {"create", "renew"}
      PROVE  Parts'
  <2>1. /\ call'.step = "arming" /\ call'.item = call.item /\ call'.op = call.op
        /\ call'.back = call.back /\ call'.kept = call.kept
    BY <1>1, <1>2, <1>5
  <2>2. \A l : Writing(l)' = Writing(l) /\ Term(l)' = Term(l)
    BY <1>1, <1>4, <2>1 DEF Writing, Term, Arming
  <2>3. \A l : Live(l)' = Live(l)
    BY <1>1, <2>2 DEF Live
  <2>4. Start(Service, Disarm(call.item.lease))
    BY <1>1, <1>2, <1>5 DEF GateInv
  <2>5. sweeps'[Service] = Disarm(call.item.lease) /\ \A a \in Job : sweeps'[a] = sweeps[a]
    BY <1>1, <2>4, SweepTypes, ServiceStarts
  <2>6. sweeps'[Service].todo = {} /\ sweeps'[Service].lists = <<"driver", "guard">>
        /\ sweeps'[Service].lease = call.item.lease
    BY <2>5 DEF Disarm, Sweep, NoSweep
  <2>7. PhaseInv' /\ InitializeInv' /\ DisableInv'
    BY <1>5, <2>1 DEF PhaseInv, InitializeInv, DisableInv, Arming
  <2>8. TemplateInv'
    BY <1>1, <2>1, <2>2, <2>3 DEF Parts, TemplateInv, Leases
  <2>9. TaskInv'
    BY <1>1, <2>3, TasksStand
  <2>10. RowInv'
    <3>1. \A l \in Lease : Term(l)' <= Term(l)
      BY <2>2, Numbers
    <3> QED
      BY <1>1, <1>3, <1>4, <2>1, <3>1, RowsKeep DEF Arming
  <2>11. HandlerSweepInv'
    BY <1>1, <1>3, <2>5, HandlersKeep
  <2>12. ServiceSweepInv'
    BY <1>1, <2>1, <2>6 DEF ServiceSweepInv, Meant
  <2>13. RewriteInv'
    <3> SUFFICES ASSUME NEW k \in Job, jobs'[k] # NoJob, Writing(jobs'[k].lease)
                 PROVE  \/ jobs'[k].kind = "cleanup" /\ jobs'[k].exp = call.item.exp
                        \/ jobs'[k].kind # "cleanup"
      BY <2>1, <2>2, <2>6 DEF RewriteInv
    <3>1. CASE k = n
      BY <1>3, <3>1
    <3>2. CASE k # n
      <4>1. ASSUME jobs[k].kind = "cleanup" PROVE FALSE
        <5>1. jobs[k] # NoJob /\ Writing(jobs[k].lease)
          BY <1>3, <3>2
        <5>2. k \in sweeps[Service].todo \/ sweeps[Service].lists = <<"cleanup">>
          BY <1>4, <4>1, <5>1 DEF Parts, RewriteInv
        <5> QED
          BY <1>4, <5>2 DEF Swept
      <4> QED
        BY <1>3, <3>2, <4>1
    <3> QED
      BY <3>1, <3>2
  <2>14. DriverInv'
    <3> SUFFICES ASSUME svc.gate, NEW l \in Lease, now < promised[l]
                 PROVE  \E j \in Job : IsDriver(j, l, promised[l])'
      BY <1>1, <2>1 DEF DriverInv
    <3>1. ~Awaiting(l)
      BY <1>5 DEF Awaiting
    <3>2. PICK j \in Job : IsDriver(j, l, promised[l])
      BY <3>1 DEF Parts, DriverInv
    <3> QED
      BY <1>1, <1>3, <3>2 DEF IsDriver
  <2> QED
    BY <2>7, <2>8, <2>9, <2>10, <2>11, <2>12, <2>13, <2>14 DEF Parts
<1>6. ASSUME call.op = "initialize"
      PROVE  Parts'
  <2>1. /\ call'.op = "initialize" /\ call'.step = "reconciling"
        /\ call'.todo = call.todo /\ call'.length = call.length
        /\ call'.ready = call.ready \cup {call.item} /\ UNCHANGED sweeps
    BY <1>1, <1>2, <1>6
  <2>2. \A l : ~Writing(l)' /\ ~Writing(l) /\ Term(l)' = Term(l)
    BY <1>1, <1>6, <2>1 DEF Writing, Term
  <2>3. \A l : Live(l)' = Live(l)
    BY <1>1, <2>2 DEF Live
  <2>4. Known(call.item)
    BY <1>4, <1>6 DEF Parts, InitializeInv, Arming
  <2>5. PhaseInv' /\ DisableInv'
    BY <2>1 DEF PhaseInv, DisableInv, Arming
  <2>6. InitializeInv'
    <3>1. \A i : Known(i)' <=> Known(i)
      BY <1>1 DEF Known
    <3> QED
      BY <1>1, <1>4, <1>6, <2>1, <2>4, <3>1 DEF Parts, InitializeInv, Arming
  <2>7. TemplateInv'
    BY <1>1, <2>1, <2>2, <2>3 DEF Parts, TemplateInv, Leases
  <2>8. TaskInv'
    BY <1>1, <2>3, TasksStand
  <2>9. RowInv'
    <3>1. \A l \in Lease : Term(l)' <= Term(l)
      BY <2>2, Numbers
    <3> QED
      BY <1>1, <1>3, <1>4, <2>1, <3>1, RowsKeep DEF Arming
  <2>10. HandlerSweepInv'
    BY <1>1, <1>3, <2>1, HandlersKeep
  <2>11. ServiceSweepInv'
    BY <1>4, <2>1, FreshSweep DEF Swept
  <2>12. RewriteInv'
    BY <2>2 DEF RewriteInv
  <2>13. DriverInv'
    BY <1>1, <1>4, <1>6, <2>1 DEF Parts, InitializeInv, DriverInv
  <2> QED
    BY <2>5, <2>6, <2>7, <2>8, <2>9, <2>10, <2>11, <2>12, <2>13 DEF Parts
<1> QED
  BY <1>4, <1>5, <1>6

(* A new driver keeps them: the old one is gone.                            *)
LEMMA ArmDriverDrives ==
  ASSUME TypeInv, TypeInv', Calm', Parts, ArmDriver
  PROVE  Parts'
<1>1. PICK ok \in BOOLEAN :
           /\ UNCHANGED <<now, templates, tasks, sweeps, svc, used, promised>>
           /\ At("arming") /\ AddJob("driver", ok) /\ call.item.lease \in Lease
  BY ArmSteps
<1> DEFINE n == NewJob
<1>2. /\ n \in Job /\ \A j \in Job : j # n => jobs'[j] = jobs[j]
      /\ \A a \in Job \cup {Service} : n \notin sweeps[a].todo
      /\ jobs'[n] # NoJob /\ jobs'[n].kind = "driver" /\ jobs[n] = NoJob
      /\ jobs'[n].lease = call.item.lease /\ jobs'[n].exp = call.item.exp
      /\ jobs'[n].instance = svc.instance
  BY <1>1, JobAdded
<1>3. /\ call'.step = "guarding" /\ call'.made = n /\ call'.op = call.op
      /\ call'.item = call.item /\ call'.back = call.back /\ call'.kept = call.kept
      /\ call'.todo = call.todo /\ call'.length = call.length /\ call'.ready = call.ready
  <2>1. call' = [call EXCEPT !.step = "guarding", !.made = n]
    BY NoMishap DEF ArmDriver, AddJob
  <2>2. call \in Call
    BY DEF TypeInv, CallInv
  <2> HIDE DEF n
  <2> QED
    BY <2>1, <2>2 DEF Call
<1> HIDE DEF n
<1>4. call.step = "arming" /\ Swept(Service) /\ call.op \in {"create", "renew", "initialize"}
  BY <1>1 DEF At, Parts, PhaseInv, Arming
<1>5. \A l : Writing(l)' = Writing(l) /\ Term(l)' = Term(l)
  BY <1>1, <1>3, <1>4 DEF Writing, Term, Arming
<1>6. \A l : Live(l)' = Live(l)
  BY <1>1, <1>5 DEF Live
<1>7. PhaseInv' /\ DisableInv'
  BY <1>2, <1>3, <1>4 DEF PhaseInv, DisableInv, Arming
<1>8. InitializeInv'
  <2>1. \A i : Known(i)' <=> Known(i)
    BY <1>1 DEF Known
  <2> QED
    BY <1>1, <1>3, <1>4, <2>1 DEF Parts, InitializeInv, Arming
<1>9. TemplateInv'
  BY <1>1, <1>3, <1>5, <1>6 DEF Parts, TemplateInv, Leases
<1>10. TaskInv'
  BY <1>1, <1>6, TasksStand
<1>11. RowInv'
  <2>1. \A l \in Lease : Term(l)' <= Term(l)
    BY <1>5, Numbers
  <2> QED
    BY <1>1, <1>2, <1>3, <1>4, <2>1, RowsKeep DEF Arming
<1>12. HandlerSweepInv'
  BY <1>1, <1>2, HandlersKeep
<1>13. ServiceSweepInv'
  BY <1>1, <1>3, <1>4, FreshSweep DEF Swept
<1>14. RewriteInv'
  <2> SUFFICES ASSUME NEW k \in Job, jobs'[k] # NoJob, Writing(jobs'[k].lease)
               PROVE  jobs'[k].exp = call.item.exp
    BY <1>3, <1>5 DEF RewriteInv
  <2>1. CASE k = n
    BY <1>2, <2>1
  <2>2. CASE k # n
    <3>1. jobs'[k] = jobs[k] /\ jobs[k] # NoJob /\ Writing(jobs[k].lease)
      BY <1>2, <2>2
    <3>2. k \notin sweeps[Service].todo /\ sweeps[Service].lists = <<>>
      BY <1>4 DEF Swept
    <3>3. jobs[k].exp = call.item.exp
      BY <1>4, <3>1, <3>2 DEF Parts, RewriteInv
    <3> QED
      BY <3>1, <3>3
  <2> QED
    BY <2>1, <2>2
<1>15. DriverInv'
  <2>1. ASSUME svc.gate, NEW l \in Lease, now < promised[l], ~Awaiting(l)'
        PROVE  \E j \in Job : IsDriver(j, l, promised[l])'
    <3>1. ~Awaiting(l)
      BY <1>3, <1>4, <2>1 DEF Awaiting
    <3>2. PICK j \in Job : IsDriver(j, l, promised[l])
      BY <2>1, <3>1 DEF Parts, DriverInv
    <3> QED
      BY <1>1, <1>2, <3>2 DEF IsDriver
  <2>2. IsDriver(call.made, call.item.lease, call.item.exp)'
    BY <1>1, <1>2, <1>3 DEF IsDriver
  <2> QED
    BY <1>1, <2>1, <2>2 DEF DriverInv
<1> QED
  BY <1>7, <1>8, <1>9, <1>10, <1>11, <1>12, <1>13, <1>14, <1>15 DEF Parts

(* The promise is given when only jobs of the new expiry are left.          *)
LEMMA ArmGuardDrives ==
  ASSUME TypeInv, TypeInv', Calm', Parts, ArmGuard
  PROVE  Parts'
<1> DEFINE n == NewJob
           m == call.item.lease
           promise == call.op = "create" \/ (call.op = "renew" /\ call.kept /\ now < call.back)
<1>1. PICK ok \in BOOLEAN :
           /\ UNCHANGED <<now, templates, tasks, sweeps, svc, used>>
           /\ At("guarding") /\ AddJob("guard", ok) /\ m \in Lease
           /\ ok => Continue
           /\ promised' = IF ok /\ promise THEN [promised EXCEPT ![m] = call.item.exp] ELSE promised
  BY GuardSteps
<1>2. /\ ok /\ n \in Job /\ \A j \in Job : j # n => jobs'[j] = jobs[j]
      /\ \A a \in Job \cup {Service} : n \notin sweeps[a].todo
      /\ jobs'[n] # NoJob /\ jobs[n] = NoJob
      /\ jobs'[n].lease = m /\ jobs'[n].exp = call.item.exp
  BY <1>1, JobAdded
<1>3. /\ call.step = "guarding" /\ Swept(Service) /\ call.op \in {"create", "renew", "initialize"}
      /\ call.made \in Job
  BY <1>1 DEF At, Parts, PhaseInv, Arming
<1>4. call.op = "initialize" => /\ call'.op = "initialize" /\ call'.step = "rearming"
                                /\ call'.todo = call.todo /\ call'.length = call.length
                                /\ call'.ready = call.ready
  <2>1. call.op = "initialize" => call' = [call EXCEPT !.step = "rearming", !.made = 0]
    BY <1>1, <1>2 DEF Continue
  <2>2. call \in Call
    BY DEF TypeInv, CallInv
  <2> QED
    BY <2>1, <2>2 DEF Call
<1>5. call.op # "initialize" => \/ call'.op = "renew" /\ call'.step = "renewing"
                                \/ call'.op = "none" /\ call'.step = "idle"
  BY <1>1, <1>2, ContinueType, LocalsType
<1> HIDE DEF n
<1>6. call'.step \in {"rearming", "renewing", "idle"} /\ call'.op \in {"initialize", "renew", "none"}
  BY <1>3, <1>4, <1>5
<1>7. \A l \in Lease : ~Writing(l)' /\ Term(l)' = promised'[l]
  BY <1>6 DEF Writing, Term, Arming
<1>8. \A l \in Lease : /\ Writing(l) <=> call.op # "initialize" /\ l = m
                       /\ l # m \/ call.op = "initialize" => Term(l) = promised[l]
                       /\ promised[l] \in Nat /\ Term(l) \in Nat /\ promised'[l] \in Nat
  BY <1>3, Numbers DEF Writing, Term, Arming, TypeInv
<1>9. \A l \in Lease : l # m \/ ~promise => promised'[l] = promised[l]
  BY <1>1 DEF TypeInv
<1>10. promise => promised'[m] = call.item.exp /\ call.op # "initialize"
  BY <1>1, <1>2, <1>3 DEF TypeInv
<1>11. call.op # "initialize" => promised[m] = 0
  BY <1>1, <1>8 DEF Parts, TemplateInv
<1>12. ASSUME NEW l \in Lease, now < promised'[l]
       PROVE  Live(l)
  <2>1. now \in Nat /\ call.item.exp \in Nat /\ call.back \in Nat
    BY Numbers
  <2>2. CASE l # m \/ ~promise
    BY <1>9, <1>12, <2>2, PromisedTerm DEF Parts
  <2>3. CASE l = m /\ promise
    <3>1. now < call.item.exp
      BY <1>10, <1>12, <2>3
    <3>2. Writing(m)
      BY <1>1, <1>8, <1>10, <2>3
    <3>3. now < Term(m)
      BY <2>1, <2>3, <3>1, <3>2 DEF Term
    <3> QED
      BY <2>3, <3>3 DEF Live
  <2> QED
    BY <2>2, <2>3
<1>13. \A l \in Lease : Live(l)' => now < promised'[l] /\ Live(l)
  BY <1>1, <1>7, <1>12 DEF Live
<1>14. TemplateInv'
  <2>1. \A l \in Lease : Live(l)' => l \in Leases'
    BY <1>1, <1>13 DEF Parts, TemplateInv, Leases
  <2>2. \A l \in Lease : promised'[l] > 0 => l \in used'
    BY <1>1, <1>3, <1>9 DEF Parts, TemplateInv, RowInv, Arming
  <2>3. ASSUME NEW l \in Leases, promised'[l] > 0
        PROVE  templates[l].exp = promised'[l]
    <3>1. l \in Lease
      BY DEF Leases
    <3>2. CASE l # m \/ ~promise
      BY <1>9, <2>3, <3>1, <3>2 DEF Parts, TemplateInv
    <3>3. CASE l = m /\ promise
      BY <1>8, <1>10, <3>1, <3>3 DEF Parts, TemplateInv
    <3> QED
      BY <3>2, <3>3
  <2>4. \A l \in Leases' : promised'[l] > 0 => templates'[l].exp = promised'[l]
    BY <1>1, <2>3 DEF Leases
  <2> QED
    BY <1>6, <1>7, <2>1, <2>2, <2>4 DEF TemplateInv
<1>15. TaskInv'
  BY <1>1, <1>13, TasksStand
<1>16. RowInv'
  <2> SUFFICES ASSUME NEW j \in Job, jobs'[j] # NoJob
               PROVE  (jobs[j].exp >= Term(jobs[j].lease) /\ jobs[j].lease \in used)'
    BY <1>6 DEF RowInv, Arming
  <2>1. PICK x \in Lease : x = jobs'[j].lease
    BY DEF TypeInv, JobRecord
  <2>2. m \in used
    BY <1>3 DEF Parts, RowInv, Arming
  <2>3. jobs'[j].exp \in Nat /\ call.item.exp \in Nat
    BY Numbers DEF TypeInv, JobRecord
  <2>4. CASE x = m /\ call.op # "initialize"
    <3>1. jobs'[j].exp = call.item.exp
      <4>1. CASE j = n
        BY <1>2, <4>1
      <4>2. CASE j # n
        BY <1>2, <1>3, <1>8, <2>1, <2>4, <4>2 DEF Parts, RewriteInv
      <4> QED
        BY <4>1, <4>2
    <3>2. promised'[x] \in {0, call.item.exp}
      BY <1>1, <1>9, <1>10, <1>11, <2>4
    <3>3. jobs'[j].exp >= promised'[x]
      BY <2>3, <3>1, <3>2
    <3> QED
      BY <1>1, <1>7, <2>1, <2>2, <2>4, <3>3
  <2>5. CASE ~(x = m /\ call.op # "initialize")
    <3>1. promised'[x] = promised[x] /\ Term(x) = promised[x]
      BY <1>8, <1>9, <1>10, <2>5
    <3>2. CASE j = n
      <4>1. x = m /\ call.op = "initialize"
        BY <1>2, <2>1, <2>5, <3>2
      <4>2. promised[x] \in {0, call.item.exp}
        BY <1>3, <4>1 DEF Parts, InitializeInv, Known, Arming
      <4>3. jobs'[j].exp >= promised'[x]
        BY <1>2, <2>3, <3>1, <3>2, <4>2
      <4> QED
        BY <1>1, <1>7, <2>1, <2>2, <4>1, <4>3
    <3>3. CASE j # n
      <4>1. jobs[j].exp >= Term(x) /\ x \in used
        BY <1>2, <2>1, <3>3 DEF Parts, RowInv
      <4>2. jobs'[j].exp >= promised'[x]
        BY <1>2, <3>1, <3>3, <4>1
      <4> QED
        BY <1>1, <1>7, <2>1, <4>1, <4>2
    <3> QED
      BY <3>2, <3>3
  <2> QED
    BY <2>4, <2>5
<1>17. HandlerSweepInv'
  BY <1>1, <1>2, HandlersKeep
<1>18. ServiceSweepInv'
  BY <1>1, <1>3, <1>6, FreshSweep DEF Swept
<1>19. RewriteInv'
  <2>1. \A k \in Job : jobs'[k] # NoJob => jobs'[k].lease \in Lease
    BY DEF TypeInv, JobRecord
  <2> QED
    BY <1>7, <2>1 DEF RewriteInv
<1>20. DriverInv'
  <2> SUFFICES ASSUME svc.gate, NEW l \in Lease, now < promised'[l], ~Awaiting(l)'
               PROVE  \E j \in Job : IsDriver(j, l, promised[l])'
    BY <1>1, <1>6 DEF DriverInv
  <2>1. \A j \in Job : j # n /\ IsDriver(j, l, promised'[l]) => IsDriver(j, l, promised[l])'
    BY <1>1, <1>2 DEF IsDriver
  <2>2. CASE l = m
    <3>1. IsDriver(call.made, m, call.item.exp)
      BY <1>3, <1>12, <2>2 DEF Parts, DriverInv
    <3>2. promised'[l] = call.item.exp
      <4>1. promised'[l] # 0
        BY <1>8, Numbers
      <4>2. CASE promise
        BY <1>10, <2>2, <4>2
      <4>3. CASE ~promise
        <5>1. call.op = "initialize" /\ promised'[l] = promised[l]
          BY <1>9, <1>11, <2>2, <4>1, <4>3
        <5>2. promised[l] \in {0, call.item.exp}
          BY <1>3, <2>2, <5>1 DEF Parts, InitializeInv, Known, Arming
        <5> QED
          BY <4>1, <5>1, <5>2
      <4> QED
        BY <4>2, <4>3
    <3>3. call.made # n
      BY <1>2, <3>1 DEF IsDriver
    <3> QED
      BY <1>3, <2>1, <2>2, <3>1, <3>2, <3>3
  <2>3. CASE l # m
    <3>1. ~Awaiting(l)
      BY <1>3, <1>4, <2>3 DEF Awaiting
    <3>2. promised'[l] = promised[l]
      BY <1>9, <2>3
    <3>3. PICK j \in Job : IsDriver(j, l, promised[l])
      BY <3>1, <3>2 DEF Parts, DriverInv
    <3>4. j # n
      BY <1>2, <3>3 DEF IsDriver
    <3> QED
      BY <2>1, <3>2, <3>3, <3>4
  <2> QED
    BY <2>2, <2>3
<1>21. InitializeInv'
  <2>1. ASSUME call'.op = "initialize" PROVE InitializeInv'
    <3>1. call.op = "initialize"
      BY <1>5, <2>1
    <3>2. promised' = promised
      BY <1>1, <1>10, <3>1
    <3>3. \A i : Known(i)' <=> Known(i)
      BY <1>1, <3>2 DEF Known
    <3> QED
      BY <1>1, <1>3, <1>4, <3>1, <3>3 DEF Parts, InitializeInv, Arming
  <2> QED
    BY <2>1 DEF InitializeInv
<1>22. PhaseInv' /\ DisableInv'
  <2>1. call'.step = "rearming" => call'.op = "initialize"
    BY <1>4, <1>5
  <2>2. call'.step = "renewing" => call'.op = "renew"
    BY <1>3, <1>4, <1>5
  <2>3. call'.op = "none" => call'.step = "idle"
    BY <1>3, <1>4, <1>5
  <2> QED
    BY <1>6, <2>1, <2>2, <2>3 DEF PhaseInv, DisableInv, Arming
<1> QED
  BY <1>14, <1>15, <1>16, <1>17, <1>18, <1>19, <1>20, <1>21, <1>22 DEF Parts
----------------------------------------------------------------------------
(* The count of the calls that raised never falls.                          *)
LEMMA OnlySpent ==
  ASSUME TypeInv, [Next]_vars
  PROVE  spent' = spent \/ \E n \in {"op", "boot", "mishap"} : Spend(n)
<1>1. CASE Tick \/ Initialize \/ Terminate \/ Crash \/ (\E j \in Job : PauseByHand(j)) \/ UNCHANGED vars
  BY <1>1 DEF Tick, Initialize, Terminate, Crash, PauseByHand, vars
<1>2. ASSUME NEW j \in Job, HandlerStep(j)
      PROVE  spent' = spent \/ Spend("mishap")
  BY <1>2 DEF HandlerStep, Fire, CheckTemplate, Suppress, Run, Return, Expire, HandlerFails,
              SweepList, SweepDelete, DeleteTemplate
<1>3. CASE Inventory \/ DeleteExpired \/ Act \/ DisableNext \/ Finish \/ ListFails
           \/ InitialInventory \/ DeleteDrivers \/ OpenGate \/ Rearm \/ Suspend \/ Terminated
  BY <1>3 DEF Inventory, DeleteExpired, Act, DisableNext, Finish, ListFails, InitialInventory,
              DeleteDrivers, OpenGate, Rearm, Suspend, Terminated, DeleteTemplate
<1>4. CASE Renew \/ CreateCleanup \/ Withdraw \/ Revert \/ ArmRefused \/ ArmDriver \/ ArmGuard
           \/ Disown \/ DeleteLease \/ Reconcile
  BY <1>4 DEF Renew, CreateCleanup, Withdraw, Revert, ArmRefused, ArmDriver, ArmGuard, Disown,
              DeleteLease, Reconcile, DeleteTemplate, UpdateTemplate, AddJob
<1>5. CASE SweepList(Service) \/ SweepDelete(Service) \/ \E l \in Lease : AddTemplate(l)
  BY <1>5 DEF SweepList, SweepDelete, AddTemplate
<1>6. CASE \E op \in Operations, s \in Scope, ids \in SUBSET used, length \in Lengths :
             Manage(op, s, ids, length)
  BY <1>6 DEF Manage
<1> QED
  BY <1>1, <1>2, <1>3, <1>4, <1>5, <1>6 DEF Next, ServiceStep

(* A call that raises leads to these, and none did.                         *)
LEMMA NoneRaised ==
  ASSUME TypeInv, Calm', Parts, GateInv
  PROVE  /\ ~Withdraw /\ ~Revert /\ ~ArmRefused /\ ~Disown /\ ~ListFails
         /\ \A j \in Job : ~PauseByHand(j)
<1>1. ~Spend("mishap")
  BY NoMishap
<1>2. ~ListFails /\ \A j \in Job : ~PauseByHand(j)
  BY <1>1 DEF ListFails, PauseByHand
<1>3. call.step \notin {"reverting", "restoring", "withdrawing", "disowning"}
  BY DEF Parts, PhaseInv
<1>4. call.step = "arming" => svc.gate
  BY DEF Parts, PhaseInv, Arming, GateInv, Rearming
<1> QED
  BY <1>2, <1>3, <1>4 DEF Withdraw, Revert, ArmRefused, Disown, At

(* The gate and the service stay, and so does the operation, or it ends.    *)
LEMMA GateKept ==
  ASSUME GateInv, svc'.gate = svc.gate, svc'.active => svc.active,
         \/ call'.op = call.op /\ (call.op = "initialize" /\ call'.step \in Rearming => svc.gate)
         \/ call' = Locals /\ (call.op = "initialize" => svc.gate)
  PROVE  GateInv'
BY LocalsType DEF GateInv

(* Every step keeps the gate open while the service is active.              *)
LEMMA GateHolds ==
  ASSUME TypeInv, Calm', Parts, GateInv, [Next]_vars
  PROVE  GateInv'
<1>1. CASE UNCHANGED <<svc, call>>
  BY <1>1 DEF GateInv
<1>2. CASE Tick \/ UNCHANGED vars \/ SweepList(Service) \/ SweepDelete(Service)
  BY <1>1, <1>2 DEF Tick, vars, SweepList, SweepDelete, service
<1>3. CASE \E j \in Job : HandlerStep(j)
  BY <1>1, <1>3, HandlerStepTypes DEF Beside
<1>4. CASE Inventory \/ Act \/ DisableNext \/ DeleteLease \/ Finish
  <2>1. svc' = svc
    BY <1>4 DEF Inventory, Act, DisableNext, DeleteLease, Finish
  <2>2. call.op # "initialize"
    BY <1>4 DEF Inventory, Act, DisableNext, DeleteLease, Finish, At, Parts, PhaseInv
  <2>3. call'.op = call.op \/ call' = Locals
    BY <1>4, InventorySteps, ActSteps, DisableSteps, DeleteLeaseSteps, FinishTypes
  <2> QED
    BY <2>1, <2>2, <2>3, GateKept
<1>5. CASE DeleteExpired
  <2>1. svc' = svc /\ call.step = "expiring" /\ call \in Call
    BY <1>5 DEF DeleteExpired, At, TypeInv, CallInv
  <2>2. PICK i : call' = [call EXCEPT !.todo = @ \ {i}] \/ End
    BY <1>5, DeleteExpiredSteps
  <2>3. call'.op = call.op \/ call' = Locals
    BY <2>1, <2>2 DEF Call, End
  <2> QED
    BY <2>1, <2>3, GateKept DEF Parts, PhaseInv
<1>6. CASE Renew \/ \E l \in Lease : AddTemplate(l)
  <2>1. svc' = svc /\ call.op # "initialize"
    BY <1>6, AddTemplateSteps DEF Renew, At, Parts, PhaseInv
  <2>2. call'.op = call.op \/ call' = Locals
    BY <1>6, RenewSteps, AddTemplateSteps DEF End
  <2> QED
    BY <2>1, <2>2, GateKept
<1>7. CASE CreateCleanup
  <2>1. svc' = svc /\ call.op # "revert"
    BY <1>7 DEF CreateCleanup, Parts, PhaseInv
  <2>2. call'.op = call.op /\ (call.op = "initialize" => call'.step = "reconciling")
    BY <1>7, <2>1, CreateCleanupSteps
  <2> QED
    BY <2>1, <2>2, GateKept DEF Rearming
<1>8. CASE ArmDriver
  <2>1. PICK ok \in BOOLEAN : svc' = svc /\ AddJob("driver", ok) /\ (ok => call'.op = call.op)
    BY <1>8, ArmSteps
  <2>2. call'.op = call.op /\ svc.gate
    BY <1>8, <2>1, NoMishap DEF AddJob, ArmDriver
  <2> QED
    BY <2>1, <2>2, GateKept
<1>9. CASE ArmGuard
  <2>1. PICK ok \in BOOLEAN : svc' = svc /\ AddJob("guard", ok) /\ (ok => Continue)
    BY <1>9, GuardSteps
  <2>2. call'.op = call.op \/ call' = Locals
    BY <2>1, NoMishap, ContinueType DEF AddJob
  <2>3. call.op = "initialize" => svc.gate
    BY <1>9 DEF ArmGuard, At, GateInv, Rearming
  <2> QED
    BY <2>1, <2>2, <2>3, GateKept
<1>10. CASE InitialInventory \/ Reconcile \/ DeleteDrivers \/ Suspend
  <2>1. svc' = svc
    BY <1>10 DEF InitialInventory, Reconcile, DeleteDrivers, Suspend
  <2>2. call'.op = call.op /\ call'.step \in {"reconciling", "cleanup", "opening", "closing"}
    BY <1>10, InitialInventorySteps, ReconcileSteps, LoopSteps DEF At
  <2> QED
    BY <2>1, <2>2, GateKept DEF Rearming
<1>11. CASE OpenGate
  <2>1. CASE sweeps[Service].missed
    <3>1. svc' = [svc EXCEPT !.active = FALSE] /\ call' = Locals
      BY <1>11, <2>1 DEF OpenGate, End
    <3>2. ~svc'.active
      BY <3>1 DEF TypeInv
    <3> QED
      BY <3>1, <3>2, LocalsType DEF GateInv
  <2>2. CASE ~sweeps[Service].missed
    BY <1>11, <2>2, OpenGateSteps DEF GateInv
  <2> QED
    BY <2>1, <2>2
<1>12. CASE Rearm
  <2>1. svc' = svc /\ svc.gate
    BY <1>12 DEF Rearm, At, Parts, PhaseInv, GateInv, Rearming
  <2>2. call'.op = call.op \/ call' = Locals
    BY <1>12, RearmSteps
  <2> QED
    BY <2>1, <2>2, GateKept
<1>13. CASE Terminated
  <2>1. svc' = [svc EXCEPT !.loaded = FALSE] /\ call' = Locals /\ call.op # "initialize"
    BY <1>13 DEF Terminated, End, At, Parts, PhaseInv
  <2>2. svc'.gate = svc.gate /\ svc'.active = svc.active
    BY <2>1 DEF TypeInv
  <2> QED
    BY <2>1, <2>2, GateKept
<1>14. CASE \E op \in Operations, s \in Scope, ids \in SUBSET used, length \in Lengths :
              Manage(op, s, ids, length)
  <2>1. svc' = svc /\ svc.active /\ call.op = "none"
    BY <1>14 DEF Manage
  <2>2. PICK op : op \in Operations /\ call'.op = op
    BY <1>14 DEF Manage, Locals
  <2> QED
    BY <2>1, <2>2, HeartbeatAssumption DEF GateInv
<1>15. CASE Initialize
  <2>1. call'.op = "initialize" /\ call'.step = "inventory"
    BY <1>15, InitializeSteps
  <2> QED
    BY <2>1 DEF GateInv, Rearming
<1>16. CASE Terminate \/ Crash
  <2>1. ~svc'.active
    BY <1>16 DEF Terminate, Crash, TypeInv
  <2>2. call'.op = "terminate" \/ call' = Locals
    BY <1>16, TerminateSteps, CrashSteps
  <2> QED
    BY <2>1, <2>2, LocalsType DEF GateInv
<1> QED
  BY <1>2, <1>3, <1>4, <1>5, <1>6, <1>7, <1>8, <1>9, <1>10, <1>11, <1>12, <1>13, <1>14, <1>15, <1>16,
     NoneRaised DEF Next, ServiceStep

(* So does no step at all.                                                  *)
LEMMA StutterDrives ==
  ASSUME TypeInv, TypeInv', Parts, UNCHANGED vars
  PROVE  Parts'
<1>1. UNCHANGED <<now, templates, jobs, tasks, sweeps, svc, call, used, promised>>
  BY DEF vars
<1>2. \A l : Live(l)' <=> Live(l)
  BY <1>1, SameTerm DEF Live
<1>3. TaskInv'
  BY <1>1, <1>2, TasksStand
<1>4. HandlerSweepInv'
  BY <1>1, HandlersStand
<1>5. now' >= now
  BY <1>1, Numbers
<1> QED
  BY <1>1, <1>3, <1>4, <1>5, Decays

(* Every step of the service keeps the parts.                               *)
LEMMA ServiceStepDrives ==
  ASSUME TypeInv, TypeInv', Calm', Parts, GateInv, ServiceStep
  PROVE  Parts'
<1>1. CASE Inventory \/ DeleteExpired \/ Act \/ DisableNext \/ DeleteLease \/ Finish \/ Terminated
  BY <1>1, InventoryDrives, DeleteExpiredDrives, ActDrives, DisableDrives, DeleteLeaseDrives,
     FinishDrives
<1>2. CASE InitialInventory \/ Reconcile \/ DeleteDrivers \/ OpenGate \/ Rearm \/ Suspend
  BY <1>2, InitialInventoryDrives, ReconcileDrives, LoopDrives, OpenGateDrives, RearmDrives
<1>3. CASE Renew \/ CreateCleanup \/ ArmDriver \/ ArmGuard
  BY <1>3, RenewDrives, CreateCleanupDrives, ArmDriverDrives, ArmGuardDrives
<1>4. CASE SweepList(Service) \/ SweepDelete(Service) \/ \E l \in Lease : AddTemplate(l)
  BY <1>4, ServiceListDrives, ServiceDeleteDrives, AddTemplateDrives
<1> QED
  BY <1>1, <1>2, <1>3, <1>4, NoneRaised DEF ServiceStep

(* Every step keeps the parts while callers name leases of their own scope. *)
LEMMA NextDrives ==
  ASSUME ~ForeignIds, TypeInv, TypeInv', Driving, Calm => GateInv, [Next]_vars
  PROVE  Driving' /\ (Calm => GateInv)'
<1> SUFFICES ASSUME Calm'
             PROVE  Parts' /\ GateInv'
  BY DEF Driving, Parts
<1>1. Calm
  BY OnlySpent, NoMishap
<1>2. Parts /\ GateInv
  BY <1>1, DrivingParts
<1>3. ASSUME Tick \/ Initialize \/ Terminate \/ Crash \/ UNCHANGED vars
      PROVE  Parts'
  BY <1>2, <1>3, TickDrives, InitializeDrives, TerminateDrives, CrashDrives, StutterDrives
<1>4. ASSUME \E j \in Job : HandlerStep(j)
      PROVE  Parts'
  BY <1>2, <1>4, HandlerStepDrives
<1>5. ASSUME ServiceStep
      PROVE  Parts'
  BY <1>2, <1>5, ServiceStepDrives
<1>6. ASSUME \E op \in Operations, s \in Scope, ids \in SUBSET used, length \in Lengths :
               Manage(op, s, ids, length)
      PROVE  Parts'
  BY <1>2, <1>6, ManageDrives
<1> QED
  BY <1>2, <1>3, <1>4, <1>5, <1>6, NoneRaised, GateHolds DEF Next

(* The parts hold at the start.                                             *)
LEMMA InitDrives == Init => Driving /\ GateInv
<1> SUFFICES ASSUME Init
             PROVE  Parts /\ GateInv
  BY DEF Driving, Parts
<1>1. call.op = "none" /\ call.step = "idle"
  BY LocalsType DEF Init
<1>2. \A l : ~Writing(l)
  BY <1>1 DEF Writing, Arming
<1>3. \A l \in Lease : promised[l] = 0 /\ ~Live(l) /\ templates[l] = NoTemplate
  BY <1>2 DEF Init, Live, Term
<1>4. \A j \in Job : jobs[j] = NoJob /\ tasks[j].step = "idle"
  BY DEF Init, Idle
<1>5. \A a \in Job \cup {Service} : Swept(a)
  BY DEF Init, Swept, NoSweep
<1>6. PhaseInv /\ InitializeInv /\ DisableInv
  BY <1>1 DEF PhaseInv, InitializeInv, DisableInv, Arming
<1>7. TemplateInv /\ RowInv
  BY <1>1, <1>2, <1>3, <1>4 DEF TemplateInv, RowInv, Leases, Arming
<1>8. TaskInv /\ HandlerSweepInv
  BY <1>4, <1>5 DEF TaskInv, HandlerSweepInv, Swept
<1>9. ServiceSweepInv /\ RewriteInv
  <2>1. <<>> \notin {<<"driver", "guard">>, <<"guard">>}
    OBVIOUS
  <2> QED
    BY <1>1, <1>2, <1>5, <2>1 DEF ServiceSweepInv, RewriteInv, Swept
<1>10. DriverInv
  BY <1>1 DEF DriverInv, Init
<1>11. GateInv
  BY <1>1 DEF GateInv, Init
<1> QED
  BY <1>6, <1>7, <1>8, <1>9, <1>10, <1>11 DEF Parts

(* heartbeat_service.py, heartbeat_gate.py, cron_adapter.py: as long as no  *)
(* call of the cron has raised, an acknowledged lease keeps its template    *)
(* and a driver of the running instance until it expires: expiry jobs of    *)
(* its earlier terms, operations on other leases, reloads and crashes take  *)
(* neither.  It needs callers that name only leases of their own scope:     *)
(* disable disarms a lease before anything checks to whom it belongs.       *)
THEOREM LeasesAreDriven == ~ForeignIds => (Spec => []LeaseIsDriven)
<1> SUFFICES ASSUME ~ForeignIds
             PROVE  Spec => []LeaseIsDriven
  OBVIOUS
<1>1. Init => Inv /\ Driving /\ (Calm => GateInv)
  BY InitHolds, InitDrives
<1>2. Inv /\ Driving /\ (Calm => GateInv) /\ [Next]_vars => (Inv /\ Driving /\ (Calm => GateInv))'
  BY NextHolds, NextDrives DEF Inv
<1>3. Inv /\ Driving => LeaseIsDriven
  <2> SUFFICES ASSUME TypeInv, Parts, call.op = "none", svc.gate, NEW l \in Lease,
                      now < promised[l]
               PROVE  Driven(l, promised[l])
    BY DrivingParts DEF Inv, LeaseIsDriven, Calm
  <2>1. l \in Leases /\ templates[l].exp = promised[l]
    BY PromisedTerm DEF Parts, TemplateInv
  <2>2. PICK j \in Job : IsDriver(j, l, promised[l])
    BY DEF Parts, DriverInv, Awaiting
  <2> QED
    BY <2>1, <2>2 DEF Driven, IsDriver, Rows
<1> QED
  BY <1>1, <1>2, <1>3, PTL DEF Spec
=============================================================================

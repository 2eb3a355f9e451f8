------------------------------ MODULE EchoHooks ------------------------------
(***************************************************************************)
(* EchoService (src/echo_service.py): finite, non-recursive echo hooks.  A  *)
(* hook is a row of the host's scheduler, stored disabled, and a timer task *)
(* of the plugin that runs the row once and deletes it.                     *)
(*                                                                         *)
(* Every action is what one task does between two awaits.  A call of the    *)
(* scheduler takes effect in the step that resumes its caller, except       *)
(* add_active_job and run_job_now, which other tasks may observe half done. *)
(* Delays are left out: a timer may fire at any moment.                     *)
(***************************************************************************)
EXTENDS Integers, FiniteSets

CONSTANTS
  Hook,        \* job ids, each given to one row
  Scope,       \* the sessions
  Caller,      \* tool calls, and message handlers that cancel a scope
  NoScope,     \* the job id has no row
  NoHook,      \* the caller handles no row
  MaxCount,    \* limits.max_count
  MaxPerScope, \* limits.max_pending_per_scope
  MaxTotal,    \* limits.max_pending_total
  MaxMishaps,  \* bound: calls of the scheduler that raise, and deaths of the host process
  MaxBoots     \* bound: instances of the plugin

VARIABLES
  rows,    \* the owned rows of the scheduler: the scope of each
  timers,  \* the timer tasks and their entries in _tasks
  callers, \* the locals of create, cancel and cancel_scope
  svc,     \* the plugin instance and its initialize and terminate
  quarantined, \* _quarantined
  mishaps, \* the calls that raised and the deaths so far
  begun,   \* history: hooks whose run_job_now has started the agent
  told,    \* history: what cancel and cancel_scope answered, row by row
  lost     \* history: rows whose creator never learned of them

vars == <<rows, timers, callers, svc, quarantined, mishaps, begun, told, lost>>

ASSUME EchoAssumption ==
  /\ NoScope \notin Scope
  /\ NoHook \notin Hook
  /\ MaxCount \in Nat \ {0}
  /\ MaxMishaps \in Nat
  /\ MaxBoots \in Nat

TimerRecord ==
  [step: {"none", "sleeping", "checking", "running", "deleting", "cleaning", "ended"},
   instance: Nat, listed: BOOLEAN, cancelled: BOOLEAN, failed: BOOLEAN]

NoTimer ==
  [step |-> "none", instance |-> 0, listed |-> FALSE, cancelled |-> FALSE, failed |-> FALSE]

CallerRecord ==
  [op: {"create", "cancel"},
   step: {"idle", "listing", "checking", "adding", "added", "popping", "deleting", "done"},
   scope: Scope \cup {NoScope}, instance: Nat, left: Nat, fits: BOOLEAN, wanted: SUBSET Hook,
   todo: SUBSET Hook, made: SUBSET Hook, hook: Hook \cup {NoHook}, armed: BOOLEAN]

IdleCaller ==
  [op |-> "cancel", step |-> "idle", scope |-> NoScope, instance |-> 0, left |-> 0,
   fits |-> FALSE, wanted |-> {}, todo |-> {}, made |-> {}, hook |-> NoHook, armed |-> FALSE]

Done(c) == [IdleCaller EXCEPT !.step = "done"]

Init ==
  /\ rows = [h \in Hook |-> NoScope]
  /\ timers = [h \in Hook |-> NoTimer]
  /\ callers = [c \in Caller |-> IdleCaller]
  /\ svc = [phase |-> "off", instance |-> 0, todo |-> {}]
  /\ quarantined = {}
  /\ mishaps = 0
  /\ begun = {} /\ told = {} /\ lost = {}

Rows == {h \in Hook : rows[h] # NoScope}

(* _active of an instance.                                                  *)
Active(i) == svc.phase = "active" /\ svc.instance = i

(* A call of the scheduler may raise.                                       *)
MayFault == mishaps < MaxMishaps

Fault == mishaps' = mishaps + 1

(* The instance's _quarantined.                                             *)
Quarantine(i, h) ==
  quarantined' = IF i = svc.instance THEN quarantined \cup {h} ELSE quarantined

(* Deviation: a delete that raised is taken for done.                       *)
DeleteTakenForDone ==
  {[gone |-> TRUE, ok |-> TRUE]} \cup (IF MayFault THEN {[gone |-> FALSE, ok |-> TRUE]} ELSE {})

(* What delete_job does to the row and what _delete_owned_job returns: it   *)
(* raises with or without effect, and the inventory that follows finds the  *)
(* row gone, finds it, or raises as well.                                   *)
DeleteResults ==
  {[gone |-> TRUE, ok |-> TRUE]} \cup
    (IF MayFault THEN {[gone |-> TRUE, ok |-> FALSE], [gone |-> FALSE, ok |-> FALSE]} ELSE {})

(* _delete_owned_job after the timer has been stopped.                      *)
Delete(i, h, result) ==
  /\ rows' = IF result.gone THEN [rows EXCEPT ![h] = NoScope] ELSE rows
  /\ IF result.ok THEN UNCHANGED <<mishaps, quarantined>> ELSE Fault /\ Quarantine(i, h)

(* The timer is in _tasks of instance i.                                    *)
OnTable(timer, i) == timer.listed /\ timer.instance = i

(* Deviation: the timer is taken off the table and goes on.                 *)
ForgetTimer(timer, i) ==
  IF OnTable(timer, i) THEN [timer EXCEPT !.listed = FALSE] ELSE timer

(* A timer is taken off the table of instance i and cancelled.              *)
Stop(timer, i) ==
  IF OnTable(timer, i)
  THEN [timer EXCEPT !.listed = FALSE, !.cancelled = TRUE] ELSE timer
----------------------------------------------------------------------------
(* The timer tasks: _wait_and_execute.                                      *)

EndTimer(h) == timers' = [timers EXCEPT ![h] = [NoTimer EXCEPT !.step = "ended"]]

(* The task reaches its own _delete_owned_job, which takes it off the table.*)
StartDeleting(h, failed) ==
  timers' = [timers EXCEPT ![h].step = "deleting", ![h].listed = FALSE, ![h].failed = failed,
                           ![h].cancelled = FALSE]

(* The sleep is over.                                                       *)
Fire(h) ==
  /\ timers[h].step = "sleeping" /\ ~timers[h].cancelled
  /\ IF Active(timers[h].instance)
     THEN timers' = [timers EXCEPT ![h].step = "checking"]
     ELSE EndTimer(h)
  /\ UNCHANGED <<rows, callers, svc, quarantined, mishaps, begun, told, lost>>

(* Deviation: a suppressed hook keeps its row.                              *)
SuppressAndKeep(h) ==
  /\ timers[h].step = "checking" /\ ~timers[h].cancelled
  /\ EndTimer(h)
  /\ UNCHANGED <<rows, callers, svc, quarantined, mishaps, begun, told, lost>>

(* The preflight says no, or raises.                                        *)
Suppress(h) ==
  /\ timers[h].step = "checking" /\ ~timers[h].cancelled
  /\ StartDeleting(h, FALSE)
  /\ UNCHANGED <<rows, callers, svc, quarantined, mishaps, begun, told, lost>>

(* The preflight says yes: run_job_now starts the agent if there is a row.  *)
Run(h) ==
  /\ timers[h].step = "checking" /\ ~timers[h].cancelled
  /\ timers' = [timers EXCEPT ![h].step = "running"]
  /\ begun' = IF h \in Rows THEN begun \cup {h} ELSE begun
  /\ UNCHANGED <<rows, callers, svc, quarantined, mishaps, told, lost>>

(* run_job_now returns or raises.                                           *)
Finish(h) ==
  /\ timers[h].step = "running" /\ ~timers[h].cancelled
  /\ \E failed \in BOOLEAN : StartDeleting(h, failed)
  /\ UNCHANGED <<rows, callers, svc, quarantined, mishaps, begun, told, lost>>

(* CancelledError reaches the task.                                         *)
Interrupted(h) ==
  /\ timers[h].cancelled
  /\ IF timers[h].step = "running" THEN StartDeleting(h, FALSE) ELSE EndTimer(h)
  /\ UNCHANGED <<rows, callers, svc, quarantined, mishaps, begun, told, lost>>

(* The task deletes its row; after an execution that raised it does so a    *)
(* second time.                                                             *)
DeleteOwn(h) ==
  /\ timers[h].step = "deleting"
  /\ \E result \in DeleteResults :
       IF timers[h].failed
       THEN /\ rows' = IF result.gone THEN [rows EXCEPT ![h] = NoScope] ELSE rows
            /\ IF result.ok THEN UNCHANGED mishaps ELSE Fault
            /\ Quarantine(timers[h].instance, h)
            /\ timers' = [timers EXCEPT ![h].step = "cleaning"]
       ELSE Delete(timers[h].instance, h, result) /\ EndTimer(h)
  /\ UNCHANGED <<callers, svc, begun, told, lost>>

CleanUp(h) ==
  /\ timers[h].step = "cleaning"
  /\ \E result \in DeleteResults : Delete(timers[h].instance, h, result)
  /\ EndTimer(h)
  /\ UNCHANGED <<callers, svc, begun, told, lost>>

TimerStep(h) ==
  Fire(h) \/ Suppress(h) \/ Run(h) \/ Finish(h) \/ Interrupted(h) \/ DeleteOwn(h) \/ CleanUp(h)
----------------------------------------------------------------------------
(* create, cancel and cancel_scope.                                         *)

(* create asks for _active only here.                                       *)
Create(c, s, n) ==
  /\ callers[c].step = "idle"
  /\ svc.phase = "active"
  /\ callers' = [callers EXCEPT ![c] =
       [IdleCaller EXCEPT !.op = "create", !.step = "listing", !.scope = s,
                          !.instance = svc.instance, !.left = n]]
  /\ UNCHANGED <<rows, timers, svc, quarantined, mishaps, begun, told, lost>>

(* cancel for the rows that are named, by hook or by group; cancel_scope    *)
(* names them all.  A handler of a terminated instance may still call it.   *)
Cancel(c, s, named) ==
  /\ callers[c].step = "idle"
  /\ svc.phase # "off"
  /\ callers' = [callers EXCEPT ![c] =
       [IdleCaller EXCEPT !.step = "listing", !.scope = s, !.instance = svc.instance,
                          !.wanted = named]]
  /\ UNCHANGED <<rows, timers, svc, quarantined, mishaps, begun, told, lost>>

(* list_jobs raises: the call fails.                                        *)
ListFails(c) ==
  /\ callers[c].step \in {"listing", "checking"}
  /\ MayFault /\ Fault
  /\ callers' = [callers EXCEPT ![c] = Done(c)]
  /\ UNCHANGED <<rows, timers, svc, quarantined, begun, told, lost>>

(* There is room for what create is about to add.                           *)
Fits(caller) ==
  /\ Cardinality({h \in Rows : rows[h] = caller.scope}) + caller.left <= MaxPerScope
  /\ Cardinality(Rows) + caller.left <= MaxTotal

(* The inventory: create sees whether there is room, cancel what to delete. *)
List(c) ==
  LET caller == callers[c]
      found  == {h \in caller.wanted : rows[h] = caller.scope}
  IN  /\ caller.step = "listing"
      /\ callers' = [callers EXCEPT ![c] =
           IF caller.op = "create"
           THEN [caller EXCEPT !.step = "checking", !.fits = Fits(caller)]
           ELSE IF found = {} THEN Done(c)
           ELSE [caller EXCEPT !.step = "popping", !.todo = found, !.wanted = {}]]
      /\ UNCHANGED <<rows, timers, svc, quarantined, mishaps, begun, told, lost>>

(* The snapshot has listed the rows once more; create acts on what it saw   *)
(* the first time.                                                          *)
CheckCapacity(c) ==
  /\ callers[c].step = "checking"
  /\ callers' = [callers EXCEPT ![c] =
       IF callers[c].fits THEN [callers[c] EXCEPT !.step = "adding", !.fits = FALSE] ELSE Done(c)]
  /\ UNCHANGED <<rows, timers, svc, quarantined, mishaps, begun, told, lost>>

(* The row is in the table, and add_active_job has not returned yet.        *)
Add(c, h) ==
  /\ callers[c].step = "adding"
  /\ timers[h].step = "none" /\ rows[h] = NoScope /\ h \notin lost
  /\ \A d \in Caller : callers[d].hook # h
  /\ rows' = [rows EXCEPT ![h] = callers[c].scope]
  /\ callers' = [callers EXCEPT ![c].step = "added", ![c].hook = h]
  /\ UNCHANGED <<timers, svc, quarantined, mishaps, begun, told, lost>>

(* create undoes what it has made, if anything.                             *)
Undo(c) ==
  callers' = [callers EXCEPT ![c] =
    IF callers[c].made = {} THEN Done(c)
    ELSE [callers[c] EXCEPT !.step = "popping", !.todo = callers[c].made, !.hook = NoHook]]

(* add_active_job raises, before or after the row was stored.               *)
AddFails(c) ==
  /\ callers[c].step \in {"adding", "added"}
  /\ MayFault /\ Fault
  /\ Undo(c)
  /\ lost' = IF callers[c].step = "added" THEN lost \cup {callers[c].hook} ELSE lost
  /\ UNCHANGED <<rows, timers, svc, quarantined, begun, told>>

(* add_active_job returns: _arm_task, and the next row of the batch.        *)
Arm(c) ==
  LET caller == callers[c]
      h      == caller.hook
  IN  /\ caller.step = "added"
      /\ timers' = [timers EXCEPT ![h] = [NoTimer EXCEPT !.step = "sleeping", !.listed = TRUE,
                                                         !.instance = caller.instance]]
      /\ callers' = [callers EXCEPT ![c] =
           IF caller.left = 1 THEN Done(c)
           ELSE [caller EXCEPT !.step = "adding", !.left = @ - 1, !.hook = NoHook,
                               !.made = @ \cup {h}]]
      /\ UNCHANGED <<rows, svc, quarantined, mishaps, begun, told, lost>>

(* _delete_owned_job begins: it takes the timer off the table and stops it. *)
PopTimer(c, h) ==
  /\ callers[c].step = "popping"
  /\ h \in callers[c].todo
  /\ timers' = [timers EXCEPT ![h] = Stop(@, callers[c].instance)]
  /\ callers' = [callers EXCEPT ![c].step = "deleting", ![c].hook = h, ![c].todo = @ \ {h},
                                ![c].armed = OnTable(timers[h], callers[c].instance)]
  /\ UNCHANGED <<rows, svc, quarantined, mishaps, begun, told, lost>>

(* It ends; cancel answers for the row: removed or failed.                  *)
DeleteRow(c) ==
  LET caller == callers[c]
  IN  /\ caller.step = "deleting"
      /\ \E result \in DeleteResults :
           /\ Delete(caller.instance, caller.hook, result)
           /\ told' = IF caller.op = "cancel"
                      THEN told \cup {[hook |-> caller.hook, removed |-> result.ok,
                                         armed |-> caller.armed]}
                      ELSE told
      /\ callers' = [callers EXCEPT ![c] =
           IF caller.todo = {} THEN Done(c)
           ELSE [caller EXCEPT !.step = "popping", !.hook = NoHook, !.armed = FALSE]]
      /\ UNCHANGED <<timers, svc, begun, lost>>

CallerStep(c) ==
  \/ List(c) \/ ListFails(c) \/ CheckCapacity(c) \/ DeleteRow(c)
  \/ AddFails(c) \/ Arm(c)
  \/ \E h \in Hook : Add(c, h) \/ PopTimer(c, h)
----------------------------------------------------------------------------
(* initialize and terminate of the plugin instance.                         *)

(* The host loads the plugin: a new instance, whose table is empty.         *)
Initialize ==
  /\ svc.phase \in {"off", "stopped"}
  /\ svc.instance < MaxBoots
  /\ svc' = [phase |-> "listing", instance |-> svc.instance + 1, todo |-> {}]
  /\ quarantined' = {}
  /\ UNCHANGED <<rows, timers, callers, mishaps, begun, told, lost>>

(* The inventory of initialize; if it raises the service stays inactive.    *)
InitializeList ==
  /\ svc.phase = "listing"
  /\ \/ /\ svc' = IF Rows = {} THEN [svc EXCEPT !.phase = "active"]
                  ELSE [svc EXCEPT !.phase = "starting", !.todo = Rows]
        /\ UNCHANGED mishaps
     \/ /\ MayFault /\ Fault
        /\ svc' = [svc EXCEPT !.phase = "inert"]
  /\ UNCHANGED <<rows, timers, callers, quarantined, begun, told, lost>>

(* A delete that raises there is only noted.                                *)
InitializeDelete(h) ==
  /\ svc.phase = "starting" /\ h \in svc.todo
  /\ \E result \in DeleteResults : Delete(svc.instance, h, result)
  /\ svc' = IF svc.todo = {h} THEN [svc EXCEPT !.phase = "active", !.todo = {}]
            ELSE [svc EXCEPT !.todo = @ \ {h}]
  /\ UNCHANGED <<timers, callers, begun, told, lost>>

(* terminate: the timers on the table are cancelled and gathered.           *)
Terminate ==
  LET listed == {h \in Hook : OnTable(timers[h], svc.instance)}
  IN  /\ svc.phase \in {"active", "inert"}
      /\ svc' = [svc EXCEPT !.phase = "gathering", !.todo = listed]
      /\ timers' = [h \in Hook |-> Stop(timers[h], svc.instance)]
      /\ UNCHANGED <<rows, callers, quarantined, mishaps, begun, told, lost>>

(* They have ended: the inventory.  If it raises terminate gives up.        *)
TerminateList ==
  /\ svc.phase = "gathering"
  /\ \A h \in svc.todo : timers[h].step = "ended"
  /\ \/ /\ svc' = IF Rows = {} THEN [svc EXCEPT !.phase = "stopped", !.todo = {}]
                  ELSE [svc EXCEPT !.phase = "purging", !.todo = Rows]
        /\ UNCHANGED mishaps
     \/ /\ MayFault /\ Fault
        /\ svc' = [svc EXCEPT !.phase = "stopped", !.todo = {}]
  /\ UNCHANGED <<rows, timers, callers, quarantined, begun, told, lost>>

TerminateDelete(h) ==
  /\ svc.phase = "purging" /\ h \in svc.todo
  /\ \E result \in DeleteResults :
       /\ rows' = IF result.gone THEN [rows EXCEPT ![h] = NoScope] ELSE rows
       /\ IF result.ok THEN UNCHANGED mishaps ELSE Fault
  /\ svc' = IF svc.todo = {h} THEN [svc EXCEPT !.phase = "stopped", !.todo = {}]
            ELSE [svc EXCEPT !.todo = @ \ {h}]
  /\ UNCHANGED <<timers, callers, quarantined, begun, told, lost>>

(* The host process dies; rows that are not persistent may survive it.  An  *)
(* id that was given to a row is not given again.                           *)
Crash ==
  /\ svc.phase # "off"
  /\ MayFault /\ Fault
  /\ \E survivors \in SUBSET Rows :
       rows' = [h \in Hook |-> IF h \in survivors THEN rows[h] ELSE NoScope]
  /\ timers' = [h \in Hook |->
       IF timers[h].step = "none" /\ h \notin Rows /\ \A c \in Caller : callers[c].hook # h
       THEN NoTimer ELSE [NoTimer EXCEPT !.step = "ended"]]
  /\ callers' = [c \in Caller |-> IF callers[c].step = "idle" THEN IdleCaller ELSE Done(c)]
  /\ svc' = [svc EXCEPT !.phase = "off", !.todo = {}]
  /\ UNCHANGED <<quarantined, begun, told, lost>>

ServiceStep ==
  \/ Initialize \/ InitializeList \/ Terminate \/ TerminateList
  \/ \E h \in Hook : InitializeDelete(h) \/ TerminateDelete(h)

Next ==
  \/ \E c \in Caller :
       \/ CallerStep(c)
       \/ \E s \in Scope :
            \/ \E n \in 1 .. MaxCount : Create(c, s, n)
            \/ \E named \in SUBSET Hook : Cancel(c, s, named)
  \/ \E h \in Hook : TimerStep(h)
  \/ ServiceStep
  \/ Crash

Spec == Init /\ [][Next]_vars

(* asyncio resumes every task that is ready, sleeps end, and the calls of   *)
(* the scheduler answer.                                                    *)
FairSpec ==
  /\ Spec
  /\ \A h \in Hook : WF_vars(TimerStep(h))
  /\ \A c \in Caller : WF_vars(CallerStep(c))
  /\ WF_vars(InitializeList \/ TerminateList)
  /\ \A h \in Hook : WF_vars(InitializeDelete(h) \/ TerminateDelete(h))
----------------------------------------------------------------------------
(* Every variable has its type, and the table of timers holds only timers   *)
(* that have not come to their delete: one that has can no longer be        *)
(* cancelled by its hook.                                                   *)
TypeOK ==
  /\ rows \in [Hook -> Scope \cup {NoScope}]
  /\ timers \in [Hook -> TimerRecord]
  /\ \A h \in Hook : timers[h].listed => timers[h].step \in {"sleeping", "checking", "running"}
  /\ callers \in [Caller -> CallerRecord]
  /\ svc \in [phase: {"off", "listing", "starting", "active", "inert", "gathering", "purging",
                      "stopped"}, instance: 0 .. MaxBoots, todo: SUBSET Hook]
  /\ quarantined \subseteq Hook
  /\ mishaps \in 0 .. MaxMishaps
  /\ begun \subseteq Hook
  /\ told \subseteq [hook: Hook, removed: BOOLEAN, armed: BOOLEAN]
  /\ lost \subseteq Hook

Begins(h) == h \notin begun /\ h \in begun'

(* A truthful receipt: a row that a cancel reported as removed is gone.     *)
RemovedMeansGone ==
  \A t \in told : t.removed => t.hook \notin Rows

(* A hook that a cancel stopped never starts the agent afterwards, also     *)
(* when its row could not be deleted: what counts is that its timer was     *)
(* already there to be stopped, or that the row is gone.                    *)
StoppedHookStaysStopped ==
  [][\A t \in told : t.armed \/ t.removed => ~Begins(t.hook)]_vars

(* What docs/capability_matrix.md promises: the timer is stopped first, and *)
(* a row that could not be deleted does not go on to execute.               *)
AnsweredHookStaysStopped == [][\A t \in told : ~Begins(t.hook)]_vars

(* Only the instance that is active starts the agent: no timer outlives     *)
(* terminate, not even one that was armed, or was in its preflight, while   *)
(* terminate ran.                                                           *)
OnlyActiveInstanceRuns ==
  [][\A h \in Hook : Begins(h) => Active(timers[h].instance)]_vars

(* The configured number of pending hooks of a scope and of the plugin.     *)
PendingWithinCapacity ==
  /\ \A s \in Scope : Cardinality({h \in Hook : rows[h] = s}) <= MaxPerScope
  /\ Cardinality(Rows) <= MaxTotal

(* A row that the instance knows of: armed by it, just added by it, or in   *)
(* the inventory of its start.                                              *)
InCharge(h) ==
  /\ h \in Rows
  /\ \/ OnTable(timers[h], svc.instance)
     \/ \E c \in Caller :
          callers[c].step = "added" /\ callers[c].hook = h /\ callers[c].instance = svc.instance
     \/ svc.phase = "starting" /\ h \in svc.todo

(* No promise is left behind: a hook of a running instance runs, is         *)
(* suppressed or is cancelled, and its row disappears, unless a delete      *)
(* failed and the row is on record for the operator, or the scheduler       *)
(* raised after it had stored the row.  The host does not cancel the task   *)
(* of a create or a cancel here: in the code that can leave a row behind,   *)
(* with no timer, until the next load.                                      *)
HooksAreSettled ==
  \A h \in Hook :
    InCharge(h) ~>
      \/ h \notin Rows \/ h \in quarantined \/ h \in lost
      \/ svc.phase \notin {"starting", "active"}
=============================================================================

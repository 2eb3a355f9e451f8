# Verification of the sender activation plugin

`astrbot_plugin_sender_activation` lets an AstrBot agent decide, for a bounded
time, that messages of some people in a group wake the agent without being
addressed to it. The plugin keeps *leases* (who may wake the agent in which
conversation and until when), *rate leases* (how often), and several services
around them. This directory holds TLA+ models of that code, the TLC
configurations that check them on small instances, and TLAPS proofs.

All paths below are relative to the repository (`src/` in `PROJECT.json`).

## 1. The system

| component | source | state | operations |
|---|---|---|---|
| activation registry | `domain.py` | an immutable `RegistryState`: activation leases, rate leases, recovery reports | enable, renew, disable, set and clear rate, restore, acknowledge, prune, load |
| activation service | `service.py`, `storage.py` | running snapshot, mutation lock, lifecycle and readiness flags, sliding windows, two KV slots | initialize, terminate, four kinds of mutation, decide, preview, snapshot, health |
| reservation coordinator | `activation_reservation.py` | per (conversation, sender) a slot: next allowed instant, generation, claim, pending waiter | reserve (may wait), commit, close |
| message pipeline | `main.py` | extras of the event, `_ACTIVE_PLUGIN`, the order of initialize and terminate | filters, attention guard, sender activation handler, recovery context, reconciliation, tools |
| operator access | `access_*.py` | delegations with an expiry, two KV slots, a lock | authorize, grant, renew, revoke, initialize, terminate |
| attention ignore | `attention_*.py` | policies, per-target counters and blocks, two KV slots, a lock | evaluate, set, clear, initialize, terminate |
| echo hooks | `echo_service.py` | native one-shot jobs, local timer tasks, the quarantine | create, cancel, cancel_scope, execute, initialize, terminate |
| heartbeat | `heartbeat_*.py`, `cron_adapter.py` | native cron jobs: template, driver, guard, cleanup; the gate | create, renew, disable, list, arm, disarm, the three job handlers, start and stop |
| session gate | `session_gate.py` | none (reads host preferences) | read |
| settings, diagnostics, page | `settings.py`, `host_diagnostics.py`, `pages/` | none of their own | parse, report, display |

**How they interact.** A group message passes two filters and two handlers.
`AttentionGuardFilter` asks the attention service and may mark the event. The
`SenderActivationFilter` reads the session gate and asks the activation service
for a *preview*. `activate_native_agent` then *reserves* with the coordinator -
the only place where it waits - *decides* with the activation service, which
consumes a place in the sliding window, and *commits* the reservation. When an
agent turn starts, `provide_recovery_context` shows it the recovery report of
its conversation; when it ends, `reconcile_after_agent` either restores the
conversation to native behaviour (after an error) or acknowledges the report.
Tools and the operator page call the mutations, after `authorize` of operator
access for a delegate. An activation or a native wake cancels the echo hooks of
its conversation. Echo and heartbeat keep their state as jobs of the host's cron,
which survive the plugin; what belongs to which instance is decided when the next
one starts. Everything runs in one asyncio
event loop: a step is what a task does between two awaits.

**What is hard.** Every mutation awaits two KV puts while it holds
`_mutation_lock`; either put can fail, take effect although it raised, or stay
unknown, and the task can be cancelled or the process die in between. Leases
expire while that happens. Reads, previews and health checks run in between and
drop state as a side effect. In the coordinator several messages of one key race
with each other, with the end of the interval, with rejected decisions and with
`close`; around it filters, guard, gate and services answer at different moments,
and `terminate` stops them one after the other. Access and attention store like
the activation service but with weaker checks: neither tests again under the lock
whether it still runs. Echo and heartbeat have no storage of their own: every
step is an awaited call of the host's cron that can raise, and timers, cron
handlers, callers, reloads and expiries interleave between any two of them. The
list `hazards` of `PROJECT.json` names each of these at its line,
with the property that would catch it.

**What correctness means, per component.**

- registry and service: what is served is what was acknowledged; a slot never
  holds a document that nobody can account for; a boot recovers the acknowledged
  document, a stranded one, or - only if the primary slot could not be read -
  its predecessor; no lost updates; receipts are true; limits and capacities
  hold; every call is answered and `terminate` returns.
- coordinator: two activations of a key are at least the interval apart; the
  last message of a burst is the one activated; no waiter is forgotten; only
  activations use up an interval; nothing is activated after `close`.
- pipeline: places in the window and activations agree; what is ignored or
  disabled is left alone; a native wake reaches the agent whatever fails; nothing
  is admitted before everything is up, or from the first line of `terminate` on.
- access: an acknowledged revocation denies, an acknowledged grant is served.
- attention: the flood is cut at the threshold, nobody is ignored without cause,
  a cleared policy does not come back.
- echo: receipts are true; a stopped hook, and a stopped instance, never start the
  agent; every row is settled in the end.
- heartbeat: an acknowledged lease keeps its driver until its expiry; a removed
  one never wakes the agent; the gate opens only without drivers of an earlier
  instance; drivers do not outlive their lease.

## 2. Modules

| module | models |
|---|---|
| `LeaseDomain` | `domain.py` as operators on documents and instants |
| `LeaseService` | `service.py` over `storage.py`: one action per step between awaits |
| `LeaseRegister` | what the service promises, without slots, locks or tasks |
| `MCLeaseService` | instances of `LeaseService` for TLC |
| `LeaseDomainProofs`, `LeaseServiceProofs` | theorems about the first two |
| `ActivationReservation` | `activation_reservation.py` and its callers |
| `ActivationPipeline` | `main.py` around the coordinator, which it extends; `session_gate.py` as an input |
| `OperatorAccess` | `access_service.py` over its store |
| `AttentionGuard` | `attention_service.py` over its store, with two clocks |
| `SlotStore` | the two KV slots of access and attention, and what a boot finds in them |
| `EchoHooks` | `echo_service.py` over the host's scheduler |
| `Heartbeat` | `heartbeat_service.py`, `heartbeat_gate.py` and `cron_adapter.py` over the host's cron |
| `ActivationReservationProofs`, `ActivationPipelineProofs` | theorems about these two |
| `OperatorAccessProofs`, `AttentionGuardProofs`, `EchoHooksProofs`, `HeartbeatProofs` | theorems about the four smaller services |
| `MC...` | instances of the module of that name for TLC |

An operator that a comment calls a *Deviation* is not part of the model: it is
the model's neighbour with one plausible bug, used to see that a property can
fail.

### LeaseDomain

A lease is its expiry, `0` for none: the functions of `domain.py` read nothing
else of it. `Document` has the activation expiries, the rate expiries and the
recovery report of each scope. Every mutation returns the new document, the
rows of its receipt and the keys whose window it resets, like `MutationResult`.
The digest `report_id` is the pair of what it digests. Normalisation of input
text, and the quarantine of single invalid rows, are left out; a slot whose
document cannot be decoded is a slot that cannot be read.

### LeaseService

| variable | code |
|---|---|
| `wall`, `mono` | `_effective_wall_time`, `_monotonic_clock` |
| `slots` | the two KV keys |
| `phase`, `ready` | `_lifecycle_active` with the place inside initialize/terminate; `storage_ready` |
| `state`, `usage` | `_state`, `SlidingWindowCounters._usage` |
| `loaded` | the document that initialize selected |
| `holder`, `commit`, `call` | `_mutation_lock` and the locals of each task in `_commit_mutation` |
| `spent` | how much of each bound is used |
| `acked`, `prior`, `limbo`, `fallback`, `grants`, `since` | history, read by no action |

`Load`, `BootBackup`, `BootPrimary` are `initialize` cut at its awaits;
`Terminate` and `Terminated` are `terminate` before and after it has the lock.
A mutation is `Call` (first readiness check), `Acquire` or `Refuse` (under the
lock: second check, the operation, both documents), `PutBackup`, `PutPrimary`,
`AcknowledgeCommit`, `Reply`; `CommitFails` holds the except branches of
`_commit_mutation`. `StartTurn` and `EndTurn` are the two agent hooks of
`main.py`. `Decide`, `Preview` and `Snapshot` are the reads. `Cancel` is the
host cancelling the task at an await; `Crash` is the death of the process.

A put has four results (`PutResults`): it worked, it raised and the read-back
shows that it did not take effect, or the read-back raised as well and it did or
did not.

### LeaseRegister

One acknowledged document; a commit replaces it; the service can lose track of a
commit; it can close, and reopens on a recoverable document.
`LeaseService!ImplementsRegister` states that the service implements it under the
mapping `acked <- IF ready THEN state ELSE acked`, `open <- ready`: while the
service decides, the document of the register *is* the running snapshot.

### ActivationReservation

A task is one message: it reserves once, perhaps waits, and commits at most once.
`Reserve` is `_offer_locked` with the part of `reserve` before its wait, `Wake`
the part after it, `Commit` and `Close` the methods, `Cancel` the host. The
constant `Suspends` says whether other tasks may run between `reserve` and
`commit`. In `main.py` they may not (there is no await between line 888's return
and line 903), so `LoopIsFree` forbids it when `Suspends = FALSE`; with
`Suspends = TRUE` the module describes the interface for any caller.

Two conventions of asyncio are used: a task that was signalled runs before the
timer of the task that replaced it (`Resumed`), since it became ready first; and
`wait_for` with a timeout returns at the earliest at its due time.

### ActivationPipeline

Extends the coordinator with the handlers that call it, so that a step of the
pipeline is a step of the coordinator or leaves it alone.

| variable | code |
|---|---|
| `events` | each message's `AstrMessageEvent`: `is_at_or_wake_command`, stopped, the ignore marker, the decision; and the handler it is in |
| `plugin` | `_ACTIVE_PLUGIN`, how far `initialize` or `terminate` has come, which services answer |
| `disabled`, `places`, `policies` | what the gate, the activation service and the attention service answer; changed at any time by `Change` |
| `taken` | history: places consumed by `decide` |

`Arrive` is both filters and the host's choice of the first handler; `ApplyGuard`,
`GuardCleared` are `apply_attention_guard` around its await; `Bypass`,
`ActivateNative`, `ActivateExtra`, `Resume`, `Decide`, `Cleared`, `ClearingFails`
are `activate_native_agent` cut at the wait of `reserve` and at `cancel_scope`.
`Decide` is one step with the end of `Resume`'s permit because the code does not
await between them: no other action is enabled while a permit is out. `Drop` is
the host cancelling a suspended handler. Of `terminate`, `Terminate` runs up to
the first await; the services stop one after the other.

The decision of `decide` and the filters' `preview` are both `Admits`: the answer
may change between them. LeaseService and AttentionGuard, which say when it
changes, are not composed with the pipeline: their whole state would multiply with
it, and the pipeline's properties need only the answers.

### OperatorAccess, AttentionGuard, SlotStore

`SlotStore` states what a boot selects from the two slots, and the deviation in
which it prefers the backup. In `OperatorAccess` several instances of the plugin
exist at once, each with its `memory` (`_state`): `Terminate` waits for nobody, so
calls of a stopped instance go on. `Acquire`, `PutBackup`, `PutPrimary` are
`_commit` between its awaits, with puts that fail, take effect although they
raised, or stay unknown, and calls that are rejected. `Drained` says that
the host starts an instance only when no call is under way. `Authorized` is
`authorize` with all its arguments.

In `AttentionGuard`, `Message` is `evaluate_activation_attempt`: window, threshold,
block; `policies` is the published map. A mutation (`Mutate`, `PutBackup`,
`PutPrimary`) replaces it only after both puts; a put that fails leaves it, and
one whose outcome is unknown makes the service step back: nothing is ignored
until the next load. `mono` and `wall` are separate, and `SetBack` sets the wall clock
back. `log` remembers the verdicts under the current policy, also the messages that
found it expired (`PolicyAbsent`, where the code drops the counters and the block): the
properties recompute from it what the counters should have said. It is forgotten only
where the policy is replaced or the service is loaded anew.

### EchoHooks

| variable | code |
|---|---|
| `rows` | the scheduler's owned rows (external) |
| `timers` | `_tasks` and the timer coroutines: sleeping, preflight, running, deleting |
| `callers` | locals of `create`, `cancel`, `cancel_scope` between two awaits |
| `svc`, `quarantined` | the instance, its initialize and terminate; `_quarantined` |
| `begun`, `told`, `lost` | history: agent starts, receipts, rows whose creator never learned of them |

Every call of the scheduler is a step of its own and may raise, before or after it
took effect. How long a delay is does not matter: a timer may fire at any moment.

### Heartbeat

| variable | code |
|---|---|
| `templates` | the disabled template rows that are the leases (external rows, read by `cron_adapter.py`) |
| `jobs` | the basic jobs: drivers, guards and cleanups, with their instance |
| `tasks` | the job handlers that run, between their awaits |
| `sweeps` | the loops that list jobs and delete them one by one |
| `svc`, `call` | the instance, its two `_active` flags; the operation that holds the lock |
| `promised`, `revoked`, `paused` | history: acknowledged expiries and removals, drivers paused by hand |

Expiries are rounded to `Minute`, the cron's granularity. `ForeignIds` lets a caller
name a lease of another scope. `ListFails` is `list_jobs` raising at any listing under
the lock (`Listing`). What it raises is no `DomainError`: an `initialize` that meets it is
aborted, which `main.py` does not catch either, and the service stays active over a gate
that may never have opened; `arm` then refuses every lease (`ArmRefused`). The host
is taken to terminate such an instance, or to die, before it loads the next one.

## 3. Runs

| run | question | bounds | states |
|---|---|---|---|
| `LeaseDurability` | what slots and memory hold when puts fail or stay unknown, tasks are cancelled, the process dies and boots again; refinement of `LeaseRegister`; every call is answered, `terminate` returns | 1 key, 2 callers, 3 calls, 2 faults, 1 cancel, 1 crash, 3 boots, 2 ticks | 0.5M |
| `LeaseMutations` | receipts, lost updates, restore, lifting of limits | 2 scopes, 2 callers, all operations, 2 lengths, 3 calls, 1 fault, 2 ticks | 1.6M |
| `LeaseCapacity` | the capacities under races; who closes a recovery report | 2 scopes, 3 targets, capacities 2 per scope and 3 in all, 4 calls, 1 turn | 1.1M |
| `LeaseWindow` | the sliding window between two resets | maximum 2 per 2 instants, 4 decisions, 4 calls, 4 ticks, stalled wall clock | 2.4M |
| `LeaseWindowRenewed` | the documented promise of the window (violated, see below) | as above | |
| `Reservation` | nobody who waits is forgotten, the last of a burst, close is final, waiters are resolved, for any caller | 3 messages, 2 keys, 1 slot, interval 2, time 5, callers that suspend | 0.2M |
| `Pipeline` | interval and window agree, what uses up an interval, when a message is turned away; ignored, disabled and native messages; terminate | 3 messages, 2 keys, 1 slot, interval 1, time 2, 1 place, 1 change, all three modes | 4.8M |
| `Access` | acknowledged grants and revocations over faults, crash and restarts | 2 operators, 3 calls, 1 fault, 1 crash, 2 boots, 2 ticks, grants for 1 or 2, drained reloads | 0.8M |
| `AccessReload` | the same when the host reloads while a call is under way (violated, see below) | 1 operator, 2 calls, 2 boots, no fault | |
| `Attention` | threshold, block and policies over two clocks and the store | 2 targets, 3 messages, 2 mutations, count 2, windows 0 and 2, 1 mishap, 2 boots, time 3 | 2.7M |
| `Echo` | receipts, stopped hooks, stopped instances, settled rows | 2 hooks, 2 callers, 1 mishap, 2 boots | 1.0M |
| `Heartbeat` | driven leases, the gate, removed leases, vanishing drivers | 1 lease, 5 jobs, 2 operations, 1 mishap, 2 boots, time 2 of one minute | 0.5M |

**Why these bounds are enough.** A commit has one predecessor and the slots hold
two documents, so a wrong recovery needs at most two mutations and one more to
tell them apart; two callers are enough to race for one lock, and a third would
only queue (in `Access` a third call tells a lost change from a replaced one). Two
faults allow an unknown put followed by a failed read at boot. Two ticks with
lengths 1 and 2 let a lease expire before, during and after a commit. In the
coordinator and the pipeline a wrong interval needs an activation, a waiter and a
message that supersedes it, or a rejection and a further message: three. One
change suffices for the pipeline because each property is about one answer that
was read at one stage and is different at a later one. A threshold of two needs
two messages to trigger and one more to see the block. Two hooks are needed for a
batch that fails half-way; two instances for what a reload leaves behind; five
jobs hold the driver, the guard and the cleanup of a lease with the leftovers of an
earlier term. With one mishap each single failing call is met at each place; the
properties that would need two say which failures they except.

All counters that grow for ever (`Bound`, `MaxTime`, `MaxMishaps`, `MaxBoots`,
`MaxChanges`, `MaxJobs`, `MaxTasks`) are bounds of the instance in the guards of
the model and limit how often something happens, never what it does. Runs that
stop when their bounds are used up do not check for deadlock; the liveness
properties say what must not stop. Symmetry is used in runs without liveness
properties only.

`PipelineTypeOK` holds on these instances as well, and the type invariants of
`ActivationReservation`, `OperatorAccess`, `AttentionGuard`, `EchoHooks` and `Heartbeat`
are proved (section 4); the runs list the properties that say more.

**Fairness.** `TaskFairness` of `LeaseService` asks that a task whose await is over
is resumed and that a KV call returns or raises: asyncio's ready queue is first in,
first out, and every put and read of the store ends in one of its results. The
lock needs no strong fairness in these runs because callers are bounded; asyncio's
lock is first come, first served as well. In `ActivationReservation` time passes, a
task whose event or timer fired is resumed, and a handler that has a permit goes
on. In `EchoHooks` timers and callers go on and the calls of the scheduler answer,
also those of initialize and terminate. In `Heartbeat` the clock goes on, the cron
fires jobs that are due, and its calls answer. Callers, messages, boots,
cancellations, crashes, pauses and failures are never fair. `ActivationPipeline`,
`AttentionGuard` and `OperatorAccess` have safety properties alone: waiting ends by
`WaitersAreResolved` of the coordinator, and the other two only await the store.

### Where code and documentation disagree

`LeaseWindowRenewed` states the promise of `manage_sender_activation_rate` - at
most `max_activations` within a window while the rate lease stands - and TLC
violates it: renewing (or enabling again) the activation lease keeps the rate
lease but puts its key into `reset_counter_keys`, and the commit empties the
window. `WindowRespected` is what the code does guarantee: the maximum holds
between two commits that reset the counter. `README.md:206` describes the stricter
meaning.

`AccessReload` states that an acknowledged revocation denies. The stopped instance
neither waits for its lock nor asks again whether it is still ready, so a
revocation that is queued or storing during a reload is acknowledged while the new
instance has already loaded the grant. The activation service does both
(`service.py:356`, `:375`), which is why `ServesAcknowledged` and
`NoWriteAfterTerminate` hold there.

The modules state further promises of the documentation that the code does not
keep. They are definitions that no run lists; adding one to the configuration
named here reproduces its counterexample.

| statement | promise | what happens | configuration |
|---|---|---|---|
| `EchoHooks!PendingWithinCapacity` | `_conf_schema.json:149` and `:155`: the most hooks that are pending per conversation and in the plugin | two creates check the capacity and then await their rows | `Echo.cfg` with `MaxPerScope = 1` |
| `EchoHooks!AnsweredHookStaysStopped` | `docs/capability_matrix.md:83`: the local timer is stopped first, a row that is left does not go on to execute | a cancel between the row and the timer finds no timer; if its delete fails, create arms the hook | `Echo.cfg` |
| `Heartbeat!OneDriverPerLease` | `docs/capability_matrix.md:82`: no second driver if the old one cannot be deleted | `arm` goes on after a failed `disarm` | `Heartbeat.cfg` |
| `Heartbeat!ScopesAreIsolated` | `docs/engineering_proposal.md:20`: the state of every group is isolated | `disable` disarms before the adapter checks the scope | `Heartbeat.cfg` with two scopes and `ForeignIds = TRUE` |
| `Heartbeat!PausedByHandStaysPaused` | `README.md:274`: what was disabled by hand is not enabled again | `initialize` rebuilds every driver as enabled | `Heartbeat.cfg` |

Five more things the models show, of which no document speaks: a message that
waits when its session is disabled is still activated (the gate is read in the
filter only); a message whose echo cancellation raises has used its place and its
interval without waking the agent; a hook that is created by an instance that
stops meanwhile keeps its row until the next reload, although `create` answered ok;
an attention policy that a message found expired comes back with empty counters when
the wall clock is set back, so that each set-back lets up to `count - 1` more messages
pass in the same window; and a heartbeat service whose `initialize` was aborted by an
exception of the cron goes on taking calls over a closed gate, so that a renewal
answers with an error although its template has been updated.

## 4. Proofs

`ActivationReservationProofs` proves, for every number of keys, messages and
slots and every interval:

- `ReservationTypes`: `Spec => []TypeOK`.
- `ClosedForGood`: `Spec => NothingAfterClose`, also for callers that suspend: it
  rests on `ClosedIsEmpty`, no slot is left or comes back after `close`.
- `NobodyIsEverForgotten`, `LastAlwaysWins`: `Spec => []NobodyIsForgotten` and
  `Spec => LastOfBurstWins`, also for callers that suspend.
- `IntervalAlwaysRespected`, `OnlyActivationsUseUpIntervals`: `~Suspends` implies
  `IntervalRespected` and `IntervalIsPaidFor`.
- `NobodyIsTurnedAwayInVain`: `~Suspends` implies `InertOnlyWhenBusy`, for finitely
  many messages (their keys are counted) and any set of keys.

What holds for any caller rests on `QueueInv`, which speaks of the reservations
alone: a pending one was numbered by its slot for a message of its key, a waiter
that was signalled has a smaller generation than the pending one, one that was not
*is* the pending one, and after `close` everybody was signalled. Permits and the
interval do not occur in it, so it does not matter who runs between `reserve` and
`commit`. `QueueKept`, `QueueClaims` and `QueueWaits` are its three kinds of step: a
step that leaves the reservations alone or removes empty slots (however late a
commit is, `_prune_locked` keeps a slot that somebody waits in), a claim, and a new
reservation. A claim needs that nobody else waits for the key, which is
`WinnerIsAlone`: a waiter that wins has not been signalled, so it was resumed by its
timer while no waiter of its key was signalled, and then each of them is the
pending one. `NobodyIsForgotten` follows at once, and `LastOfBurstWins` is
`WinnerIsAlone` again.

`IntervalRespected` speaks about finished messages only and is not inductive. The
invariant `Inv` adds what the code keeps in the slots:

- `PermitsHold`: one permit at a time, and its slot is as the claim left it;
- `GenerationsGrow`: a pending reservation was numbered by its slot, for its key;
- `WaitersInOrder`: a waiter that was signalled has a smaller generation than the
  pending one; one that was not *is* the pending one and is not due before the
  interval ends;
- `AdmittedBefore`: the interval of every activation ends before the next allowed
  instant of its key, before any permit of its key, or before now if the key has
  no slot any more. This is the clause that a rollback must not break: a rejected
  decision restores the next allowed instant of before, which by this clause still
  covers every earlier activation.

There is one lemma per kind of step (`TaskEnds`, `TaskClaims`, `TaskWaits`,
`TaskCommits`), and `InvNext` reduces each action to them. The assumption
`~Suspends` is used in exactly one place: while the loop is free no permit is out.
Without it the theorem is false: generations restart when a slot is pruned, so a
permit held across its interval could commit against a later claim of the same
number. `Inv` itself was model-checked before it was proved.

`IntervalIsPaidFor` is inductive together with `Inv`: a claim is paid for by the
message that claims, and a rollback restores an instant that `PermitsHold` puts
in the past.

`InertOnlyWhenBusy` compares the number of slots with the number of busy keys, so
every slot that a prune leaves must be some message's. `SlotsAreOccupied` says so: a
pending reservation is that of a message that waits under its generation, or was
cancelled while it waited, and a claim that of a message whose decision is open. A
waiter that is superseded or resumed must therefore not be the pending one when it
leaves (`WaitersInOrder`). With `IntervalIsPaidFor` for the slots held by an
interval alone, `SlotsAreBusy` follows, and `InertMeansFull` reads the limit of
`_offer_locked`.

`ActivationPipelineProofs` shows that the assumption `~Suspends` is justified.
`PipelineUsesCoordinator` proves that the pipeline implements the coordinator's
`Spec`, whose theorems then hold of the plugin (`PipelineRespectsInterval`,
`PipelinePaysForIntervals`, `PipelineIsInertOnlyWhenBusy`); `Suspends = FALSE` is part of `PipelineAssumption`,
because `main.py:888-903` has no await between `reserve` and `commit`, and shows as
`LoopIsFree` in every action that another task could take in between. Further, for
any keys, messages, slots, interval, places and changes:

- `PipelineCountsPlaces`: `PlacesAreActivations`, for finitely many messages;
- `PipelineKeepsIgnored`, `PipelineLeavesDisabled`, `PipelinePassesNative`:
  `IgnoredStaysIgnored`, `DisabledSessionIsLeftAlone`, `NativeReachesAgent`;
- `PipelineAdmitsWhileUp`: `AdmitsOnlyWhileUp`.

The invariant `PipelineInv` is the coordinator's `Inv` with `MessageInv`, which says
of a message at each place on its way what earlier stages have settled (its step
with the coordinator, its mark, whether it can be native), and `PluginInv`: the
coordinator is closed exactly from the first line of `terminate` on, and the plugin
is published only with all services up. `ReserveMoves`, `WakeMoves`, `CommitMoves`,
`CancelMoves` and `CloseMoves` say what the coordinator's calls do to a message;
`CommitMoves` also that a commit is never stale, which makes places and activations
agree. `OneMessage` and `NoMessage` reduce every step to the message that moves.

`LeaseServiceProofs` (over lemmas about pruning in `LeaseDomainProofs`) proves of
`LeaseService`, for all conversations, targets, callers and requests and any
number of faults, cancellations, crashes and boots:

- `ServiceTypes`: `Spec => []TypeOK`.
- `OnlyAcknowledgedIsServed`, `PrimaryAlwaysAccountedFor`, `BackupNeverOlder`:
  `ServesAcknowledged`, `PrimaryIsAccountedFor` and `BackupIsOneBehind` always
  hold.
- `SilentAfterTerminate`: `Spec => NoWriteAfterTerminate`.
- `ServiceImplementsRegister`: `Spec => ImplementsRegister`.
- `CapacityHolds`, `WindowHolds`: `CapacityRespected` and `WindowRespected` always
  hold.
- `RestoreSilences`, `ReceiptsAreTrueWhenGiven`, `NoLostUpdate`, `RateLimitStands`,
  `ReportWaitsForItsReader`: the action properties `RestoreSilencesScope`,
  `ReceiptIsTrue`, `OnlyNamedKeysChange`, `RateLimitPersists` and
  `ReportClosedByItsReader`. `OnlyNamedKeysChange` compares the pruned rows
  themselves, with their expiries.

None of the first three state properties is inductive: each speaks of what the slots
hold and not of how a commit under way will change them. The invariant `Inv` adds

- `LockInv`: the tasks inside `_commit_mutation` are exactly the lock's holder,
  and only while the instance is up or closing;
- `NothingStored`: as long as the primary slot is empty there is nothing to lose;
- `CommitInv`: while a commit is under way the snapshot is still the acknowledged
  document, and the slots are as far as its puts have come;
- `BootInv`: what `initialize` selected may be recovered, and the backup slot gets
  it before the primary one;
- `SlotInv`: the two slot properties without the candidate in flight.

All comparisons of documents are modulo what has expired; that time preserves them
is the lemma `SameLater`: documents that agree once pruned agree when pruned
later. One lemma per action (`LoadKeepsInv`, `PutPrimaryKeepsInv`, ...) shows that
it keeps `Inv`; `CommitMoves` and `CommitEnds` hold what is common to the steps
inside a commit and out of it. For the refinement, `RegisterVocabulary` identifies
the documents of both modules, `RegisterSteps` reads the register's actions under
the mapping, which by `ServesAcknowledged` is the acknowledged document, and
`RegisterStep` has one case per action of the service. `Inv` was model-checked
before it was proved.

The limits and the action properties need three further invariants, inductive on top
of `Inv`:

- `LimitInv`: every document that may ever be acknowledged - in memory, loaded, in a
  slot, before or after a commit - is within the capacities and has no report beyond
  its lifetime. `CapacityRespected` of the acknowledged one alone is lost by a boot.
- `PurposeInv`: a commit under way still serves the request it was called for, read
  against the snapshot and the clock of now and not of when the candidate was
  computed; and no rate of a snapshot outlives its activation (`Clamped`). From it
  each receipt property is read off at the step that answers.
- `WindowInv`: the counter of a live rate lease contains every admission of the last
  window since its reset. Times of admissions are monotonic, so that what the
  counter drops has left the window.

`LeaseDomainProofs` says row by row what each mutation of `domain.py` returns
(`EnableRows`, `SetRateRows`, ..., for any document and request) and that none
exceeds a capacity; there `CapacityHolds` needs that a request names finitely many
targets (`ServiceAssumption`), since the capacities count them.

`OperatorAccessProofs` proves of `OperatorAccess`, for any sessions, operators, calls,
faults, boots and crashes, `AccessTypes` (`Spec => []TypeOK`, with the lock: of one
instance one mutation stores at a time), and under the assumption `Drained`

- `RevocationHolds`: `RevokedMeansDenied`; `GrantHolds`: `GrantIsServed`.

`Drained` - the host starts an instance only when no call of the old one is under
way - is a hypothesis of both theorems because without it they are false:
`AccessReload` is the counterexample. Under it the invariant `DrainedInv` says that
all calls under way are of the newest instance, and then follows what was revoked
(`DeniedInv`) or granted (`GrantedInv`) through memory, the primary slot and every
candidate that is about to be stored.

`AttentionGuardProofs` proves of `AttentionGuard`, for any sessions, targets,
policies, messages, faults, boots and a wall clock that may be set back:
`AttentionTypes`, and `FloodCut`, `IgnoreCaused` and `ClearFinal`, that is
`FloodIsCut`, `IgnoreHasCause` and `ClearIsFinal`. `FloodIsCut` says of every message that
passed that it and those counted before it are fewer than the count, where counting
starts at the last trigger or at the last message that found the policy expired; that
nothing passes before a block ends, such a lapse in between or not; and that after a
lapse the policy judges only at earlier instants of the wall clock. What it does not
bound is the sum over several set-backs, because the code does not. The properties
recompute from the log what the counters should have said, so the invariant relates
the two: `CountInv` (the counted messages are the last ones of the log and all passed;
those before them lie before a trigger, before a lapse or outside the window),
`OrderInv` (the log follows the monotonic clock), `BlockInv` (a block lasts as long as
some trigger asks, and meanwhile nothing is counted) and `LapseInv` (the wall clock
never gains on the monotonic one, so that a policy seen expired has outlived its
block, and stays expired until the clock is set back). `CommitInv` and `ClearedInv` say which policies a
commit under way may publish. What the window drops is a prefix of the counted
events; the model writes it as the subsequence behind their number (`Recent`),
and `RecentIs` proves that this keeps exactly the events inside the window.

`EchoHooksProofs` proves of `EchoHooks`, for any hooks, conversations, callers,
failing calls, crashes and boots: `EchoTypes`, `ReceiptsAreTrue`
(`RemovedMeansGone`), `StoppedStaysStopped` (`StoppedHookStaysStopped`) and
`ActiveInstanceRuns` (`OnlyActiveInstanceRuns`). The invariant says when an id was
given to a row (`Given`; no id is given twice), what a caller may rely on after an
await (`CallerInv`: a row it deletes had its timer stopped if there was one), and
that a timer off the table was cancelled or has begun to run (`TimerInv`).

`HeartbeatProofs` proves of `Heartbeat`, for any leases, conversations, jobs, clocks,
failing calls, crashes and boots: `HeartbeatTypes`; `GateIsClean`
(`GateOpensClean`); `RevokedSleeps` (`RevokedNeverWakes`); and, for callers that
name only leases of their own conversation,

- `LeasesAreDriven`: `~ForeignIds => (Spec => []LeaseIsDriven)`.

The gate needs that every row of an earlier instance is still to be listed, to be
deleted or was counted as missed (`OpeningInv`); a removed lease only that its
template never comes back (`RevokedInv`), because handlers read the template before
they wake. `LeaseIsDriven` is about everything at once, and its invariant `Driving`
has ten parts. Its idea is the *term* of a lease (`Term`): the expiry it was
promised or, while its jobs are rewritten, the earlier of its old and new expiry. A
handler deletes only after the term (`TaskInv`, `HandlerSweepInv`), no row of a
lease ends before it (`RowInv`), the loops of the service delete drivers only of
the lease in hand or behind a closed gate (`ServiceSweepInv`), a rewrite replaces
every old job (`RewriteInv`), and `initialize` misses no lease that lives
(`InitializeInv`); beside them, an active service past its start has an open gate
(`GateInv`). All of it holds while no call of the cron has raised (`Calm`), as
`LeaseIsDriven` itself says; crashes, reloads and expiries count as ordinary steps.
The hypothesis `~ForeignIds` is needed: `disable` disarms a lease before anything
checks to whom it belongs (`ScopesAreIsolated` above).

Every invariant named here was model-checked before it was proved, on the instances
of the runs or larger ones.

The proofs assume what the modules state as `LimitAssumption`, `ServiceAssumption`,
`BoundAssumption`, `ReservationAssumption`, `PipelineAssumption`, `AccessAssumption`,
`AttentionAssumption`, `EchoAssumption` and `HeartbeatAssumption`, which TLC evaluates
in every run: limits, windows and bounds are numbers, a request names finitely many
targets, there is a conversation (an idle task of the model needs one to point at),
and the null values are outside the sets they extend.

Only model-checked are the liveness properties `CallsAreAnswered`,
`TerminateReturns`, `WaitersAreResolved`, `HooksAreSettled` and `DriversVanish`:
fairness and ENABLED are outside the prover. `NobodyIsForgotten` is the safety part
of `WaitersAreResolved`. Every other property of a passing run is the conclusion of
a theorem.

## 5. Not modelled, and why

- The quarantine of single invalid rows in every loader, and all input
  normalisation: per-row parsing without interaction with the rest. A document
  that cannot be decoded is a slot that cannot be read.
- The tools and web handlers of `main.py` between `authorize` and the mutation they
  call. `OperatorAccess` ends with the answer, the services begin with the call; in
  between the code awaits the session gate, so authority can end there. The code
  is exposed to that, and no document promises otherwise.
- A wall clock that goes back *across* instances in `LeaseService`, and one that
  goes back at all in `OperatorAccess` and `Heartbeat`: `wall` is monotonic there.
  Within an instance of the lease service `_effective_wall_time` guarantees it.
- Renewals of a heartbeat lease that straddle its expiry: the code loses the lease
  then although it answers ok, and `LeaseIsDriven` leaves them out.
- The heartbeat's `plugin_suspended` mark: with disabled templates only a listing
  reads it. `list` of access, attention and echo changes nothing.
- How long delays are, and more than one instance of the plugin in
  `ActivationPipeline`: its messages are those of one instance.
- Whether the host reloads the plugin only when no call is under way (`Drained`): it
  is assumed in `Access` and denied in `AccessReload`.
- The host cancelling the task of a caller, in `EchoHooks`, `Heartbeat`,
  `OperatorAccess` and `AttentionGuard`: their calls are answered or raise. (In
  `LeaseService`, the coordinator and the pipeline the host may cancel.) It matters most
  for `HooksAreSettled`: a `create` that is cancelled once its row is stored leaves the row
  without a timer, and a `cancel` that has stopped the timer leaves the row it was to
  delete, until the next load.
- Threads: `SlidingWindowCounters`, the guard and the coordinator take a short
  lock, and their operations are atomic steps here.
- `settings.py` (its values are the constants), `host_diagnostics.py` (a pure
  report), the operator page and the skill texts; metrics, health flags other than
  readiness, error texts.

## 6. Plan

1. Proofs: in `EchoHooks` the exact state that a reload leaves behind.
2. The tools composed with `OperatorAccess`, the gate and an abstract service.
3. A host wall clock that may go back across restarts in `LeaseService`.

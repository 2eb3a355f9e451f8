-------------------------- MODULE ActivationPipeline --------------------------
(***************************************************************************)
(* The way of a group message through the plugin (src/main.py): the two     *)
(* filters, the attention guard's handler, the handler that asks the        *)
(* reservation coordinator and the activation service, and the echo         *)
(* cancellation before the wake.  The coordinator is ActivationReservation; *)
(* of the activation service and of the attention guard only their answers  *)
(* are kept, which change at any time (LeaseService and AttentionGuard say  *)
(* how).  A handler suspends in the wait of reserve and in cancel_scope.    *)
(*                                                                         *)
(* The messages are those of one conversation and of one instance of the    *)
(* plugin, from its initialize to the end of its terminate.                 *)
(***************************************************************************)
EXTENDS ActivationReservation, Sequences

CONSTANTS
  Modes,     \* the values of settings.ignore_native_wake_mode
  MaxPlaces, \* the most places a sliding window has
  MaxChanges \* bound: how often the host, an operator or a clock changes what
             \* the handlers read

VARIABLES
  plugin,   \* _ACTIVE_PLUGIN, the readiness of the services, initialize and terminate
  disabled, \* the host's session_plugin_config disables the plugin here
  places,   \* how many messages of the key the activation service would admit now
  policies, \* what the attention service says of the key
  events,   \* the AstrMessageEvent of each message, and where it is
  changes,  \* the bounded changes so far
  taken     \* history: the places that decide has consumed

pipeline == <<vars, plugin, disabled, places, policies, events, changes, taken>>
inputs == <<disabled, places, policies, changes>>

ASSUME PipelineAssumption ==
  /\ Suspends = FALSE  \* no await between reserve and commit: src/main.py:888-903
  /\ Modes \subseteq {"extra_only", "suppress_llm", "stop_event"}
  /\ MaxPlaces \in Nat /\ MaxChanges \in Nat

(* The services that the handlers read, in the order in which initialize    *)
(* and terminate await them.  Of the others, access, echo and heartbeat,    *)
(* initialize and terminate await steps that the handlers do not notice.    *)
StartOrder == <<"leases", "attention">>
StopOrder == <<"attention", "leases">>
Services == {"leases", "attention"}

Event ==
  [place: {"new", "guard", "guard clears", "activate", "reserves", "clears", "done", "dropped"},
   key: Key \cup {NoKey}, native: BOOLEAN, wake: BOOLEAN, stopped: BOOLEAN,
   ignored: Modes \cup {"no"}, decision: BOOLEAN,
   open: BOOLEAN] \* history: the session was not disabled when the message came

NewEvent ==
  [place |-> "new", key |-> NoKey, native |-> FALSE, wake |-> FALSE, stopped |-> FALSE,
   ignored |-> "no", decision |-> FALSE,
   open |-> TRUE]

PipelineInit ==
  /\ Init
  /\ plugin = [phase |-> "starting", step |-> 0, ready |-> {}]
  /\ disabled \in BOOLEAN
  /\ places \in [Key -> 0 .. MaxPlaces]
  /\ policies \in [Key -> {"none", "passing", "ignoring"}]
  /\ events = [t \in Task |-> NewEvent]
  /\ changes = 0
  /\ taken = [k \in Key |-> 0]
----------------------------------------------------------------------------
(* The plugin: initialize and terminate.                                    *)

(* One service after the other.  One whose storage cannot be read stays     *)
(* inert, does not hold up the others, and answers as one without a lease   *)
(* or a policy.                                                             *)
InitializeService ==
  /\ LoopIsFree
  /\ plugin.phase = "starting" /\ plugin.step < Len(StartOrder)
  /\ plugin' = [plugin EXCEPT !.step = @ + 1,
                              !.ready = @ \cup {StartOrder[plugin.step + 1]}]
  /\ UNCHANGED <<vars, inputs, events, taken>>

(* The last lines of initialize.                                            *)
Publish ==
  /\ LoopIsFree
  /\ plugin.phase = "starting" /\ plugin.step = Len(StartOrder)
  /\ plugin' = [plugin EXCEPT !.phase = "active"]
  /\ UNCHANGED <<vars, inputs, events, taken>>

(* Deviation: the reservations are closed last, with the plugin's handle.   *)
TerminateOpen ==
  /\ LoopIsFree
  /\ plugin.phase = "active"
  /\ plugin' = [plugin EXCEPT !.phase = "stopping", !.step = 0]
  /\ UNCHANGED <<vars, inputs, events, taken>>

(* terminate up to its first await: the coordinator is closed before any    *)
(* service stops.                                                           *)
Terminate ==
  /\ plugin.phase = "active"
  /\ Close
  /\ plugin' = [plugin EXCEPT !.phase = "stopping", !.step = 0]
  /\ UNCHANGED <<inputs, events, taken>>

TerminateService ==
  /\ LoopIsFree
  /\ plugin.phase = "stopping" /\ plugin.step < Len(StopOrder)
  /\ plugin' = [plugin EXCEPT !.step = @ + 1, !.ready = @ \ {StopOrder[plugin.step + 1]}]
  /\ UNCHANGED <<vars, inputs, events, taken>>

Unpublish ==
  /\ LoopIsFree
  /\ plugin.phase = "stopping" /\ plugin.step = Len(StopOrder)
  /\ plugin' = [plugin EXCEPT !.phase = "stopped"]
  /\ UNCHANGED <<vars, inputs, events, taken>>

Published == plugin.phase \in {"active", "stopping"}
----------------------------------------------------------------------------
(* What the handlers read, and others change.                               *)

Change ==
  /\ LoopIsFree
  /\ changes < MaxChanges
  /\ changes' = changes + 1
  /\ \/ disabled' = ~disabled /\ UNCHANGED <<places, policies>>
     \/ \E k \in Key, n \in 0 .. MaxPlaces :
          places' = [places EXCEPT ![k] = n] /\ UNCHANGED <<disabled, policies>>
     \/ \E k \in Key, p \in {"none", "passing", "ignoring"} :
          policies' = [policies EXCEPT ![k] = p] /\ UNCHANGED <<disabled, places>>
  /\ UNCHANGED <<vars, plugin, events, taken>>

(* preview, and what decide answers.                                        *)
Admits(k) == "leases" \in plugin.ready /\ places[k] > 0

HasPolicy(k) == "attention" \in plugin.ready /\ policies[k] # "none"

Ignores(k) == "attention" \in plugin.ready /\ policies[k] = "ignoring"
----------------------------------------------------------------------------
(* The message.                                                             *)

(* Deviation: the filters do not ask the session gate.                      *)
LetInUngated(k, native) == Published /\ (native \/ Admits(k))

(* What both filters ask: AttentionGuardFilter asks for a policy besides.   *)
LetIn(k, native) == Published /\ ~disabled /\ (native \/ Admits(k))

Moves(t, event) == events' = [events EXCEPT ![t] = event]

(* The host runs every filter before the first handler, and only the        *)
(* handlers whose filters let the message pass.                             *)
Arrive(t, k, native) ==
  LET handler == CASE ~LetIn(k, native) -> "done"
                   [] LetIn(k, native) /\ HasPolicy(k) -> "guard"
                   [] OTHER -> "activate"
  IN  /\ LoopIsFree
      /\ events[t].place = "new"
      /\ now + MinInterval <= MaxTime
      /\ Moves(t, [NewEvent EXCEPT !.place = handler, !.key = k, !.native = native,
                                   !.wake = native, !.open = ~disabled])
      /\ UNCHANGED <<vars, plugin, inputs, taken>>

(* apply_attention_guard of an ignored message: the marker has the mode.     *)
(* The setting is one for all messages; here each may meet another, since   *)
(* no message depends on the mode that another one met.                     *)
Ignored(event, mode) ==
  LET marked == [event EXCEPT !.ignored = mode, !.place = "activate"]
  IN  CASE mode = "extra_only" ->
             IF event.wake THEN [marked EXCEPT !.place = "guard clears"] ELSE marked
        [] mode = "suppress_llm" -> [marked EXCEPT !.wake = FALSE]
        [] mode = "stop_event" -> [marked EXCEPT !.place = "done", !.stopped = TRUE]

ApplyGuard(t) ==
  LET event == events[t]
  IN  /\ LoopIsFree
      /\ event.place = "guard"
      /\ IF Ignores(event.key)
         THEN \E mode \in IF event.wake THEN Modes ELSE Modes \cap {"extra_only"} :
                Moves(t, Ignored(event, mode))
         ELSE Moves(t, [event EXCEPT !.place = "activate"])
      /\ UNCHANGED <<vars, plugin, inputs, taken>>

(* cancel_scope has returned or raised: both end the handler.               *)
GuardCleared(t) ==
  /\ LoopIsFree
  /\ events[t].place = "guard clears"
  /\ Moves(t, [events[t] EXCEPT !.place = "activate"])
  /\ UNCHANGED <<vars, plugin, inputs, taken>>

(* Deviation: the marker of the guard is not looked at.                     *)
BypassedUnmarked(event) == FALSE

(* activate_native_agent returns at once.                                   *)
Bypassed(event) == event.ignored # "no"

Bypass(t) ==
  /\ LoopIsFree
  /\ events[t].place = "activate" /\ Bypassed(events[t])
  /\ Moves(t, [events[t] EXCEPT !.place = "done"])
  /\ UNCHANGED <<vars, plugin, inputs, taken>>

(* A native wake: the message answers what the echo hooks waited for.       *)
ActivateNative(t) ==
  /\ LoopIsFree
  /\ events[t].place = "activate" /\ ~Bypassed(events[t]) /\ events[t].wake
  /\ Moves(t, [events[t] EXCEPT !.place = "clears"])
  /\ UNCHANGED <<vars, plugin, inputs, taken>>

(* reserve up to its wait.                                                  *)
ActivateExtra(t) ==
  /\ events[t].place = "activate" /\ ~Bypassed(events[t]) /\ ~events[t].wake
  /\ Reserve(t, events[t].key)
  /\ Moves(t, [events[t] EXCEPT !.place =
                 IF tasks'[t].step \in {"waiting", "permit"} THEN "reserves" ELSE "done"])
  /\ UNCHANGED <<plugin, inputs, taken>>

(* reserve after its wait.                                                  *)
Resume(t) ==
  /\ events[t].place = "reserves"
  /\ Wake(t)
  /\ Moves(t, [events[t] EXCEPT !.place =
                 IF tasks'[t].step = "permit" THEN "reserves" ELSE "done"])
  /\ UNCHANGED <<plugin, inputs, taken>>

(* decide and commit, in one step with the end of reserve.                  *)
Decide(t) ==
  LET k == events[t].key
  IN  /\ events[t].place = "reserves"
      /\ Commit(t)
      /\ tasks'[t].step \in {"stale", IF Admits(k) THEN "admitted" ELSE "rejected"}
      /\ IF Admits(k)
         THEN /\ places' = [places EXCEPT ![k] = @ - 1]
              /\ taken' = [taken EXCEPT ![k] = @ + 1]
         ELSE UNCHANGED <<places, taken>>
      /\ Moves(t, [events[t] EXCEPT !.place =
                     IF tasks'[t].step = "admitted" THEN "clears" ELSE "done"])
      /\ UNCHANGED <<plugin, disabled, policies, changes>>

(* cancel_scope has returned; a message that was not native wakes the agent *)
(* with its decision.                                                       *)
Cleared(t) ==
  LET event == events[t]
  IN  /\ LoopIsFree
      /\ event.place = "clears"
      /\ Moves(t, [event EXCEPT !.place = "done", !.wake = TRUE, !.decision = ~event.native])
      /\ UNCHANGED <<vars, plugin, inputs, taken>>

(* Deviation: a failed cancellation of the hooks stops the event.           *)
ClearingStops(t) ==
  /\ LoopIsFree
  /\ events[t].place = "clears"
  /\ Moves(t, [events[t] EXCEPT !.place = "done", !.stopped = TRUE])
  /\ UNCHANGED <<vars, plugin, inputs, taken>>

(* cancel_scope raises: the handler ends, and leaves the event as it was.   *)
ClearingFails(t) ==
  /\ LoopIsFree
  /\ events[t].place = "clears"
  /\ Moves(t, [events[t] EXCEPT !.place = "done"])
  /\ UNCHANGED <<vars, plugin, inputs, taken>>

(* The host cancels the task of the message while a handler is suspended.   *)
Drop(t) ==
  /\ LoopIsFree
  /\ \/ events[t].place \in {"guard clears", "clears"} /\ UNCHANGED vars
     \/ events[t].place = "reserves" /\ Cancel(t)
  /\ Moves(t, [events[t] EXCEPT !.place = "dropped"])
  /\ UNCHANGED <<plugin, inputs, taken>>

Handle(t) ==
  \/ ApplyGuard(t) \/ GuardCleared(t)
  \/ Bypass(t) \/ ActivateNative(t) \/ ActivateExtra(t) \/ Resume(t) \/ Decide(t)
  \/ Cleared(t) \/ ClearingFails(t)

(* Time passes.  Bound: the last instant at which a message may reserve is   *)
(* not left while one is on its way there.                                  *)
PassTime ==
  /\ Tick
  /\ now + MinInterval = MaxTime => \A t \in Task : events[t].place \notin {"guard", "activate"}
  /\ UNCHANGED <<plugin, inputs, events, taken>>

PipelineNext ==
  \/ PassTime
  \/ InitializeService \/ Publish \/ Terminate \/ TerminateService \/ Unpublish
  \/ Change
  \/ \E t \in Task :
       \/ \E k \in Key, native \in BOOLEAN : Arrive(t, k, native)
       \/ Handle(t) \/ Drop(t)

PipelineSpec == PipelineInit /\ [][PipelineNext]_pipeline
----------------------------------------------------------------------------
(* Every variable has its type, and a message is with the coordinator       *)
(* exactly while its handler is inside reserve.                             *)
PipelineTypeOK ==
  /\ TypeOK
  /\ plugin \in [phase: {"starting", "active", "stopping", "stopped"},
                 step: 0 .. Len(StartOrder), ready: SUBSET Services]
  /\ disabled \in BOOLEAN
  /\ places \in [Key -> 0 .. MaxPlaces]
  /\ policies \in [Key -> {"none", "passing", "ignoring"}]
  /\ events \in [Task -> Event]
  /\ changes \in 0 .. MaxChanges
  /\ taken \in [Key -> Nat]
  /\ \A t \in Task :
       /\ events[t].place = "reserves" <=> tasks[t].step \in {"waiting", "permit"}
       /\ tasks[t].step # "new" => tasks[t].key = events[t].key

(* The agent gets the message.                                              *)
Turn(t) == events[t].place = "done" /\ events[t].wake /\ ~events[t].stopped

(* The window and the interval agree: every place that a message took in    *)
(* its sliding window belongs to a message that was admitted and keeps its   *)
(* interval, and no message was admitted without one, whatever was          *)
(* superseded, closed or changed while it waited (src/main.py:888-915).     *)
PlacesAreActivations ==
  \A k \in Key :
    taken[k] = Cardinality({t \in Task : tasks[t].step = "admitted" /\ tasks[t].key = k})

(* What the guard ignores stays ignored: a message it marked never reaches  *)
(* the coordinator, is not woken by the plugin, and if it was a native wake *)
(* it reaches the agent in the mode extra_only alone.                       *)
IgnoredStaysIgnored ==
  \A t \in Task : events[t].ignored # "no" =>
    /\ tasks[t].step = "new"
    /\ ~events[t].decision
    /\ Turn(t) => events[t].native /\ events[t].ignored = "extra_only"

(* The plugin takes on messages only while it is up: from the first line of *)
(* terminate on none gets a place with the coordinator, none is admitted,   *)
(* and so none slips past a guard that has already stopped, although the    *)
(* filters go on and the services stop one after the other.                 *)
AdmitsOnlyWhileUp ==
  [][\A t \in Task :
       tasks'[t].step \in {"waiting", "permit", "admitted"} /\ tasks'[t].step # tasks[t].step =>
         plugin.phase = "active" /\ plugin.ready = Services]_pipeline

(* A message of a session that disables the plugin is left alone, whatever  *)
(* is enabled, triggered or stopped later: nothing marks it, reserves for   *)
(* it or wakes the agent for it, and a native wake stays one                *)
(* (src/README.md:342).                                                     *)
DisabledSessionIsLeftAlone ==
  \A t \in Task : events[t].place # "new" /\ ~events[t].open =>
    /\ tasks[t].step = "new"
    /\ events[t].ignored = "no" /\ ~events[t].decision
    /\ events[t].wake = events[t].native /\ ~events[t].stopped

(* A native wake is never blocked: when its handlers are through it reaches *)
(* the agent, whatever failed, changed or stopped on its way, unless the    *)
(* guard ignored it in a mode that suppresses it (src/README.md:345).       *)
NativeReachesAgent ==
  \A t \in Task :
    events[t].place = "done" /\ events[t].native =>
      Turn(t) \/ events[t].ignored \in {"suppress_llm", "stop_event"}
=============================================================================

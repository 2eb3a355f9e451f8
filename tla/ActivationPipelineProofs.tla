----------------------- MODULE ActivationPipelineProofs -----------------------
(***************************************************************************)
(* What TLAPS proves of ActivationPipeline for any keys, messages, slots    *)
(* and interval: main.py uses the coordinator as the coordinator's theorems *)
(* assume, so that they hold of the whole pipeline; the window's places are *)
(* the activations; and what the guard, the session gate and terminate      *)
(* decide about a message is not undone later.                              *)
(***************************************************************************)
EXTENDS ActivationPipeline, ActivationReservationProofs, FiniteSetTheorems

OnItsWay == {"guard", "guard clears", "activate"}

(* What holds of a message, wherever it is.                                 *)
MessageInv(t) ==
  LET event == events[t]
  IN  /\ event.place # "new" => event.key \in Key
      /\ tasks[t].step # "new" => tasks[t].key = event.key
      /\ event.place \in {"new"} \cup OnItsWay => tasks[t].step = "new"
      /\ event.place \in {"new", "guard", "reserves", "clears"} => event.ignored = "no"
      /\ event.place # "done" => ~event.decision /\ ~event.stopped
      /\ event.place \in {"guard", "guard clears"} => event.wake = event.native
      /\ event.place = "reserves" => tasks[t].step \in {"waiting", "permit"}
      /\ event.place = "clears" /\ tasks[t].step = "new" => event.native
      /\ tasks[t].step = "new" /\ event.wake => event.native
      /\ event.place \in OnItsWay \cup {"reserves"} => plugin.phase # "starting"
      /\ event.ignored # "no" =>
           /\ tasks[t].step = "new" /\ ~event.decision
           /\ event.wake /\ ~event.stopped => event.ignored = "extra_only"
      /\ ~event.open =>
           /\ event.place = "done" /\ tasks[t].step = "new" /\ event.ignored = "no"
           /\ ~event.decision /\ ~event.stopped /\ event.wake = event.native
      /\ event.place \notin {"new", "dropped"} /\ event.native =>
           (event.wake /\ ~event.stopped) \/ event.ignored \in {"suppress_llm", "stop_event"}

(* The services come up before the plugin is published, and the coordinator *)
(* is closed from the first line of terminate on.                           *)
Plugin ==
  [phase: {"starting", "active", "stopping", "stopped"}, step: Nat, ready: SUBSET Services]

PluginInv ==
  /\ plugin \in Plugin
  /\ closed <=> plugin.phase \in {"stopping", "stopped"}
  /\ plugin.phase = "starting" /\ plugin.step >= 1 => "leases" \in plugin.ready
  /\ plugin.phase = "starting" /\ plugin.step = 2 => "attention" \in plugin.ready
  /\ plugin.phase = "active" => plugin.ready = Services

PipelineInv ==
  /\ Inv
  /\ events \in [Task -> Event]
  /\ PluginInv
  /\ \A t \in Task : MessageInv(t)
----------------------------------------------------------------------------
(* What the coordinator's calls do to the steps of the messages.            *)

(* reserve up to its wait concerns its own message alone.                   *)
LEMMA ReserveMoves ==
  ASSUME TypeOK, NEW t \in Task, NEW k \in Key, Reserve(t, k)
  PROVE  /\ \A u \in Task \ {t} : tasks'[u].step = tasks[u].step /\ tasks'[u].key = tasks[u].key
         /\ tasks'[t].step \in {"shutdown", "inert", "permit", "waiting"}
         /\ tasks'[t].key = k
         /\ closed' = closed
         /\ tasks'[t].step \in {"permit", "waiting"} => ~closed
<1>1. tasks \in [Task -> TaskRecord]
  BY DEF TypeOK
<1> DEFINE pruned == Prune(slots)
           slot == [(IF pruned[k] = NoSlot THEN NewSlot ELSE pruned[k])
                      EXCEPT !.generation = @ + 1]
<1>2. /\ Permit(k, slot, slot.generation).step = "permit"
      /\ Permit(k, slot, slot.generation).key = k
  BY DEF Permit, NewTask
<1>3. Waiter(k, slot).step = "waiting" /\ Waiter(k, slot).key = k
  BY DEF Waiter, NewTask
<1>4. /\ Supersede(slot) \in [Task -> TaskRecord]
      /\ \A u \in Task : /\ Supersede(slot)[u].step = tasks[u].step
                         /\ Supersede(slot)[u].key = tasks[u].key
  BY <1>1 DEF Supersede, TaskRecord
<1>5. closed' = closed
  BY DEF Reserve
<1>6. CASE closed /\ tasks' = [tasks EXCEPT ![t].step = "shutdown", ![t].key = k]
  BY <1>1, <1>5, <1>6 DEF TaskRecord
<1>7. CASE tasks' = [tasks EXCEPT ![t].step = "inert", ![t].key = k]
  BY <1>1, <1>5, <1>7 DEF TaskRecord
<1>8. CASE ~closed /\ tasks' = [tasks EXCEPT ![t] = Permit(k, slot, slot.generation)]
  BY <1>1, <1>2, <1>5, <1>8
<1>9. CASE ~closed /\ tasks' = [Supersede(slot) EXCEPT ![t] = Waiter(k, slot)]
  BY <1>1, <1>3, <1>4, <1>5, <1>9
<1> QED
  BY <1>6, <1>7, <1>8, <1>9 DEF Reserve

(* The same of reserve after its wait.                                      *)
LEMMA WakeMoves ==
  ASSUME TypeOK, NEW t \in Task, Wake(t)
  PROVE  /\ \A u \in Task \ {t} : tasks'[u].step = tasks[u].step /\ tasks'[u].key = tasks[u].key
         /\ tasks'[t].step \in {"shutdown", "superseded", "permit"}
         /\ tasks'[t].key = tasks[t].key
         /\ closed' = closed
         /\ tasks'[t].step = "permit" => ~closed
<1>1. tasks \in [Task -> TaskRecord]
  BY DEF TypeOK
<1>2. \A outcome : Ends(t, outcome) =>
        /\ \A u \in Task \ {t} : tasks'[u] = tasks[u]
        /\ tasks'[t].step = outcome /\ tasks'[t].key = tasks[t].key
  BY <1>1 DEF Ends, NewTask
<1>3. \A slot, g : /\ Permit(tasks[t].key, slot, g).step = "permit"
                   /\ Permit(tasks[t].key, slot, g).key = tasks[t].key
  BY DEF Permit, NewTask
<1> QED
  BY <1>1, <1>2, <1>3 DEF Wake

(* commit ends its message, and while the handlers do not suspend it finds  *)
(* the claim of its permit.                                                 *)
LEMMA CommitMoves ==
  ASSUME Inv, NEW t \in Task, Commit(t)
  PROVE  /\ \A u \in Task \ {t} : tasks'[u].step = tasks[u].step /\ tasks'[u].key = tasks[u].key
         /\ tasks'[t].step \in {"admitted", "rejected"}
         /\ tasks'[t].key = tasks[t].key
         /\ tasks[t].step = "permit"
         /\ closed' = closed /\ ~closed
<1>1. tasks \in [Task -> TaskRecord]
  BY DEF Inv, TypeOK
<1>2. \A outcome : Ends(t, outcome) =>
        /\ \A u \in Task \ {t} : tasks'[u] = tasks[u]
        /\ tasks'[t].step = outcome /\ tasks'[t].key = tasks[t].key
  BY <1>1 DEF Ends, NewTask
<1>3. tasks[t].step = "permit" /\ closed' = closed
  BY DEF Commit
<1>4. ~closed /\ slots[tasks[t].key] # NoSlot
      /\ slots[tasks[t].key].claimed = tasks[t].generation
  BY <1>3 DEF Inv, PermitsHold, HasPermit
<1> QED
  BY <1>2, <1>3, <1>4 DEF Commit

(* The end of a waiting message, and close.                                 *)
LEMMA CancelMoves ==
  ASSUME TypeOK, NEW t \in Task, Cancel(t)
  PROVE  /\ \A u \in Task \ {t} : tasks'[u].step = tasks[u].step /\ tasks'[u].key = tasks[u].key
         /\ tasks'[t].step = "cancelled" /\ tasks'[t].key = tasks[t].key
         /\ closed' = closed
BY DEF Cancel, Ends, NewTask, TypeOK

(* close moves no message, and comes while no permit is out.                *)
LEMMA CloseMoves ==
  ASSUME TypeOK, Close
  PROVE  /\ \A u \in Task : tasks'[u].step = tasks[u].step /\ tasks'[u].key = tasks[u].key
         /\ closed' = TRUE
         /\ \A u \in Task : tasks[u].step # "permit"
<1>1. \A u \in Task : tasks[u].step # "permit"
  BY PipelineAssumption DEF Close, LoopIsFree
<1> QED
  BY <1>1 DEF Close, TypeOK, TaskRecord
----------------------------------------------------------------------------
(* The steps of the pipeline.                                               *)

(* The invariant holds at the start.                                        *)
LEMMA PipelineStarts == PipelineInit => PipelineInv
<1> SUFFICES ASSUME PipelineInit PROVE PipelineInv
  OBVIOUS
<1>1. Inv
  BY InvInit DEF PipelineInit
<1>2. NewEvent \in Event
  BY DEF NewEvent, Event
<1>3. events \in [Task -> Event] /\ \A t \in Task : events[t] = NewEvent
  BY <1>2 DEF PipelineInit
<1>4. \A t \in Task : tasks[t].step = "new"
  BY DEF PipelineInit, Init, NewTask
<1>5. ASSUME NEW t \in Task PROVE MessageInv(t)
  <2>1. /\ events[t].place = "new" /\ ~events[t].native /\ ~events[t].wake
        /\ ~events[t].stopped /\ events[t].ignored = "no" /\ ~events[t].decision
        /\ events[t].open
    BY <1>3 DEF NewEvent
  <2>2. tasks[t].step = "new"
    BY <1>4
  <2> QED
    BY <2>1, <2>2 DEF MessageInv, OnItsWay
<1>6. PluginInv
  BY DEF PipelineInit, Init, PluginInv, Plugin
<1> QED
  BY <1>1, <1>3, <1>5, <1>6 DEF PipelineInv

(* Every step of the pipeline is one of the coordinator, or none.           *)
LEMMA PipelineStep == PipelineInv /\ [PipelineNext]_pipeline => [Next]_vars
<1> SUFFICES ASSUME PipelineInv, [PipelineNext]_pipeline PROVE [Next]_vars
  OBVIOUS
<1>1. CASE PassTime
  BY <1>1 DEF PassTime, Next
<1>2. CASE InitializeService \/ Publish \/ TerminateService \/ Unpublish \/ Change
  BY <1>2 DEF InitializeService, Publish, TerminateService, Unpublish, Change
<1>3. CASE Terminate
  BY <1>3 DEF Terminate, Next
<1>4. ASSUME NEW t \in Task, NEW k \in Key, NEW native \in BOOLEAN, Arrive(t, k, native)
      PROVE  [Next]_vars
  BY <1>4 DEF Arrive
<1>5. ASSUME NEW t \in Task, Handle(t) PROVE [Next]_vars
  <2>1. CASE ActivateExtra(t)
    <3>1. events[t].key \in Key
      BY <2>1 DEF PipelineInv, MessageInv, ActivateExtra
    <3> QED
      BY <2>1, <3>1 DEF ActivateExtra, Next
  <2>2. CASE Resume(t)
    BY <2>2 DEF Resume, Next
  <2>3. CASE Decide(t)
    BY <2>3 DEF Decide, Next
  <2>4. CASE \/ ApplyGuard(t) \/ GuardCleared(t) \/ Bypass(t) \/ ActivateNative(t)
             \/ Cleared(t) \/ ClearingFails(t)
    BY <2>4 DEF ApplyGuard, GuardCleared, Bypass, ActivateNative, Cleared, ClearingFails
  <2> QED
    BY <1>5, <2>1, <2>2, <2>3, <2>4 DEF Handle
<1>6. ASSUME NEW t \in Task, Drop(t) PROVE [Next]_vars
  BY <1>6 DEF Drop, Next
<1>7. CASE UNCHANGED pipeline
  BY <1>7 DEF pipeline
<1> QED
  BY <1>1, <1>2, <1>3, <1>4, <1>5, <1>6, <1>7 DEF PipelineNext

(* A step that concerns one message keeps the invariant if that message     *)
(* keeps its part of it.                                                    *)
LEMMA OneMessage ==
  ASSUME PipelineInv, Inv', NEW t \in Task, NEW event \in Event, Moves(t, event),
         \A u \in Task \ {t} : tasks'[u].step = tasks[u].step /\ tasks'[u].key = tasks[u].key,
         plugin' = plugin, closed' = closed, MessageInv(t)'
  PROVE  PipelineInv'
<1>1. events \in [Task -> Event]
  BY DEF PipelineInv
<1>2. events' \in [Task -> Event] /\ \A u \in Task \ {t} : events'[u] = events[u]
  BY <1>1 DEF Moves
<1>3. ASSUME NEW u \in Task, u # t PROVE MessageInv(u)'
  <2>1. MessageInv(u)
    BY DEF PipelineInv
  <2> QED
    BY <1>2, <1>3, <2>1 DEF MessageInv
<1>4. PluginInv'
  BY DEF PipelineInv, PluginInv
<1> QED
  BY <1>2, <1>3, <1>4 DEF PipelineInv

(* A step that moves no message keeps the invariant if the plugin keeps its *)
(* part and does not start anew.                                            *)
LEMMA NoMessage ==
  ASSUME PipelineInv, Inv', PluginInv', events' = events,
         \A u \in Task : tasks'[u].step = tasks[u].step /\ tasks'[u].key = tasks[u].key,
         plugin.phase # "starting" => plugin'.phase # "starting"
  PROVE  PipelineInv'
<1>1. ASSUME NEW u \in Task PROVE MessageInv(u)'
  <2>1. MessageInv(u)
    BY DEF PipelineInv
  <2> QED
    BY <2>1 DEF MessageInv
<1> QED
  BY <1>1 DEF PipelineInv

(* The coordinator's invariant goes on in every step of the pipeline.       *)
LEMMA CoordinatorKeepsInv == PipelineInv /\ [PipelineNext]_pipeline => Inv'
<1> SUFFICES ASSUME PipelineInv, [PipelineNext]_pipeline PROVE Inv'
  OBVIOUS
<1>1. Inv /\ [Next]_vars
  BY PipelineStep DEF PipelineInv
<1>2. ~Suspends
  BY PipelineAssumption
<1> QED
  BY <1>1, <1>2, InvNext

(* A message arrives.                                                       *)
LEMMA ArriveKeeps ==
  ASSUME PipelineInv, Inv', NEW t \in Task, NEW k \in Key, NEW native \in BOOLEAN,
         Arrive(t, k, native)
  PROVE  PipelineInv'
<1>1. events \in [Task -> Event] /\ MessageInv(t)
  BY DEF PipelineInv
<1>2. events[t].place = "new" /\ UNCHANGED <<vars, plugin, inputs, taken>>
  BY DEF Arrive
<1>3. tasks[t].step = "new" /\ tasks' = tasks /\ closed' = closed /\ plugin' = plugin
  BY <1>1, <1>2 DEF MessageInv, OnItsWay, vars
<1>4. PICK handler \in {"done", "guard", "activate"} :
        /\ ~LetIn(k, native) => handler = "done"
        /\ Moves(t, [NewEvent EXCEPT !.place = handler, !.key = k, !.native = native,
                                     !.wake = native, !.open = ~disabled])
  BY DEF Arrive
<1> DEFINE event == [NewEvent EXCEPT !.place = handler, !.key = k, !.native = native,
                                     !.wake = native, !.open = ~disabled]
<1>5. /\ event.place = handler /\ event.key = k /\ event.native = native
      /\ event.wake = native /\ event.open = ~disabled /\ event.ignored = "no"
      /\ event.decision = FALSE /\ event.stopped = FALSE
  BY DEF NewEvent
<1>6. event \in Event
  BY DEF NewEvent, Event
<1>7. events'[t] = event
  BY <1>1, <1>4 DEF Moves
<1>8. handler # "done" => ~disabled /\ plugin.phase # "starting"
  BY <1>4 DEF LetIn, Published
<1>9. MessageInv(t)'
  BY <1>3, <1>5, <1>7, <1>8 DEF MessageInv, OnItsWay
<1> QED
  BY <1>3, <1>4, <1>6, <1>9, OneMessage

(* The guard's handler marks the message, or lets it pass.                  *)
LEMMA ApplyGuardKeeps ==
  ASSUME PipelineInv, Inv', NEW t \in Task, ApplyGuard(t)
  PROVE  PipelineInv'
<1> DEFINE old == events[t]
<1>1. events \in [Task -> Event] /\ MessageInv(t) /\ old \in Event
  BY DEF PipelineInv
<1>2. old.place = "guard" /\ UNCHANGED <<vars, plugin, inputs, taken>>
  BY DEF ApplyGuard
<1>3. tasks[t].step = "new" /\ tasks' = tasks /\ closed' = closed /\ plugin' = plugin
  BY <1>1, <1>2 DEF MessageInv, OnItsWay, vars
<1>4. /\ old.key \in Key /\ old.ignored = "no" /\ ~old.decision /\ ~old.stopped
      /\ old.wake = old.native /\ old.open /\ plugin.phase # "starting"
  BY <1>1, <1>2 DEF MessageInv, OnItsWay
<1>5. CASE Moves(t, [old EXCEPT !.place = "activate"])
  <2> DEFINE event == [old EXCEPT !.place = "activate"]
  <2>1. event \in Event /\ events'[t] = event
    BY <1>1, <1>5 DEF Moves, Event
  <2>2. /\ event.place = "activate" /\ event.key = old.key /\ event.native = old.native
        /\ event.wake = old.wake /\ event.stopped = old.stopped /\ event.open = old.open
        /\ event.ignored = old.ignored /\ event.decision = old.decision
    BY <1>1 DEF Event
  <2>3. MessageInv(t)'
    BY <1>3, <1>4, <2>1, <2>2 DEF MessageInv, OnItsWay
  <2> QED
    BY <1>3, <1>5, <2>1, <2>3, OneMessage
<1>6. ASSUME NEW mode \in Modes, old.wake \/ mode = "extra_only", Moves(t, Ignored(old, mode))
      PROVE  PipelineInv'
  <2> DEFINE event == Ignored(old, mode)
  <2>1. mode \in {"extra_only", "suppress_llm", "stop_event"}
    BY PipelineAssumption
  <2>2. /\ event \in Event /\ event.key = old.key /\ event.native = old.native
        /\ event.ignored = mode /\ event.decision = old.decision /\ event.open = old.open
    BY <1>1, <2>1 DEF Ignored, Event
  <2>3. \/ /\ mode = "extra_only" /\ event.wake = old.wake /\ event.stopped = old.stopped
           /\ event.place \in {"guard clears", "activate"}
        \/ /\ mode = "suppress_llm" /\ event.wake = FALSE /\ event.stopped = old.stopped
           /\ event.place = "activate"
        \/ /\ mode = "stop_event" /\ event.place = "done" /\ event.stopped = TRUE
           /\ event.wake = old.wake
    BY <1>1, <2>1 DEF Ignored, Event
  <2>4. events'[t] = event
    BY <1>1, <1>6 DEF Moves
  <2>5. MessageInv(t)'
    BY <1>3, <1>4, <1>6, <2>1, <2>2, <2>3, <2>4 DEF MessageInv, OnItsWay
  <2> HIDE DEF event
  <2> QED
    BY <1>3, <1>6, <2>2, <2>5, OneMessage DEF event
<1> QED
  BY <1>5, <1>6 DEF ApplyGuard

(* The steps of the handlers that do not call the coordinator.              *)
LEMMA HandlerKeeps ==
  ASSUME PipelineInv, Inv', NEW t \in Task,
         \/ GuardCleared(t) \/ Bypass(t) \/ ActivateNative(t) \/ Cleared(t) \/ ClearingFails(t)
  PROVE  PipelineInv'
<1> DEFINE old == events[t]
<1>1. events \in [Task -> Event] /\ MessageInv(t) /\ old \in Event
  BY DEF PipelineInv
<1>2. tasks' = tasks /\ closed' = closed /\ plugin' = plugin
  BY DEF GuardCleared, Bypass, ActivateNative, Cleared, ClearingFails, vars
<1>3. old.place \in {"guard clears", "activate", "clears"}
  BY DEF GuardCleared, Bypass, ActivateNative, Cleared, ClearingFails
<1>4. old.key \in Key /\ ~old.decision /\ ~old.stopped /\ old.open
  BY <1>1, <1>3 DEF MessageInv
<1>5. ASSUME NEW place \in {"activate", "clears", "done"}, Moves(t, [old EXCEPT !.place = place]),
             place = "activate" => old.place = "guard clears",
             place = "clears" => old.place = "activate" /\ old.wake /\ old.ignored = "no"
      PROVE  PipelineInv'
  <2> DEFINE event == [old EXCEPT !.place = place]
  <2>1. event \in Event /\ events'[t] = event
    BY <1>1, <1>5 DEF Moves, Event
  <2>2. /\ event.place = place /\ event.key = old.key /\ event.native = old.native
        /\ event.wake = old.wake /\ event.stopped = old.stopped /\ event.open = old.open
        /\ event.ignored = old.ignored /\ event.decision = old.decision
    BY <1>1 DEF Event
  <2>3. MessageInv(t)'
    BY <1>1, <1>2, <1>3, <1>4, <1>5, <2>1, <2>2 DEF MessageInv, OnItsWay
  <2> QED
    BY <1>2, <1>5, <2>1, <2>3, OneMessage
<1>6. CASE GuardCleared(t)
  BY <1>5, <1>6 DEF GuardCleared
<1>7. CASE Bypass(t) \/ ClearingFails(t)
  BY <1>5, <1>7 DEF Bypass, ClearingFails
<1>8. CASE ActivateNative(t)
  BY <1>5, <1>8 DEF ActivateNative, Bypassed
<1>9. CASE Cleared(t)
  <2> DEFINE event == [old EXCEPT !.place = "done", !.wake = TRUE, !.decision = ~old.native]
  <2>1. event \in Event /\ events'[t] = event /\ Moves(t, event)
    BY <1>1, <1>9 DEF Cleared, Moves, Event
  <2>2. /\ event.place = "done" /\ event.key = old.key /\ event.native = old.native
        /\ event.wake = TRUE /\ event.stopped = old.stopped /\ event.open = old.open
        /\ event.ignored = old.ignored
    BY <1>1 DEF Event
  <2>3. /\ old.place = "clears" /\ old.ignored = "no" /\ (tasks[t].step = "new" => old.native)
        /\ tasks[t].step # "new" => tasks[t].key = old.key
    BY <1>1, <1>9 DEF Cleared, MessageInv
  <2>4. MessageInv(t)'
    BY <1>2, <1>4, <2>1, <2>2, <2>3 DEF MessageInv, OnItsWay
  <2> QED
    BY <1>2, <2>1, <2>4, OneMessage
<1> QED
  BY <1>6, <1>7, <1>8, <1>9

(* The calls of the coordinator, and the end of a suspended handler.        *)
LEMMA CallKeeps ==
  ASSUME PipelineInv, Inv', NEW t \in Task,
         ActivateExtra(t) \/ Resume(t) \/ Decide(t) \/ Drop(t)
  PROVE  PipelineInv'
<1> DEFINE old == events[t]
<1>1. events \in [Task -> Event] /\ MessageInv(t) /\ old \in Event /\ Inv /\ TypeOK
  BY DEF PipelineInv, Inv
<1>2. plugin' = plugin
  BY DEF ActivateExtra, Resume, Decide, Drop
<1>3. old.place \in {"guard clears", "activate", "reserves", "clears"}
  BY DEF ActivateExtra, Resume, Decide, Drop
<1>4. old.key \in Key /\ ~old.decision /\ ~old.stopped /\ old.open
  BY <1>1, <1>3 DEF MessageInv
<1>5. ASSUME NEW place \in {"reserves", "clears", "done", "dropped"},
             Moves(t, [old EXCEPT !.place = place]), closed' = closed,
             \A u \in Task \ {t} : tasks'[u].step = tasks[u].step /\ tasks'[u].key = tasks[u].key,
             tasks'[t].step # "new" => tasks'[t].key = old.key,
             place = "dropped" \/ (old.ignored = "no" /\ tasks'[t].step # "new"),
             place = "reserves" =>
               tasks'[t].step \in {"waiting", "permit"} /\ plugin.phase # "starting",
             tasks'[t].step = tasks[t].step \/ (old.ignored = "no" /\ tasks'[t].step # "new")
      PROVE  PipelineInv'
  <2> DEFINE event == [old EXCEPT !.place = place]
  <2>1. event \in Event /\ events'[t] = event
    BY <1>1, <1>5 DEF Moves, Event
  <2>2. /\ event.place = place /\ event.key = old.key /\ event.native = old.native
        /\ event.wake = old.wake /\ event.stopped = old.stopped /\ event.open = old.open
        /\ event.ignored = old.ignored /\ event.decision = old.decision
    BY <1>1 DEF Event
  <2>3. MessageInv(t)'
    BY <1>1, <1>2, <1>3, <1>4, <1>5, <2>1, <2>2 DEF MessageInv, OnItsWay
  <2> QED
    BY <1>2, <1>5, <2>1, <2>3, OneMessage
<1>6. CASE ActivateExtra(t)
  <2>1. /\ \A u \in Task \ {t} : tasks'[u].step = tasks[u].step /\ tasks'[u].key = tasks[u].key
        /\ tasks'[t].step \in {"shutdown", "inert", "permit", "waiting"}
        /\ tasks'[t].key = old.key
        /\ closed' = closed
    BY <1>1, <1>4, <1>6, ReserveMoves DEF ActivateExtra
  <2>2. old.ignored = "no" /\ plugin.phase # "starting"
    BY <1>1, <1>6 DEF ActivateExtra, Bypassed, MessageInv, OnItsWay
  <2>3. PICK place \in {"reserves", "done"} :
          /\ Moves(t, [old EXCEPT !.place = place])
          /\ place = "reserves" => tasks'[t].step \in {"waiting", "permit"}
    BY <1>6 DEF ActivateExtra
  <2> QED
    BY <1>5, <2>1, <2>2, <2>3
<1>7. CASE Resume(t)
  <2>1. /\ \A u \in Task \ {t} : tasks'[u].step = tasks[u].step /\ tasks'[u].key = tasks[u].key
        /\ tasks'[t].step \in {"shutdown", "superseded", "permit"}
        /\ tasks'[t].key = tasks[t].key
        /\ closed' = closed
    BY <1>1, <1>7, WakeMoves DEF Resume
  <2>2. old.ignored = "no" /\ plugin.phase # "starting" /\ tasks[t].key = old.key
    BY <1>1, <1>7 DEF Resume, MessageInv, OnItsWay
  <2>3. PICK place \in {"reserves", "done"} :
          /\ Moves(t, [old EXCEPT !.place = place])
          /\ place = "reserves" => tasks'[t].step \in {"waiting", "permit"}
    BY <1>7 DEF Resume
  <2> QED
    BY <1>5, <2>1, <2>2, <2>3
<1>8. CASE Decide(t)
  <2>1. /\ \A u \in Task \ {t} : tasks'[u].step = tasks[u].step /\ tasks'[u].key = tasks[u].key
        /\ tasks'[t].step \in {"admitted", "rejected"}
        /\ tasks'[t].key = tasks[t].key
        /\ closed' = closed
    BY <1>1, <1>8, CommitMoves DEF Decide
  <2>2. old.ignored = "no" /\ tasks[t].key = old.key
    BY <1>1, <1>8 DEF Decide, MessageInv
  <2>3. PICK place \in {"clears", "done"} : Moves(t, [old EXCEPT !.place = place])
    BY <1>8 DEF Decide
  <2> QED
    BY <1>5, <2>1, <2>2, <2>3
<1>9. CASE Drop(t)
  <2>1. Moves(t, [old EXCEPT !.place = "dropped"])
    BY <1>9 DEF Drop
  <2>2. CASE UNCHANGED vars
    <3>1. tasks' = tasks /\ closed' = closed /\ (tasks[t].step # "new" => tasks[t].key = old.key)
      BY <1>1, <2>2 DEF MessageInv, vars
    <3> QED
      BY <1>5, <2>1, <3>1
  <2>3. CASE old.place = "reserves" /\ Cancel(t)
    <3>1. /\ \A u \in Task \ {t} : tasks'[u].step = tasks[u].step /\ tasks'[u].key = tasks[u].key
          /\ tasks'[t].step = "cancelled" /\ tasks'[t].key = tasks[t].key /\ closed' = closed
      BY <1>1, <2>3, CancelMoves
    <3>2. old.ignored = "no" /\ tasks[t].key = old.key
      BY <1>1, <2>3 DEF MessageInv
    <3> QED
      BY <1>5, <2>1, <3>1, <3>2
  <2> QED
    BY <1>9, <2>2, <2>3 DEF Drop
<1> QED
  BY <1>6, <1>7, <1>8, <1>9

(* The plugin comes up, and terminates.                                     *)
LEMMA PluginKeeps ==
  ASSUME PipelineInv, Inv',
         InitializeService \/ Publish \/ Terminate \/ TerminateService \/ Unpublish
  PROVE  PipelineInv'
<1>1. PluginInv /\ TypeOK
  BY DEF PipelineInv, Inv
<1>2. events' = events
  BY DEF InitializeService, Publish, Terminate, TerminateService, Unpublish
<1>3. Len(StartOrder) = 2 /\ Len(StopOrder) = 2
  BY DEF StartOrder, StopOrder
<1>4. StartOrder[1] = "leases" /\ StartOrder[2] = "attention"
  BY DEF StartOrder
<1>5. CASE InitializeService
  <2>1. /\ plugin.phase = "starting" /\ plugin.step \in {0, 1} /\ UNCHANGED vars
        /\ plugin' = [plugin EXCEPT !.step = @ + 1,
                                    !.ready = @ \cup {StartOrder[plugin.step + 1]}]
    BY <1>1, <1>3, <1>5 DEF InitializeService, PluginInv, Plugin
  <2>2. StartOrder[plugin.step + 1] = IF plugin.step = 0 THEN "leases" ELSE "attention"
    BY <1>4, <2>1
  <2> DEFINE ready == plugin.ready \cup {IF plugin.step = 0 THEN "leases" ELSE "attention"}
  <2>0. ready \in SUBSET Services /\ plugin.step + 1 \in Nat
    BY <1>1, <2>1 DEF PluginInv, Plugin, Services
  <2>6. plugin' = [plugin EXCEPT !.step = @ + 1, !.ready = ready]
    BY <2>1, <2>2
  <2> HIDE DEF ready
  <2>3. /\ plugin'.phase = "starting" /\ plugin'.step = plugin.step + 1
        /\ plugin'.ready = ready /\ plugin' \in Plugin
    BY <1>1, <2>0, <2>1, <2>6 DEF PluginInv, Plugin
  <2>4. closed' = closed /\ tasks' = tasks
    BY <2>1 DEF vars
  <2>5. PluginInv'
    BY <1>1, <2>1, <2>3, <2>4 DEF PluginInv, Plugin, ready
  <2> QED
    BY <1>2, <2>1, <2>4, <2>5, NoMessage
<1>6. CASE Publish
  <2>1. /\ plugin.phase = "starting" /\ plugin.step = 2 /\ UNCHANGED vars
        /\ plugin' = [plugin EXCEPT !.phase = "active"]
    BY <1>3, <1>6 DEF Publish
  <2>2. closed' = closed /\ tasks' = tasks
    BY <2>1 DEF vars
  <2>3. /\ plugin'.phase = "active" /\ plugin'.ready = plugin.ready
        /\ plugin' \in Plugin
    BY <1>1, <2>1 DEF PluginInv, Plugin
  <2>4. plugin.ready = Services /\ ~closed
    BY <1>1, <2>1 DEF PluginInv, Plugin, Services
  <2>5. PluginInv'
    BY <2>2, <2>3, <2>4 DEF PluginInv
  <2> QED
    BY <1>2, <2>1, <2>2, <2>3, <2>5, NoMessage
<1>7. CASE Terminate
  <2>1. /\ Close /\ plugin' = [plugin EXCEPT !.phase = "stopping", !.step = 0]
    BY <1>7 DEF Terminate
  <2>2. closed' /\ \A u \in Task : tasks'[u].step = tasks[u].step /\ tasks'[u].key = tasks[u].key
    BY <1>1, <2>1, CloseMoves
  <2>3. /\ plugin'.phase = "stopping"
        /\ plugin' \in Plugin
    BY <1>1, <2>1 DEF PluginInv, Plugin
  <2>4. PluginInv'
    BY <2>2, <2>3 DEF PluginInv
  <2> QED
    BY <1>2, <2>2, <2>3, <2>4, NoMessage
<1>8. CASE TerminateService \/ Unpublish
  <2>1. /\ plugin.phase = "stopping" /\ UNCHANGED vars
        /\ plugin'.phase \in {"stopping", "stopped"}
        /\ plugin' \in Plugin
    <3>1. CASE TerminateService
      <4> DEFINE ready == plugin.ready \ {StopOrder[plugin.step + 1]}
      <4>1. /\ plugin.phase = "stopping" /\ UNCHANGED vars
            /\ plugin' = [plugin EXCEPT !.step = @ + 1, !.ready = ready]
        BY <3>1 DEF TerminateService
      <4>2. ready \in SUBSET Services
        BY <1>1 DEF PluginInv, Plugin
      <4> HIDE DEF ready
      <4>3. plugin \in Plugin
        BY <1>1 DEF PluginInv
      <4>4. plugin'.phase = plugin.phase
        BY <4>1, <4>3 DEF Plugin
      <4>5. plugin.step + 1 \in Nat
        BY <4>3 DEF Plugin
      <4>6. plugin' \in Plugin
        BY <4>1, <4>2, <4>3, <4>5 DEF Plugin
      <4> QED
        BY <4>1, <4>4, <4>6
    <3>2. CASE Unpublish
      BY <1>1, <3>2 DEF Unpublish, PluginInv, Plugin
    <3> QED
      BY <1>8, <3>1, <3>2
  <2>2. closed' = closed /\ tasks' = tasks
    BY <2>1 DEF vars
  <2>3. PluginInv'
    BY <1>1, <2>1, <2>2 DEF PluginInv
  <2> QED
    BY <1>2, <2>1, <2>2, <2>3, NoMessage
<1> QED
  BY <1>5, <1>6, <1>7, <1>8

(* The invariant is inductive.                                              *)
LEMMA PipelineInvNext == PipelineInv /\ [PipelineNext]_pipeline => PipelineInv'
<1> SUFFICES ASSUME PipelineInv, [PipelineNext]_pipeline PROVE PipelineInv'
  OBVIOUS
<1>1. Inv'
  BY CoordinatorKeepsInv
<1>2. CASE PassTime \/ Change \/ UNCHANGED pipeline
  <2>1. events' = events /\ plugin' = plugin /\ closed' = closed /\ tasks' = tasks
    BY <1>2 DEF PassTime, Tick, Change, pipeline, vars
  <2>2. PluginInv'
    BY <2>1 DEF PipelineInv, PluginInv
  <2> QED
    BY <1>1, <2>1, <2>2, NoMessage
<1>3. CASE InitializeService \/ Publish \/ Terminate \/ TerminateService \/ Unpublish
  BY <1>1, <1>3, PluginKeeps
<1>4. ASSUME NEW t \in Task, NEW k \in Key, NEW native \in BOOLEAN, Arrive(t, k, native)
      PROVE  PipelineInv'
  BY <1>1, <1>4, ArriveKeeps
<1>5. ASSUME NEW t \in Task, Handle(t) PROVE PipelineInv'
  BY <1>1, <1>5, ApplyGuardKeeps, HandlerKeeps, CallKeeps DEF Handle
<1>6. ASSUME NEW t \in Task, Drop(t) PROVE PipelineInv'
  BY <1>1, <1>6, CallKeeps
<1> QED
  BY <1>2, <1>3, <1>4, <1>5, <1>6 DEF PipelineNext
----------------------------------------------------------------------------
(* What follows from the invariant.                                         *)

(* The pipeline uses the coordinator as its interface allows, without       *)
(* suspending between reserve and commit (activate_native_agent,            *)
(* src/main.py:888-903).                                                    *)
THEOREM PipelineUsesCoordinator == PipelineSpec => Spec
<1>1. PipelineInit => Init
  BY DEF PipelineInit
<1> QED
  BY <1>1, PipelineStarts, PipelineInvNext, PipelineStep, PTL DEF PipelineSpec, Spec

(* So the minimum interval between two activations of a key holds of the    *)
(* plugin as a whole.                                                       *)
THEOREM PipelineRespectsInterval == PipelineSpec => []IntervalRespected
<1>1. ~Suspends
  BY PipelineAssumption
<1> QED
  BY <1>1, PipelineUsesCoordinator, IntervalAlwaysRespected, PTL

(* And no message that is rejected, superseded or dropped uses up the       *)
(* interval of its key.                                                     *)
THEOREM PipelinePaysForIntervals == PipelineSpec => []IntervalIsPaidFor
<1>1. ~Suspends
  BY PipelineAssumption
<1> QED
  BY <1>1, PipelineUsesCoordinator, OnlyActivationsUseUpIntervals, PTL

(* The handlers of the plugin turn a message away for want of a slot only   *)
(* while MaxSlots keys are in use (src/activation_reservation.py:121-128).  *)
THEOREM PipelineIsInertOnlyWhenBusy ==
  ASSUME IsFiniteSet(Task) PROVE PipelineSpec => InertOnlyWhenBusy
<1>1. ~Suspends
  BY PipelineAssumption
<1>2. Spec => InertOnlyWhenBusy
  BY <1>1, NobodyIsTurnedAwayInVain
<1> QED
  BY <1>2, PipelineUsesCoordinator, PTL

(* A message that the guard ignored stays ignored, in every interleaving    *)
(* with changes, failures and terminate (apply_attention_guard,             *)
(* src/main.py:843-874).                                                    *)
THEOREM PipelineKeepsIgnored == PipelineSpec => []IgnoredStaysIgnored
<1>1. PipelineInv => IgnoredStaysIgnored
  <2> SUFFICES ASSUME PipelineInv, NEW t \in Task, events[t].ignored # "no"
      PROVE  /\ tasks[t].step = "new"
             /\ ~events[t].decision
             /\ Turn(t) => events[t].native /\ events[t].ignored = "extra_only"
    BY DEF IgnoredStaysIgnored
  <2>1. MessageInv(t)
    BY DEF PipelineInv
  <2> QED
    BY <2>1 DEF MessageInv, Turn
<1> QED
  BY <1>1, PipelineStarts, PipelineInvNext, PTL DEF PipelineSpec

(* A message of a disabled session is left alone for good, whatever is      *)
(* enabled or triggered later (the filters, src/main.py:304-366).           *)
THEOREM PipelineLeavesDisabled == PipelineSpec => []DisabledSessionIsLeftAlone
<1>1. PipelineInv => DisabledSessionIsLeftAlone
  BY DEF PipelineInv, MessageInv, DisabledSessionIsLeftAlone
<1> QED
  BY <1>1, PipelineStarts, PipelineInvNext, PTL DEF PipelineSpec

(* A native wake whose handlers are through reaches the agent, unless the   *)
(* guard suppressed it; also when the cancellation of the echo hooks fails  *)
(* (activate_native_agent, src/main.py:876-925).                            *)
THEOREM PipelinePassesNative == PipelineSpec => []NativeReachesAgent
<1>1. PipelineInv => NativeReachesAgent
  BY DEF PipelineInv, MessageInv, NativeReachesAgent, Turn
<1> QED
  BY <1>1, PipelineStarts, PipelineInvNext, PTL DEF PipelineSpec

(* From the first line of terminate on no message gets a place with the     *)
(* coordinator and none is admitted (terminate, src/main.py:480-503).       *)
THEOREM PipelineAdmitsWhileUp == PipelineSpec => AdmitsOnlyWhileUp
<1> DEFINE Taken(t) == tasks'[t].step \in {"waiting", "permit", "admitted"}
                         /\ tasks'[t].step # tasks[t].step
           Up == plugin.phase = "active" /\ plugin.ready = Services
<1>1. ASSUME PipelineInv, [PipelineNext]_pipeline, NEW t \in Task, Taken(t) PROVE Up
  <2>1. Inv /\ TypeOK /\ PluginInv /\ \A u \in Task : MessageInv(u)
    BY <1>1 DEF PipelineInv, Inv
  <2>2. ~closed /\ plugin.phase # "starting" => Up
    BY <2>1 DEF PluginInv, Plugin
  <2>3. ASSUME NEW u \in Task, ActivateExtra(u) PROVE Up
    <3>1. events[u].key \in Key /\ plugin.phase # "starting"
      BY <2>1, <2>3 DEF MessageInv, ActivateExtra, OnItsWay
    <3>2. /\ \A v \in Task \ {u} : tasks'[v].step = tasks[v].step
          /\ tasks'[u].step \in {"shutdown", "inert", "permit", "waiting"}
          /\ tasks'[u].step \in {"permit", "waiting"} => ~closed
      BY <2>1, <2>3, <3>1, ReserveMoves DEF ActivateExtra
    <3> QED
      BY <1>1, <2>2, <3>1, <3>2
  <2>4. ASSUME NEW u \in Task, Resume(u) PROVE Up
    <3>1. plugin.phase # "starting"
      BY <2>1, <2>4 DEF MessageInv, Resume
    <3>2. /\ \A v \in Task \ {u} : tasks'[v].step = tasks[v].step
          /\ tasks'[u].step \in {"shutdown", "superseded", "permit"}
          /\ tasks'[u].step = "permit" => ~closed
      BY <2>1, <2>4, WakeMoves DEF Resume
    <3> QED
      BY <1>1, <2>2, <3>1, <3>2
  <2>5. ASSUME NEW u \in Task, Decide(u) PROVE Up
    <3>1. plugin.phase # "starting"
      BY <2>1, <2>5 DEF MessageInv, Decide
    <3>2. ~closed
      BY <2>1, <2>5, CommitMoves DEF Decide
    <3> QED
      BY <2>2, <3>1, <3>2
  <2>6. ASSUME NEW u \in Task, Drop(u) PROVE Up
    <3>1. CASE UNCHANGED vars
      BY <1>1, <3>1 DEF vars
    <3>2. CASE Cancel(u)
      BY <1>1, <2>1, <3>2, CancelMoves
    <3> QED
      BY <2>6, <3>1, <3>2 DEF Drop
  <2>7. CASE Terminate
    BY <1>1, <2>1, <2>7, CloseMoves DEF Terminate
  <2>8. CASE tasks' = tasks
    BY <1>1, <2>8
  <2>9. ASSUME NEW u \in Task, \/ ApplyGuard(u) \/ GuardCleared(u) \/ Bypass(u) \/ ActivateNative(u)
                               \/ Cleared(u) \/ ClearingFails(u)
        PROVE  tasks' = tasks
    BY <2>9 DEF ApplyGuard, GuardCleared, Bypass, ActivateNative, Cleared, ClearingFails, vars
  <2>10. ASSUME NEW u \in Task, NEW k \in Key, NEW native \in BOOLEAN, Arrive(u, k, native)
         PROVE  tasks' = tasks
    BY <2>10 DEF Arrive, vars
  <2>11. CASE \/ PassTime \/ InitializeService \/ Publish \/ TerminateService \/ Unpublish
              \/ Change \/ UNCHANGED pipeline
    BY <2>8, <2>11 DEF PassTime, Tick, InitializeService, Publish, TerminateService, Unpublish,
       Change, pipeline, vars
  <2>12. ASSUME NEW u \in Task, Handle(u) PROVE Up
    BY <2>3, <2>4, <2>5, <2>8, <2>9, <2>12 DEF Handle
  <2> QED
    BY <1>1, <2>6, <2>7, <2>8, <2>10, <2>11, <2>12 DEF PipelineNext
<1>2. PipelineInv /\ [PipelineNext]_pipeline =>
        [\A t \in Task : Taken(t) => Up]_pipeline
  BY <1>1
<1> QED
  BY <1>2, PipelineStarts, PipelineInvNext, PTL DEF PipelineSpec, AdmitsOnlyWhileUp

(* Places and activations.                                                  *)
AdmittedOf(k) == {t \in Task : tasks[t].step = "admitted" /\ tasks[t].key = k}

PlacesInv == taken \in [Key -> Nat] /\ PlacesAreActivations

(* Steps that admit no message, and leave the admitted ones, keep the count.*)
LEMMA NoneAdmitted ==
  ASSUME PlacesInv, taken' = taken,
         \A u \in Task : \/ tasks'[u].step = tasks[u].step /\ tasks'[u].key = tasks[u].key
                         \/ tasks[u].step # "admitted" /\ tasks'[u].step # "admitted"
  PROVE  PlacesInv'
<1>1. \A k \in Key : AdmittedOf(k)' = AdmittedOf(k)
  BY DEF AdmittedOf
<1> QED
  BY <1>1 DEF PlacesInv, PlacesAreActivations, AdmittedOf

(* A decision takes a place if and only if it admits its message.           *)
LEMMA DecideCounts ==
  ASSUME IsFiniteSet(Task), PipelineInv, PlacesInv, NEW t \in Task, Decide(t)
  PROVE  PlacesInv'
<1>1. Inv /\ MessageInv(t)
  BY DEF PipelineInv
<1>2. /\ \A u \in Task \ {t} : tasks'[u].step = tasks[u].step /\ tasks'[u].key = tasks[u].key
      /\ tasks'[t].step \in {"admitted", "rejected"}
      /\ tasks'[t].key = tasks[t].key /\ tasks[t].step = "permit"
  BY <1>1, CommitMoves DEF Decide
<1>3. PICK key \in Key : events[t].key = key /\ tasks[t].key = key
  BY <1>1, <1>2 DEF MessageInv, Decide
<1>4. CASE ~Admits(key)
  <2>1. taken' = taken /\ tasks'[t].step = "rejected"
    BY <1>2, <1>3, <1>4 DEF Decide
  <2> QED
    BY <1>2, <2>1, NoneAdmitted
<1>5. CASE Admits(key)
  <2>1. tasks'[t].step = "admitted" /\ taken' = [taken EXCEPT ![key] = @ + 1]
    BY <1>2, <1>3, <1>5 DEF Decide
  <2>2. AdmittedOf(key)' = AdmittedOf(key) \cup {t} /\ t \notin AdmittedOf(key)
    BY <1>2, <1>3, <2>1 DEF AdmittedOf
  <2>3. \A k \in Key \ {key} : AdmittedOf(k)' = AdmittedOf(k)
    BY <1>2, <1>3, <2>1 DEF AdmittedOf
  <2>4. IsFiniteSet(AdmittedOf(key))
    BY FS_Subset DEF AdmittedOf
  <2>5. Cardinality(AdmittedOf(key)') = Cardinality(AdmittedOf(key)) + 1
    BY <2>2, <2>4, FS_AddElement
  <2>6. taken \in [Key -> Nat] /\ \A k \in Key : taken[k] = Cardinality(AdmittedOf(k))
    BY DEF PlacesInv, PlacesAreActivations, AdmittedOf
  <2>7. taken' \in [Key -> Nat]
    BY <1>3, <2>1, <2>6
  <2>8. ASSUME NEW k \in Key PROVE taken'[k] = Cardinality(AdmittedOf(k)')
    <3>1. CASE k = key
      <4>1. taken'[key] = taken[key] + 1 /\ taken[key] = Cardinality(AdmittedOf(key))
        BY <1>3, <2>1, <2>6
      <4> QED
        BY <2>5, <3>1, <4>1
    <3>2. CASE k # key
      BY <2>1, <2>3, <2>6, <3>2
    <3> QED
      BY <3>1, <3>2
  <2> QED
    BY <2>7, <2>8 DEF PlacesInv, PlacesAreActivations, AdmittedOf
<1> QED
  BY <1>4, <1>5

(* The other steps admit nobody.                                            *)
LEMMA PlacesInvNext ==
  ASSUME IsFiniteSet(Task) PROVE PipelineInv /\ PlacesInv /\ [PipelineNext]_pipeline => PlacesInv'
<1> SUFFICES ASSUME PipelineInv, PlacesInv, [PipelineNext]_pipeline PROVE PlacesInv'
  OBVIOUS
<1>1. Inv /\ TypeOK /\ \A u \in Task : MessageInv(u)
  BY DEF PipelineInv, Inv
<1>2. CASE tasks' = tasks /\ taken' = taken
  BY <1>2, NoneAdmitted
<1>3. ASSUME NEW t \in Task, ActivateExtra(t) PROVE PlacesInv'
  <2>1. events[t].key \in Key /\ tasks[t].step = "new" /\ taken' = taken
    BY <1>1, <1>3 DEF MessageInv, ActivateExtra, OnItsWay
  <2>2. /\ \A u \in Task \ {t} : tasks'[u].step = tasks[u].step /\ tasks'[u].key = tasks[u].key
        /\ tasks'[t].step \in {"shutdown", "inert", "permit", "waiting"}
    BY <1>1, <1>3, <2>1, ReserveMoves DEF ActivateExtra
  <2> QED
    BY <2>1, <2>2, NoneAdmitted
<1>4. ASSUME NEW t \in Task, Resume(t) PROVE PlacesInv'
  <2>1. tasks[t].step = "waiting" /\ taken' = taken
    BY <1>4 DEF Resume, Wake, Waiting
  <2>2. /\ \A u \in Task \ {t} : tasks'[u].step = tasks[u].step /\ tasks'[u].key = tasks[u].key
        /\ tasks'[t].step \in {"shutdown", "superseded", "permit"}
    BY <1>1, <1>4, WakeMoves DEF Resume
  <2> QED
    BY <2>1, <2>2, NoneAdmitted
<1>5. ASSUME NEW t \in Task, Cancel(t), taken' = taken PROVE PlacesInv'
  <2>1. tasks[t].step = "waiting"
    BY <1>5 DEF Cancel, Waiting
  <2>2. /\ \A u \in Task \ {t} : tasks'[u].step = tasks[u].step /\ tasks'[u].key = tasks[u].key
        /\ tasks'[t].step = "cancelled"
    BY <1>1, <1>5, CancelMoves
  <2> QED
    BY <1>5, <2>1, <2>2, NoneAdmitted
<1>6. ASSUME NEW t \in Task, Drop(t) PROVE PlacesInv'
  BY <1>2, <1>5, <1>6 DEF Drop, vars
<1>7. CASE Terminate
  <2>1. taken' = taken
    BY <1>7 DEF Terminate
  <2> QED
    BY <1>1, <1>7, <2>1, CloseMoves, NoneAdmitted DEF Terminate
<1>8. ASSUME NEW t \in Task, Handle(t) PROVE PlacesInv'
  <2>1. CASE Decide(t)
    BY <2>1, DecideCounts
  <2>2. CASE \/ ApplyGuard(t) \/ GuardCleared(t) \/ Bypass(t) \/ ActivateNative(t)
             \/ Cleared(t) \/ ClearingFails(t)
    BY <1>2, <2>2 DEF ApplyGuard, GuardCleared, Bypass, ActivateNative, Cleared, ClearingFails, vars
  <2> QED
    BY <1>3, <1>4, <1>8, <2>1, <2>2 DEF Handle
<1>9. ASSUME NEW t \in Task, NEW k \in Key, NEW native \in BOOLEAN, Arrive(t, k, native)
      PROVE  PlacesInv'
  BY <1>2, <1>9 DEF Arrive, vars
<1>10. CASE \/ PassTime \/ InitializeService \/ Publish \/ TerminateService \/ Unpublish
            \/ Change \/ UNCHANGED pipeline
  BY <1>2, <1>10 DEF PassTime, Tick, InitializeService, Publish, TerminateService, Unpublish,
     Change, pipeline, vars
<1> QED
  BY <1>6, <1>7, <1>8, <1>9, <1>10 DEF PipelineNext

(* No place of a sliding window is taken for a message that was not         *)
(* admitted, and none is admitted without one, whatever was superseded,     *)
(* closed or changed while it waited (src/main.py:888-915).                 *)
THEOREM PipelineCountsPlaces ==
  ASSUME IsFiniteSet(Task) PROVE PipelineSpec => []PlacesAreActivations
<1>1. PipelineInit => PlacesInv
  <2> SUFFICES ASSUME PipelineInit PROVE PlacesInv
    OBVIOUS
  <2>1. \A k \in Key : AdmittedOf(k) = {}
    BY DEF PipelineInit, Init, NewTask, AdmittedOf
  <2>2. \A k \in Key : taken[k] = Cardinality(AdmittedOf(k))
    BY <2>1, FS_EmptySet DEF PipelineInit
  <2> QED
    BY <2>2 DEF PipelineInit, PlacesInv, PlacesAreActivations, AdmittedOf
<1>2. PlacesInv => PlacesAreActivations
  BY DEF PlacesInv
<1> QED
  BY <1>1, <1>2, PlacesInvNext, PipelineStarts, PipelineInvNext, PTL DEF PipelineSpec
=============================================================================

---------------------------- MODULE EchoHooksProofs ----------------------------
(***************************************************************************)
(* What TLAPS proves of EchoHooks for any number of hooks, sessions and     *)
(* tool calls, of failing scheduler calls, deaths and boots: the types, the *)
(* truth of a receipt, and who may start the agent.                         *)
(***************************************************************************)
EXTENDS EchoHooks, TLAPS

(* The id was given to a row: once so, it is never given to another.        *)
Given(h) ==
  \/ timers[h].step # "none"
  \/ h \in lost
  \/ \E c \in Caller : callers[c].step = "added" /\ callers[c].hook = h

(* The timer cannot come to run the hook any more.                          *)
Stopped(h) == timers[h].cancelled \/ timers[h].step \in {"deleting", "cleaning", "ended"}

(* Until it runs a timer is on the table or has been cancelled; in its      *)
(* preflight it belongs to the active instance, or has been cancelled.      *)
TimerInv(h) ==
  /\ timers[h].step = "none" => ~timers[h].cancelled
  /\ timers[h].step \in {"sleeping", "checking"} => timers[h].cancelled \/ timers[h].listed
  /\ timers[h].step = "checking" => timers[h].cancelled \/ Active(timers[h].instance)

(* What a task remembers over an await: a row just added has no timer yet,  *)
(* and nobody else has it; a row that is being deleted had its timer        *)
(* stopped if there was one on the table.                                   *)
CallerInv(c) ==
  LET caller == callers[c]
  IN  /\ caller.step = "listing" => caller.scope \in Scope
      /\ caller.step = "added" =>
           /\ caller.hook \in Hook /\ timers[caller.hook].step = "none"
           /\ \A d \in Caller : callers[d].step = "added" /\ callers[d].hook = caller.hook => d = c
      /\ caller.step = "deleting" =>
           /\ caller.hook \in Hook /\ Given(caller.hook)
           /\ caller.armed => Stopped(caller.hook)
      /\ \A h \in caller.todo \cup caller.made : Given(h)
      /\ \/ caller.step \in {"checking", "adding", "added"}
         \/ caller.op = "create" /\ caller.step = "listing"
         => caller.left # 0

ReceiptsInv ==
  \A t \in told :
    /\ Given(t.hook)
    /\ t.removed => t.hook \notin Rows
    /\ t.armed => Stopped(t.hook)

Inv ==
  /\ TypeOK
  /\ \A h \in Hook : TimerInv(h)
  /\ \A c \in Caller : CallerInv(c)
  /\ \A h \in Rows : Given(h)
  /\ ReceiptsInv
----------------------------------------------------------------------------
(* Types.                                                                   *)

Instances ==
  [phase: {"off", "listing", "starting", "active", "inert", "gathering", "purging", "stopped"},
   instance: 0 .. MaxBoots, todo: SUBSET Hook]

(* A fresh timer and a fresh task have their types.                         *)
LEMMA FreshTypes ==
  /\ NoTimer \in TimerRecord
  /\ [NoTimer EXCEPT !.step = "ended"] \in TimerRecord
  /\ IdleCaller \in CallerRecord
  /\ \A c : Done(c) \in CallerRecord
BY DEF NoTimer, TimerRecord, IdleCaller, CallerRecord, Done

(* A call of the scheduler that raises stays within the bound.              *)
LEMMA FaultType ==
  ASSUME TypeOK, MayFault, Fault
  PROVE  mishaps' \in 0 .. MaxMishaps
BY EchoAssumption DEF TypeOK, MayFault, Fault

(* A delete is believed only if the row has gone, and raises only within    *)
(* the bound.                                                               *)
LEMMA DeleteResultsAre ==
  ASSUME NEW result \in DeleteResults
  PROVE  /\ result.ok \in BOOLEAN /\ result.gone \in BOOLEAN
         /\ result.ok => result.gone
         /\ ~result.ok => MayFault
<1>1. \/ result = [gone |-> TRUE, ok |-> TRUE]
      \/ MayFault /\ result = [gone |-> TRUE, ok |-> FALSE]
      \/ MayFault /\ result = [gone |-> FALSE, ok |-> FALSE]
  BY DEF DeleteResults
<1>2. \/ result.gone = TRUE /\ result.ok = TRUE
      \/ MayFault /\ result.gone = TRUE /\ result.ok = FALSE
      \/ MayFault /\ result.gone = FALSE /\ result.ok = FALSE
  BY <1>1
<1> QED
  BY <1>2

(* Deleting a row keeps the types.                                          *)
LEMMA DeleteType ==
  ASSUME TypeOK, NEW i, NEW h \in Hook, NEW result \in DeleteResults, Delete(i, h, result)
  PROVE  /\ rows' \in [Hook -> Scope \cup {NoScope}]
         /\ mishaps' \in 0 .. MaxMishaps
         /\ quarantined' \subseteq Hook
<1>1. ~result.ok => MayFault
  BY DeleteResultsAre
<1>2. result.ok \/ Fault
  BY DEF Delete
<1>3. mishaps' \in 0 .. MaxMishaps
  BY <1>1, <1>2, FaultType DEF Delete, TypeOK
<1> QED
  BY <1>3 DEF Delete, Quarantine, TypeOK

(* The steps of a timer keep the types.                                     *)
LEMMA TimerTypes ==
  ASSUME TypeOK, NEW h \in Hook, TimerStep(h)
  PROVE  TypeOK'
<1> USE FreshTypes
<1>1. CASE Fire(h)
  BY <1>1 DEF Fire, EndTimer, TypeOK, TimerRecord, NoTimer
<1>2. CASE Suppress(h)
  BY <1>2 DEF Suppress, StartDeleting, TypeOK, TimerRecord
<1>3. CASE Run(h)
  BY <1>3 DEF Run, TypeOK, TimerRecord
<1>4. CASE Finish(h)
  <2>1. PICK failed \in BOOLEAN : StartDeleting(h, failed)
    BY <1>4 DEF Finish
  <2> QED
    BY <1>4, <2>1 DEF Finish, StartDeleting, TypeOK, TimerRecord
<1>5. CASE Interrupted(h)
  BY <1>5 DEF Interrupted, StartDeleting, EndTimer, TypeOK, TimerRecord, NoTimer
<1>6. CASE DeleteOwn(h)
  <2>1. PICK result \in DeleteResults :
          \/ /\ rows' \in {[rows EXCEPT ![h] = NoScope], rows}
             /\ IF result.ok THEN UNCHANGED mishaps ELSE Fault
             /\ Quarantine(timers[h].instance, h)
             /\ timers' = [timers EXCEPT ![h].step = "cleaning"]
          \/ Delete(timers[h].instance, h, result) /\ EndTimer(h)
    BY <1>6 DEF DeleteOwn
  <2>2. mishaps' \in 0 .. MaxMishaps
    BY <2>1, FaultType, DeleteType, DeleteResultsAre DEF TypeOK
  <2>3. rows' \in [Hook -> Scope \cup {NoScope}] /\ quarantined' \subseteq Hook
    BY <2>1, DeleteType DEF Quarantine, TypeOK
  <2>4. /\ timers' \in [Hook -> TimerRecord]
        /\ \A g \in Hook : timers'[g].listed => timers'[g].step \in {"sleeping", "checking", "running"}
    BY <1>6, <2>1 DEF DeleteOwn, EndTimer, TypeOK, TimerRecord, NoTimer
  <2> QED
    BY <1>6, <2>2, <2>3, <2>4 DEF DeleteOwn, TypeOK
<1>7. CASE CleanUp(h)
  BY <1>7, DeleteType DEF CleanUp, EndTimer, TypeOK, NoTimer
<1> QED
  BY <1>1, <1>2, <1>3, <1>4, <1>5, <1>6, <1>7 DEF TimerStep

(* The steps of a tool call or of a handler keep the types.                 *)
LEMMA CallerTypes ==
  ASSUME TypeOK, NEW c \in Caller, CallerInv(c), CallerStep(c)
  PROVE  TypeOK'
<1>0. Done(c) \in CallerRecord /\ callers[c] \in CallerRecord /\ callers \in [Caller -> CallerRecord]
  BY FreshTypes DEF TypeOK
<1>1. CASE List(c)
  <2> DEFINE found == {h \in callers[c].wanted : rows[h] = callers[c].scope}
  <2>1. found \subseteq Hook
    BY DEF TypeOK, CallerRecord
  <2>2. Fits(callers[c]) \in BOOLEAN
    BY DEF Fits
  <2>3. /\ [callers[c] EXCEPT !.step = "checking", !.fits = Fits(callers[c])] \in CallerRecord
        /\ [callers[c] EXCEPT !.step = "popping", !.todo = found, !.wanted = {}] \in CallerRecord
    BY <1>0, <2>1, <2>2 DEF CallerRecord
  <2>4. callers' \in [Caller -> CallerRecord]
    BY <1>0, <1>1, <2>3 DEF List
  <2> QED
    BY <1>1, <2>4 DEF List, TypeOK
<1>2. CASE ListFails(c)
  <2>1. callers' \in [Caller -> CallerRecord]
    BY <1>0, <1>2 DEF ListFails
  <2> QED
    BY <1>2, <2>1, FaultType DEF ListFails, TypeOK
<1>3. CASE CheckCapacity(c)
  <2>1. [callers[c] EXCEPT !.step = "adding", !.fits = FALSE] \in CallerRecord
    BY <1>0 DEF CallerRecord
  <2>2. callers' \in [Caller -> CallerRecord]
    BY <1>0, <1>3, <2>1 DEF CheckCapacity
  <2> QED
    BY <1>3, <2>2 DEF CheckCapacity, TypeOK
<1>4. CASE DeleteRow(c)
  <2>1. PICK result \in DeleteResults :
          /\ Delete(callers[c].instance, callers[c].hook, result)
          /\ told' = IF callers[c].op = "cancel"
                     THEN told \cup {[hook |-> callers[c].hook, removed |-> result.ok,
                                      armed |-> callers[c].armed]}
                     ELSE told
    BY <1>4 DEF DeleteRow
  <2>2. callers[c].hook \in Hook /\ callers[c].armed \in BOOLEAN /\ result.ok \in BOOLEAN
    <3>1. callers[c].hook \in Hook
      BY <1>4 DEF DeleteRow, CallerInv
    <3>2. callers[c].armed \in BOOLEAN
      BY <1>0 DEF CallerRecord
    <3> QED
      BY <3>1, <3>2, DeleteResultsAre
  <2>3. /\ rows' \in [Hook -> Scope \cup {NoScope}]
        /\ mishaps' \in 0 .. MaxMishaps
        /\ quarantined' \subseteq Hook
    BY <2>1, <2>2, DeleteType
  <2>4. told' \subseteq [hook: Hook, removed: BOOLEAN, armed: BOOLEAN]
    BY <2>1, <2>2 DEF TypeOK
  <2>5. callers' \in [Caller -> CallerRecord]
    <3>1. [callers[c] EXCEPT !.step = "popping", !.hook = NoHook, !.armed = FALSE] \in CallerRecord
      BY <1>0 DEF CallerRecord
    <3> QED
      BY <1>0, <1>4, <3>1 DEF DeleteRow
  <2> QED
    BY <1>4, <2>3, <2>4, <2>5 DEF DeleteRow, TypeOK
<1>5. CASE AddFails(c)
  <2>1. callers' \in [Caller -> CallerRecord]
    <3>1. [callers[c] EXCEPT !.step = "popping", !.todo = callers[c].made, !.hook = NoHook]
            \in CallerRecord
      BY <1>0 DEF CallerRecord
    <3> QED
      BY <1>0, <1>5, <3>1 DEF AddFails, Undo
  <2>2. lost' \subseteq Hook
    BY <1>5 DEF AddFails, CallerInv, TypeOK
  <2> QED
    BY <1>5, <2>1, <2>2, FaultType DEF AddFails, TypeOK
<1>6. CASE Arm(c)
  <2>1. callers[c].hook \in Hook /\ callers[c].left \in Nat \ {0} /\ callers[c].instance \in Nat
    BY <1>6 DEF Arm, CallerInv, TypeOK, CallerRecord
  <2>2. /\ timers' \in [Hook -> TimerRecord]
        /\ \A h \in Hook : timers'[h].listed => timers'[h].step \in {"sleeping", "checking", "running"}
    BY <1>6, <2>1 DEF Arm, TypeOK, TimerRecord, NoTimer
  <2>3. callers' \in [Caller -> CallerRecord]
    <3> DEFINE h == callers[c].hook
               next == [callers[c] EXCEPT !.step = "adding", !.left = @ - 1, !.hook = NoHook,
                                          !.made = @ \cup {h}]
    <3>1. CASE callers[c].left = 1
      BY <1>0, <1>6, <3>1 DEF Arm
    <3>2. CASE callers[c].left # 1
      <4>1. callers[c].left - 1 \in Nat /\ callers[c].made \cup {h} \in SUBSET Hook
        BY <1>0, <2>1, <3>2 DEF CallerRecord
      <4>2. next \in CallerRecord
        BY <1>0, <4>1 DEF CallerRecord
      <4>3. callers' = [callers EXCEPT ![c] = next]
        BY <1>6, <3>2 DEF Arm
      <4> QED
        BY <1>0, <4>2, <4>3
    <3> QED
      BY <3>1, <3>2
  <2> QED
    BY <1>6, <2>2, <2>3 DEF Arm, TypeOK
<1>7. ASSUME NEW h \in Hook, Add(c, h) PROVE TypeOK'
  <2>1. callers' \in [Caller -> CallerRecord]
    BY <1>7 DEF Add, TypeOK, CallerRecord
  <2>2. rows' \in [Hook -> Scope \cup {NoScope}]
    BY <1>7 DEF Add, TypeOK, CallerRecord
  <2> QED
    BY <1>7, <2>1, <2>2 DEF Add, TypeOK
<1>8. ASSUME NEW h \in Hook, PopTimer(c, h) PROVE TypeOK'
  <2>1. timers[h] \in TimerRecord /\ OnTable(timers[h], callers[c].instance) \in BOOLEAN
    BY DEF TypeOK, OnTable, TimerRecord
  <2>2. callers' \in [Caller -> CallerRecord]
    BY <1>8, <2>1 DEF PopTimer, TypeOK, CallerRecord
  <2>3. /\ timers' \in [Hook -> TimerRecord]
        /\ \A g \in Hook : timers'[g].listed => timers'[g].step \in {"sleeping", "checking", "running"}
    BY <1>8, <2>1 DEF PopTimer, Stop, TypeOK, TimerRecord
  <2> QED
    BY <1>8, <2>2, <2>3 DEF PopTimer, TypeOK
<1> QED
  BY <1>1, <1>2, <1>3, <1>4, <1>5, <1>6, <1>7, <1>8 DEF CallerStep

(* The steps of initialize, of terminate, and a death keep the types.       *)
LEMMA ServiceTypes ==
  ASSUME TypeOK, ServiceStep \/ Crash
  PROVE  TypeOK'
<1>0. svc \in Instances /\ Rows \subseteq Hook
  BY DEF TypeOK, Instances, Rows
<1>1. CASE Initialize
  BY <1>1, EchoAssumption DEF Initialize, TypeOK
<1>2. CASE InitializeList
  <2>1. svc' \in Instances
    BY <1>0, <1>2 DEF InitializeList, Instances
  <2>2. mishaps' \in 0 .. MaxMishaps
    BY <1>2, FaultType DEF InitializeList, TypeOK
  <2> QED
    BY <1>2, <2>1, <2>2 DEF InitializeList, TypeOK, Instances
<1>3. ASSUME NEW h \in Hook, InitializeDelete(h) PROVE TypeOK'
  <2>1. PICK result \in DeleteResults : Delete(svc.instance, h, result)
    BY <1>3 DEF InitializeDelete
  <2>2. svc' \in Instances
    BY <1>0, <1>3 DEF InitializeDelete, Instances
  <2> QED
    BY <1>3, <2>1, <2>2, DeleteType DEF InitializeDelete, TypeOK, Instances
<1>4. CASE Terminate
  <2>1. svc' \in Instances
    BY <1>0, <1>4 DEF Terminate, Instances
  <2>2. /\ timers' \in [Hook -> TimerRecord]
        /\ \A g \in Hook : timers'[g].listed => timers'[g].step \in {"sleeping", "checking", "running"}
    BY <1>4 DEF Terminate, Stop, TypeOK, TimerRecord
  <2> QED
    BY <1>4, <2>1, <2>2 DEF Terminate, TypeOK, Instances
<1>5. CASE TerminateList
  <2>1. svc' \in Instances
    BY <1>0, <1>5 DEF TerminateList, Instances
  <2>2. mishaps' \in 0 .. MaxMishaps
    BY <1>5, FaultType DEF TerminateList, TypeOK
  <2> QED
    BY <1>5, <2>1, <2>2 DEF TerminateList, TypeOK, Instances
<1>6. ASSUME NEW h \in Hook, TerminateDelete(h) PROVE TypeOK'
  <2>1. PICK result \in DeleteResults :
          /\ rows' = IF result.gone THEN [rows EXCEPT ![h] = NoScope] ELSE rows
          /\ IF result.ok THEN UNCHANGED mishaps ELSE Fault
    BY <1>6 DEF TerminateDelete
  <2>2. mishaps' \in 0 .. MaxMishaps
    BY <2>1, FaultType, DeleteResultsAre DEF TypeOK
  <2>3. svc' \in Instances
    BY <1>0, <1>6 DEF TerminateDelete, Instances
  <2> QED
    BY <1>6, <2>1, <2>2, <2>3 DEF TerminateDelete, TypeOK, Instances
<1>7. CASE Crash
  <2>1. rows' \in [Hook -> Scope \cup {NoScope}] /\ callers' \in [Caller -> CallerRecord]
    BY <1>7, FreshTypes DEF Crash, TypeOK
  <2>2. /\ timers' \in [Hook -> TimerRecord]
        /\ \A g \in Hook : timers'[g].listed => timers'[g].step \in {"sleeping", "checking", "running"}
    BY <1>7, FreshTypes DEF Crash, TypeOK, NoTimer
  <2> QED
    BY <1>7, <2>1, <2>2, FaultType DEF Crash, TypeOK, Instances
<1> QED
  BY <1>1, <1>2, <1>3, <1>4, <1>5, <1>6, <1>7 DEF ServiceStep
----------------------------------------------------------------------------
(* What a step of one task may do to the others.                            *)

(* A timer that ends, and one that comes to its own delete.                 *)
LEMMA EndedTimer ==
  ASSUME timers \in [Hook -> TimerRecord], NEW g \in Hook, EndTimer(g)
  PROVE  /\ timers'[g].step = "ended"
         /\ timers'[g].listed = FALSE /\ timers'[g].cancelled = FALSE
         /\ \A h \in Hook \ {g} : timers'[h] = timers[h]
BY DEF EndTimer, NoTimer

(* A timer that goes on to delete its own row is off the table, the others  *)
(* stay.                                                                    *)
LEMMA DeletingTimer ==
  ASSUME timers \in [Hook -> TimerRecord], NEW g \in Hook, NEW failed \in BOOLEAN,
         StartDeleting(g, failed)
  PROVE  /\ timers'[g].step = "deleting"
         /\ timers'[g].listed = FALSE /\ timers'[g].cancelled = FALSE
         /\ \A h \in Hook \ {g} : timers'[h] = timers[h]
BY DEF StartDeleting, TimerRecord

(* A timer touches no task and no other timer, gives no id and takes none   *)
(* back, and starts the agent only uncancelled and for a row.               *)
LEMMA TimerMoves ==
  ASSUME Inv, NEW g \in Hook, TimerStep(g)
  PROVE  /\ UNCHANGED <<callers, svc, told, lost>>
         /\ \A h \in Hook \ {g} : timers'[h] = timers[h]
         /\ timers[g].step # "none" /\ timers'[g].step # "none"
         /\ Stopped(g) => Stopped(g)'
         /\ TimerInv(g)'
         /\ \A h \in Hook : h \notin Rows => h \notin Rows'
         /\ \A h : h \in begun' =>
              h \in begun \/ (h = g /\ h \in Rows /\ timers[h].step = "checking" /\ ~Stopped(h))
<1>1. timers[g] \in TimerRecord /\ TimerInv(g) /\ timers \in [Hook -> TimerRecord]
  BY DEF Inv, TypeOK
<1>2. UNCHANGED <<callers, svc, told, lost>> /\ \A h \in Hook \ {g} : timers'[h] = timers[h]
  BY <1>1 DEF TimerStep, Fire, Suppress, Run, Finish, Interrupted, DeleteOwn, CleanUp, EndTimer,
              StartDeleting
<1>3. /\ timers[g].step # "none" /\ timers'[g].step # "none"
      /\ Stopped(g) => Stopped(g)'
      /\ TimerInv(g)'
  <2> SUFFICES ASSUME timers[g].step # "none"
               PROVE  /\ timers'[g].step # "none"
                      /\ Stopped(g) => Stopped(g)'
                      /\ TimerInv(g)'
    BY <1>1 DEF TimerStep, Fire, Suppress, Run, Finish, Interrupted, DeleteOwn, CleanUp, TimerInv
  <2>1. CASE timers'[g].step \in {"deleting", "cleaning", "ended"}
    BY <2>1 DEF TimerInv, Stopped
  <2>2. ASSUME EndTimer(g) \/ \E failed \in BOOLEAN : StartDeleting(g, failed)
        PROVE  timers'[g].step \in {"deleting", "cleaning", "ended"}
    BY <1>1, <2>2, EndedTimer, DeletingTimer
  <2>3. CASE Fire(g)
    <3>1. CASE Active(timers[g].instance)
      <4>1. /\ timers'[g].step = "checking" /\ timers'[g].instance = timers[g].instance
            /\ timers[g].step = "sleeping" /\ ~timers[g].cancelled
        BY <1>1, <2>3, <3>1 DEF Fire, TimerRecord
      <4>2. Active(timers[g].instance)'
        BY <1>2, <3>1, <4>1 DEF Active
      <4>3. timers'[g].cancelled = timers[g].cancelled /\ timers'[g].listed = timers[g].listed
        BY <1>1, <2>3, <3>1 DEF Fire, TimerRecord
      <4> QED
        BY <1>1, <4>1, <4>2, <4>3 DEF TimerInv, Stopped
    <3>2. CASE ~Active(timers[g].instance)
      BY <2>1, <2>2, <2>3, <3>2 DEF Fire
    <3> QED
      BY <3>1, <3>2
  <2>4. CASE Run(g)
    <3>1. /\ timers'[g].step = "running" /\ timers[g].step = "checking"
          /\ ~timers[g].cancelled
      BY <1>1, <2>4 DEF Run, TimerRecord
    <3> QED
      BY <3>1 DEF TimerInv, Stopped
  <2>5. CASE DeleteOwn(g) \/ CleanUp(g)
    <3>1. timers' = [timers EXCEPT ![g].step = "cleaning"] \/ EndTimer(g)
      BY <2>5 DEF DeleteOwn, CleanUp
    <3>2. timers'[g].step \in {"deleting", "cleaning", "ended"}
      BY <1>1, <2>2, <3>1 DEF TimerRecord
    <3> QED
      BY <2>1, <3>2
  <2>6. CASE Suppress(g) \/ Finish(g) \/ Interrupted(g)
    <3>1. EndTimer(g) \/ \E failed \in BOOLEAN : StartDeleting(g, failed)
      BY <2>6 DEF Suppress, Finish, Interrupted
    <3> QED
      BY <2>1, <2>2, <3>1
  <2> QED
    BY <2>3, <2>4, <2>5, <2>6 DEF TimerStep
<1>4. \A h \in Hook : h \notin Rows => h \notin Rows'
  <2>1. rows' = rows \/ rows' = [rows EXCEPT ![g] = NoScope]
    BY DEF TimerStep, Fire, Suppress, Run, Finish, Interrupted, DeleteOwn, CleanUp, Delete
  <2> QED
    BY <2>1 DEF Rows, Inv, TypeOK
<1>5. \A h : h \in begun' =>
         h \in begun \/ (h = g /\ h \in Rows /\ timers[h].step = "checking" /\ ~Stopped(h))
  <2>1. CASE Run(g)
    BY <2>1 DEF Run, Stopped
  <2>2. CASE ~Run(g)
    BY <2>2 DEF TimerStep, Fire, Suppress, Finish, Interrupted, DeleteOwn, CleanUp
  <2> QED
    BY <2>1, <2>2
<1> QED
  BY <1>2, <1>3, <1>4, <1>5

(* What no step takes back: an id that was given, a timer that was stopped, *)
(* a row that is gone.                                                      *)
Kept ==
  /\ \A h \in Hook : Given(h) => Given(h)'
  /\ \A h \in Hook : Stopped(h) => Stopped(h)'
  /\ \A h \in Hook : Given(h) /\ h \notin Rows => h \notin Rows'

(* A receipt stays true.                                                    *)
LEMMA ReceiptsKept ==
  ASSUME Inv, Kept, told' = told
  PROVE  ReceiptsInv'
<1>1. told \subseteq [hook: Hook, removed: BOOLEAN, armed: BOOLEAN]
  BY DEF Inv, TypeOK
<1> SUFFICES ASSUME NEW t \in told
             PROVE  /\ Given(t.hook)'
                    /\ t.removed => t.hook \notin Rows'
                    /\ t.armed => Stopped(t.hook)'
  BY DEF ReceiptsInv, Kept
<1>2. /\ t.hook \in Hook /\ Given(t.hook)
      /\ t.removed => t.hook \notin Rows
      /\ t.armed => Stopped(t.hook)
  BY <1>1 DEF Inv, ReceiptsInv
<1> QED
  BY <1>2 DEF Kept

(* A task that a step does not touch is as sound after it as before, unless *)
(* the step starts its timer or gives its row to another.                   *)
LEMMA CallerKept ==
  ASSUME Inv, Kept, NEW c \in Caller, callers'[c] = callers[c],
         callers[c].step = "added" => timers'[callers[c].hook].step = "none",
         \A d \in Caller : callers'[d].step = "added" =>
           callers'[d] = callers[d] \/ callers'[d].hook # callers[c].hook
  PROVE  CallerInv(c)'
<1>1. CallerInv(c) /\ callers[c] \in CallerRecord
  BY DEF Inv, TypeOK
<1>2. callers'[c].step = "added" =>
        /\ callers'[c].hook \in Hook /\ timers'[callers'[c].hook].step = "none"
        /\ \A d \in Caller :
             callers'[d].step = "added" /\ callers'[d].hook = callers'[c].hook => d = c
  BY <1>1 DEF CallerInv
<1>3. callers'[c].step = "deleting" =>
        /\ callers'[c].hook \in Hook /\ Given(callers[c].hook)'
        /\ callers'[c].armed => Stopped(callers[c].hook)'
  BY <1>1 DEF CallerInv, Kept
<1>4. \A h \in callers[c].todo \cup callers[c].made : Given(h)'
  BY <1>1 DEF CallerInv, Kept, CallerRecord
<1> QED
  BY <1>1, <1>2, <1>3, <1>4 DEF CallerInv, Given, Stopped

(* A step of a timer keeps the invariant.                                   *)
LEMMA TimerKeepsInv ==
  ASSUME Inv, NEW g \in Hook, TimerStep(g)
  PROVE  Inv'
<1>1. TypeOK'
  BY TimerTypes DEF Inv
<1>2. /\ UNCHANGED <<callers, svc, told, lost>>
      /\ \A h \in Hook \ {g} : timers'[h] = timers[h]
      /\ timers[g].step # "none" /\ timers'[g].step # "none"
      /\ Stopped(g) => Stopped(g)'
      /\ TimerInv(g)'
      /\ \A h \in Hook : h \notin Rows => h \notin Rows'
  BY TimerMoves
<1>3. Kept
  BY <1>2 DEF Kept, Given, Stopped
<1>4. ASSUME NEW h \in Hook PROVE TimerInv(h)'
  BY <1>2 DEF Inv, TimerInv, Active
<1>5. ASSUME NEW c \in Caller PROVE CallerInv(c)'
  <2>1. callers[c].step = "added" => timers'[callers[c].hook].step = "none"
    BY <1>2 DEF Inv, CallerInv
  <2> QED
    BY <1>2, <1>3, <2>1, CallerKept
<1>6. \A h \in Rows' : Given(h)'
  BY <1>2, <1>3 DEF Inv, Kept, Rows
<1> QED
  BY <1>1, <1>2, <1>3, <1>4, <1>5, <1>6, ReceiptsKept DEF Inv

(* A task that is idle or done remembers nothing.                           *)
LEMMA AtRest ==
  ASSUME NEW c \in Caller, callers'[c] \in {IdleCaller, Done(c)}
  PROVE  CallerInv(c)' /\ callers'[c].step \in {"idle", "done"}
BY DEF CallerInv, IdleCaller, Done

(* A step that touches one task, no timer, and takes no row or name away    *)
(* leaves the rest sound.                                                   *)
LEMMA OneTaskKeeps ==
  ASSUME Inv, TypeOK', Kept, ReceiptsInv', NEW c \in Caller, CallerInv(c)',
         UNCHANGED <<timers, svc>>,
         \A d \in Caller \ {c} : callers'[d] = callers[d],
         callers'[c].step # "added", Rows' \subseteq Rows
  PROVE  Inv'
<1>1. ASSUME NEW d \in Caller PROVE CallerInv(d)'
  <2>1. callers[d].step = "added" => timers'[callers[d].hook].step = "none"
    BY DEF Inv, CallerInv
  <2> QED
    BY <2>1, CallerKept
<1>2. \A h \in Hook : TimerInv(h)'
  BY DEF Inv, TimerInv, Active
<1>3. \A h \in Rows' : Given(h)'
  BY DEF Inv, Kept, Rows
<1> QED
  BY <1>1, <1>2, <1>3 DEF Inv

(* A step that leaves the timers and the rows added alone takes no id back. *)
LEMMA QuietStep ==
  ASSUME Inv, UNCHANGED <<timers>>, lost \subseteq lost', Rows' \subseteq Rows,
         \A c \in Caller : callers[c].step = "added" =>
           callers'[c] = callers[c] \/ callers[c].hook \in lost'
  PROVE  Kept
<1>1. ASSUME NEW h \in Hook, Given(h) PROVE Given(h)'
  BY <1>1 DEF Given
<1> QED
  BY <1>1 DEF Kept, Stopped, Rows

(* A delete takes its row away if it says so, and adds none.                *)
LEMMA DeletedRows ==
  ASSUME Inv, NEW i, NEW h \in Hook, NEW result \in DeleteResults, Delete(i, h, result)
  PROVE  Rows' \subseteq Rows /\ (result.ok => h \notin Rows')
<1>1. result.ok => result.gone
  BY DeleteResultsAre
<1>2. rows \in [Hook -> Scope \cup {NoScope}]
  BY DEF Inv, TypeOK
<1> QED
  BY <1>1, <1>2 DEF Delete, Rows

(* The steps of create keep the invariant.                                  *)
LEMMA CreateKeepsInv ==
  ASSUME Inv, NEW c \in Caller,
         CheckCapacity(c) \/ AddFails(c) \/ Arm(c) \/ \E h \in Hook : Add(c, h)
  PROVE  Inv'
<1>0. /\ TypeOK' /\ CallerInv(c) /\ callers[c] \in CallerRecord
      /\ callers \in [Caller -> CallerRecord]
  BY CallerTypes DEF Inv, TypeOK, CallerStep
<1>1. CASE CheckCapacity(c)
  <2>1. Kept
    BY <1>0, <1>1, QuietStep DEF CheckCapacity, Inv, TypeOK, Rows
  <2>2. CallerInv(c)' /\ callers'[c].step # "added"
    <3>1. CASE callers[c].fits
      <4>1. callers'[c] = [callers[c] EXCEPT !.step = "adding", !.fits = FALSE]
        BY <1>0, <1>1, <3>1 DEF CheckCapacity
      <4>2. /\ callers'[c].step = "adding" /\ callers'[c].todo = callers[c].todo
            /\ callers'[c].made = callers[c].made /\ callers'[c].left = callers[c].left
            /\ callers[c].step = "checking"
        BY <1>0, <1>1, <4>1 DEF CallerRecord, CheckCapacity
      <4>3. \A h \in callers'[c].todo \cup callers'[c].made : Given(h)'
        BY <1>0, <2>1, <4>2 DEF CallerInv, CallerRecord, Kept
      <4> QED
        BY <1>0, <4>2, <4>3 DEF CallerInv
    <3>2. CASE ~callers[c].fits
      BY <1>0, <1>1, <3>2, AtRest DEF CheckCapacity
    <3> QED
      BY <3>1, <3>2
  <2>3. /\ \A d \in Caller \ {c} : callers'[d] = callers[d]
        /\ UNCHANGED <<timers, svc, told>> /\ Rows' \subseteq Rows
    BY <1>0, <1>1 DEF CheckCapacity, Rows
  <2> QED
    BY <1>0, <2>1, <2>2, <2>3, OneTaskKeeps, ReceiptsKept
<1>2. CASE AddFails(c)
  <2>1. /\ \A d \in Caller \ {c} : callers'[d] = callers[d]
        /\ UNCHANGED <<timers, svc, told, rows>> /\ Rows' \subseteq Rows
    BY <1>0, <1>2 DEF AddFails, Undo, Rows
  <2>2. Kept
    <3>1. callers[c].step = "added" => callers[c].hook \in lost'
      BY <1>2 DEF AddFails
    <3>2. lost \subseteq lost'
      BY <1>2 DEF AddFails
    <3> QED
      BY <2>1, <3>1, <3>2, QuietStep
  <2>3. CallerInv(c)' /\ callers'[c].step # "added"
    <3>1. CASE callers[c].made = {}
      BY <1>0, <1>2, <3>1, AtRest DEF AddFails, Undo
    <3>2. CASE callers[c].made # {}
      <4>1. callers'[c] = [callers[c] EXCEPT !.step = "popping", !.todo = callers[c].made,
                                             !.hook = NoHook]
        BY <1>0, <1>2, <3>2 DEF AddFails, Undo
      <4>2. /\ callers'[c].step = "popping" /\ callers'[c].todo = callers[c].made
            /\ callers'[c].made = callers[c].made
        BY <1>0, <4>1 DEF CallerRecord
      <4>3. \A h \in callers'[c].todo \cup callers'[c].made : Given(h)'
        BY <1>0, <2>2, <4>2 DEF CallerInv, CallerRecord, Kept
      <4> QED
        BY <4>2, <4>3 DEF CallerInv
    <3> QED
      BY <3>1, <3>2
  <2> QED
    BY <1>0, <2>1, <2>2, <2>3, OneTaskKeeps, ReceiptsKept
<1>3. CASE Arm(c)
  <2>0. PICK g \in Hook : g = callers[c].hook
    BY <1>0, <1>3 DEF Arm, CallerInv
  <2>1. /\ timers[g].step = "none" /\ callers[c].step = "added"
        /\ \A d \in Caller : callers[d].step = "added" /\ callers[d].hook = g => d = c
        /\ callers[c].left \in Nat \ {0}
    BY <1>0, <1>3, <2>0 DEF Arm, CallerInv, CallerRecord
  <2>2. /\ \A d \in Caller \ {c} : callers'[d] = callers[d]
        /\ \A h \in Hook \ {g} : timers'[h] = timers[h]
        /\ UNCHANGED <<svc, told, rows, lost>>
    BY <1>0, <1>3, <2>0 DEF Arm, Inv, TypeOK
  <2>3. /\ timers'[g].step = "sleeping" /\ timers'[g].listed = TRUE
        /\ timers'[g].cancelled = FALSE
    BY <1>3, <2>0 DEF Arm, Inv, TypeOK, NoTimer
  <2>4. ~Stopped(g)
    BY <2>1 DEF Inv, TimerInv, Stopped
  <2>5. Kept
    <3>1. ASSUME NEW h \in Hook, Given(h) PROVE Given(h)'
      <4>1. CASE h = g
        BY <2>3, <4>1 DEF Given
      <4>2. CASE h # g
        BY <2>0, <2>2, <3>1, <4>2 DEF Given
      <4> QED
        BY <4>1, <4>2
    <3> QED
      BY <2>2, <2>4, <3>1 DEF Kept, Stopped, Rows
  <2>6. CallerInv(c)' /\ callers'[c].step # "added"
    <3>1. CASE callers[c].left = 1
      BY <1>0, <1>3, <3>1, AtRest DEF Arm
    <3>2. CASE callers[c].left # 1
      <4>1. callers'[c] = [callers[c] EXCEPT !.step = "adding", !.left = @ - 1, !.hook = NoHook,
                                             !.made = @ \cup {g}]
        BY <1>0, <1>3, <2>0, <3>2 DEF Arm
      <4>2. /\ callers'[c].step = "adding" /\ callers'[c].todo = callers[c].todo
            /\ callers'[c].made = callers[c].made \cup {g}
            /\ callers'[c].left = callers[c].left - 1
        BY <1>0, <4>1 DEF CallerRecord
      <4>3. Given(g)'
        BY <2>3 DEF Given
      <4>4. \A h \in callers'[c].todo \cup callers'[c].made : Given(h)'
        BY <1>0, <2>5, <4>2, <4>3 DEF CallerInv, CallerRecord, Kept
      <4>5. callers'[c].left # 0
        BY <2>1, <3>2, <4>2
      <4> QED
        BY <4>2, <4>4, <4>5 DEF CallerInv
    <3> QED
      BY <3>1, <3>2
  <2>7. ASSUME NEW d \in Caller PROVE CallerInv(d)'
    <3>1. CASE d = c
      BY <2>6, <3>1
    <3>2. CASE d # c
      <4>1. callers[d].step = "added" => timers'[callers[d].hook].step = "none"
        BY <2>1, <2>2, <3>2 DEF Inv, CallerInv
      <4> QED
        BY <2>2, <2>5, <2>6, <3>2, <4>1, CallerKept
    <3> QED
      BY <3>1, <3>2
  <2>8. \A h \in Hook : TimerInv(h)'
    BY <2>2, <2>3 DEF Inv, TimerInv, Active
  <2>9. \A h \in Rows' : Given(h)'
    BY <2>2, <2>5 DEF Inv, Kept, Rows
  <2> QED
    BY <1>0, <2>2, <2>5, <2>7, <2>8, <2>9, ReceiptsKept DEF Inv
<1>4. ASSUME NEW g \in Hook, Add(c, g) PROVE Inv'
  <2>1. /\ timers[g].step = "none" /\ g \notin lost /\ callers[c].step = "adding"
        /\ \A d \in Caller : callers[d].hook # g
    BY <1>4 DEF Add
  <2>2. ~Given(g)
    BY <2>1 DEF Given
  <2>3. /\ \A d \in Caller \ {c} : callers'[d] = callers[d]
        /\ \A h \in Hook \ {g} : h \in Rows' => h \in Rows
        /\ UNCHANGED <<timers, svc, told, lost>>
    BY <1>0, <1>4 DEF Add, Rows, Inv, TypeOK
  <2>4. /\ callers'[c].step = "added" /\ callers'[c].hook = g
        /\ callers'[c].todo = callers[c].todo /\ callers'[c].made = callers[c].made
        /\ callers'[c].left = callers[c].left
    BY <1>0, <1>4 DEF Add, CallerRecord
  <2>5. Kept
    <3>1. ASSUME NEW h \in Hook, Given(h) PROVE Given(h)'
      BY <2>1, <2>3, <3>1 DEF Given
    <3> QED
      BY <2>2, <2>3, <3>1 DEF Kept, Stopped
  <2>6. ASSUME NEW d \in Caller PROVE CallerInv(d)'
    <3>1. CASE d = c
      <4>1. \A h \in callers'[c].todo \cup callers'[c].made : Given(h)'
        BY <1>0, <2>4, <2>5 DEF CallerInv, CallerRecord, Kept
      <4>2. \A e \in Caller : callers'[e].step = "added" /\ callers'[e].hook = g => e = c
        BY <2>1, <2>3
      <4>3. callers'[c].left # 0
        BY <1>0, <2>1, <2>4 DEF CallerInv
      <4> QED
        BY <2>1, <2>3, <2>4, <3>1, <4>1, <4>2, <4>3 DEF CallerInv
    <3>2. CASE d # c
      <4>1. callers[d].step = "added" => timers'[callers[d].hook].step = "none"
        BY <2>3 DEF Inv, CallerInv
      <4>2. callers'[c].hook # callers[d].hook
        BY <2>1, <2>4
      <4> QED
        BY <2>3, <2>5, <3>2, <4>1, <4>2, CallerKept
    <3> QED
      BY <3>1, <3>2
  <2>7. \A h \in Hook : TimerInv(h)'
    BY <2>3 DEF Inv, TimerInv, Active
  <2>8. \A h \in Rows' : Given(h)'
    <3>1. Given(g)'
      BY <2>4 DEF Given
    <3> QED
      BY <2>3, <2>5, <3>1 DEF Inv, Kept, Rows
  <2> QED
    BY <1>0, <2>3, <2>5, <2>6, <2>7, <2>8, ReceiptsKept DEF Inv
<1> QED
  BY <1>1, <1>2, <1>3, <1>4

(* The steps of cancel, and the listing and the undoing of create, keep the *)
(* invariant.                                                               *)
LEMMA CancelKeepsInv ==
  ASSUME Inv, NEW c \in Caller,
         List(c) \/ ListFails(c) \/ DeleteRow(c) \/ \E h \in Hook : PopTimer(c, h)
  PROVE  Inv'
<1>0. /\ TypeOK' /\ CallerInv(c) /\ callers[c] \in CallerRecord
      /\ callers \in [Caller -> CallerRecord]
  BY CallerTypes DEF Inv, TypeOK, CallerStep
<1>1. CASE List(c)
  <2>1. /\ \A d \in Caller \ {c} : callers'[d] = callers[d]
        /\ UNCHANGED <<timers, svc, told, rows, lost>> /\ Rows' \subseteq Rows
        /\ callers[c].step = "listing"
    BY <1>0, <1>1 DEF List, Rows
  <2>2. Kept
    BY <2>1, QuietStep
  <2>3. CallerInv(c)' /\ callers'[c].step # "added"
    <3> DEFINE found == {h \in callers[c].wanted : rows[h] = callers[c].scope}
    <3>1. CASE callers[c].op = "create"
      <4>1. callers'[c] = [callers[c] EXCEPT !.step = "checking", !.fits = Fits(callers[c])]
        BY <1>0, <1>1, <3>1 DEF List
      <4>2. /\ callers'[c].step = "checking" /\ callers'[c].todo = callers[c].todo
            /\ callers'[c].made = callers[c].made /\ callers'[c].left = callers[c].left
        BY <1>0, <4>1 DEF CallerRecord
      <4>3. \A h \in callers'[c].todo \cup callers'[c].made : Given(h)'
        BY <1>0, <2>2, <4>2 DEF CallerInv, CallerRecord, Kept
      <4> QED
        BY <1>0, <2>1, <3>1, <4>2, <4>3 DEF CallerInv
    <3>2. CASE callers[c].op # "create" /\ found = {}
      BY <1>0, <1>1, <3>2, AtRest DEF List
    <3>3. CASE callers[c].op # "create" /\ found # {}
      <4>1. callers'[c] = [callers[c] EXCEPT !.step = "popping", !.todo = found, !.wanted = {}]
        BY <1>0, <1>1, <3>3 DEF List
      <4>2. /\ callers'[c].step = "popping" /\ callers'[c].todo = found
            /\ callers'[c].made = callers[c].made
        BY <1>0, <4>1 DEF CallerRecord
      <4>3. found \subseteq Rows
        <5>1. found \subseteq Hook
          BY <1>0 DEF CallerRecord
        <5>2. callers[c].scope \in Scope
          BY <1>0, <2>1 DEF CallerInv
        <5> QED
          BY <5>1, <5>2, EchoAssumption DEF Rows
      <4>4. \A h \in callers'[c].todo \cup callers'[c].made : Given(h)'
        BY <1>0, <2>2, <4>2, <4>3 DEF CallerInv, CallerRecord, Kept, Inv, Rows
      <4> QED
        BY <4>2, <4>4 DEF CallerInv
    <3> QED
      BY <3>1, <3>2, <3>3
  <2> QED
    BY <1>0, <2>1, <2>2, <2>3, OneTaskKeeps, ReceiptsKept
<1>2. CASE ListFails(c)
  <2>1. /\ \A d \in Caller \ {c} : callers'[d] = callers[d]
        /\ UNCHANGED <<timers, svc, told, rows, lost>> /\ Rows' \subseteq Rows
        /\ callers[c].step # "added" /\ callers'[c] = Done(c)
    BY <1>0, <1>2 DEF ListFails, Rows
  <2>2. Kept
    BY <2>1, QuietStep
  <2> QED
    BY <1>0, <2>1, <2>2, AtRest, OneTaskKeeps, ReceiptsKept
<1>3. CASE DeleteRow(c)
  <2>0. PICK g \in Hook : g = callers[c].hook
    BY <1>0, <1>3 DEF DeleteRow, CallerInv
  <2>1. /\ callers[c].step = "deleting" /\ Given(g)
        /\ callers[c].armed => Stopped(g)
    BY <1>0, <1>3, <2>0 DEF DeleteRow, CallerInv
  <2>2. PICK result \in DeleteResults :
          /\ Delete(callers[c].instance, g, result)
          /\ told' = IF callers[c].op = "cancel"
                     THEN told \cup {[hook |-> g, removed |-> result.ok,
                                      armed |-> callers[c].armed]}
                     ELSE told
    BY <1>3, <2>0 DEF DeleteRow
  <2>3. Rows' \subseteq Rows /\ (result.ok => g \notin Rows')
    BY <2>2, DeletedRows
  <2>4. /\ \A d \in Caller \ {c} : callers'[d] = callers[d]
        /\ UNCHANGED <<timers, svc, lost>>
    BY <1>0, <1>3 DEF DeleteRow
  <2>5. Kept
    BY <2>1, <2>3, <2>4, QuietStep
  <2>6. ReceiptsInv'
    <3> SUFFICES ASSUME NEW t \in told'
                 PROVE  /\ Given(t.hook)'
                        /\ t.removed => t.hook \notin Rows'
                        /\ t.armed => Stopped(t.hook)'
      BY DEF ReceiptsInv
    <3>1. CASE t \in told
      <4>1. t.hook \in Hook
        BY <3>1 DEF Inv, TypeOK
      <4> QED
        BY <2>5, <3>1, <4>1 DEF Inv, ReceiptsInv, Kept
    <3>2. CASE t \notin told
      <4>1. t = [hook |-> g, removed |-> result.ok, armed |-> callers[c].armed]
        BY <2>2, <3>2
      <4>2. t.hook = g /\ (t.removed => result.ok) /\ (t.armed => callers[c].armed)
        BY <4>1
      <4> QED
        BY <2>1, <2>3, <2>5, <4>2 DEF Kept
    <3> QED
      BY <3>1, <3>2
  <2>7. CallerInv(c)' /\ callers'[c].step # "added"
    <3>1. CASE callers[c].todo = {}
      BY <1>0, <1>3, <3>1, AtRest DEF DeleteRow
    <3>2. CASE callers[c].todo # {}
      <4>1. callers'[c] = [callers[c] EXCEPT !.step = "popping", !.hook = NoHook, !.armed = FALSE]
        BY <1>0, <1>3, <3>2 DEF DeleteRow
      <4>2. /\ callers'[c].step = "popping" /\ callers'[c].todo = callers[c].todo
            /\ callers'[c].made = callers[c].made
        BY <1>0, <4>1 DEF CallerRecord
      <4>3. \A h \in callers'[c].todo \cup callers'[c].made : Given(h)'
        BY <1>0, <2>5, <4>2 DEF CallerInv, CallerRecord, Kept
      <4> QED
        BY <4>2, <4>3 DEF CallerInv
    <3> QED
      BY <3>1, <3>2
  <2> QED
    BY <1>0, <2>3, <2>4, <2>5, <2>6, <2>7, OneTaskKeeps
<1>4. ASSUME NEW g \in Hook, PopTimer(c, g) PROVE Inv'
  <2>1. /\ callers[c].step = "popping" /\ g \in callers[c].todo
        /\ Given(g) /\ timers[g] \in TimerRecord
    BY <1>0, <1>4 DEF PopTimer, CallerInv, Inv, TypeOK
  <2>2. /\ \A d \in Caller \ {c} : callers'[d] = callers[d]
        /\ \A h \in Hook \ {g} : timers'[h] = timers[h]
        /\ UNCHANGED <<svc, told, rows, lost>>
    BY <1>0, <1>4 DEF PopTimer, Inv, TypeOK
  <2>3. timers'[g] = Stop(timers[g], callers[c].instance)
    BY <1>4 DEF PopTimer, Inv, TypeOK
  <2>4. /\ timers'[g].step = timers[g].step
        /\ \/ timers'[g] = timers[g] /\ ~OnTable(timers[g], callers[c].instance)
           \/ timers'[g].cancelled = TRUE /\ timers'[g].step # "none"
    <3>1. CASE OnTable(timers[g], callers[c].instance)
      <4>1. timers[g].step # "none"
        BY <3>1 DEF OnTable, Inv, TypeOK
      <4>2. timers'[g] = [timers[g] EXCEPT !.listed = FALSE, !.cancelled = TRUE]
        BY <2>3, <3>1 DEF Stop
      <4> QED
        BY <2>1, <4>1, <4>2 DEF TimerRecord
    <3>2. CASE ~OnTable(timers[g], callers[c].instance)
      BY <2>3, <3>2 DEF Stop
    <3> QED
      BY <3>1, <3>2
  <2>5. TimerInv(g)' /\ (Stopped(g) => Stopped(g)')
    BY <2>2, <2>4 DEF Inv, TimerInv, Stopped, Active
  <2>6. Kept
    <3>1. ASSUME NEW h \in Hook, Given(h) PROVE Given(h)'
      <4>1. timers'[h].step = timers[h].step
        BY <2>2, <2>4
      <4> QED
        BY <2>1, <2>2, <3>1, <4>1 DEF Given
    <3> QED
      BY <2>2, <2>5, <3>1 DEF Kept, Stopped, Rows
  <2>7. /\ callers'[c].step = "deleting" /\ callers'[c].hook = g
        /\ callers'[c].todo \subseteq callers[c].todo /\ callers'[c].made = callers[c].made
        /\ callers'[c].armed = OnTable(timers[g], callers[c].instance)
    BY <1>0, <1>4 DEF PopTimer, CallerRecord
  <2>8. ASSUME NEW d \in Caller PROVE CallerInv(d)'
    <3>1. CASE d = c
      <4>1. \A h \in callers'[c].todo \cup callers'[c].made : Given(h)'
        BY <1>0, <2>6, <2>7 DEF CallerInv, CallerRecord, Kept
      <4>2. Given(g)' /\ (callers'[c].armed => Stopped(g)')
        BY <2>1, <2>4, <2>6, <2>7 DEF Kept, Stopped
      <4> QED
        BY <2>7, <3>1, <4>1, <4>2 DEF CallerInv
    <3>2. CASE d # c
      <4>1. callers[d].step = "added" => timers'[callers[d].hook].step = "none"
        BY <2>2, <2>4 DEF Inv, CallerInv
      <4> QED
        BY <2>2, <2>6, <2>7, <3>2, <4>1, CallerKept
    <3> QED
      BY <3>1, <3>2
  <2>9. \A h \in Hook : TimerInv(h)'
    BY <2>2, <2>5 DEF Inv, TimerInv, Active
  <2>10. \A h \in Rows' : Given(h)'
    BY <2>2, <2>6 DEF Inv, Kept, Rows
  <2> QED
    BY <1>0, <2>2, <2>6, <2>8, <2>9, <2>10, ReceiptsKept DEF Inv
<1> QED
  BY <1>1, <1>2, <1>3, <1>4

(* The calls of create and of cancel begin with a session.                  *)
LEMMA BeginKeepsInv ==
  ASSUME Inv, NEW c \in Caller, NEW s \in Scope,
         \/ \E n \in 1 .. MaxCount : Create(c, s, n)
         \/ \E named \in SUBSET Hook : Cancel(c, s, named)
  PROVE  Inv'
<1>1. IdleCaller \in CallerRecord /\ callers \in [Caller -> CallerRecord]
      /\ svc \in Instances /\ svc.instance \in Nat
  BY FreshTypes, EchoAssumption DEF Inv, TypeOK, Instances
<1>2. /\ callers[c].step = "idle" /\ UNCHANGED <<rows, timers, svc, quarantined, mishaps, begun, told, lost>>
      /\ \A d \in Caller \ {c} : callers'[d] = callers[d]
  BY <1>1 DEF Create, Cancel
<1>3. /\ callers' \in [Caller -> CallerRecord]
      /\ callers'[c].step = "listing" /\ callers'[c].scope = s
      /\ callers'[c].todo = {} /\ callers'[c].made = {}
      /\ callers'[c].op = "create" => callers'[c].left # 0
  <2>1. ASSUME NEW n \in 1 .. MaxCount, Create(c, s, n) PROVE <1>3!:
    <3> DEFINE next == [IdleCaller EXCEPT !.op = "create", !.step = "listing", !.scope = s,
                                          !.instance = svc.instance, !.left = n]
    <3>0. n \in Nat /\ n # 0
      BY EchoAssumption
    <3>1. next \in CallerRecord /\ next.left = n /\ next.step = "listing" /\ next.scope = s
          /\ next.todo = {} /\ next.made = {}
      BY <1>1, <3>0 DEF IdleCaller, CallerRecord
    <3>2. callers' = [callers EXCEPT ![c] = next]
      BY <2>1 DEF Create
    <3> HIDE DEF next
    <3> QED
      BY <1>1, <3>0, <3>1, <3>2
  <2>2. ASSUME NEW named \in SUBSET Hook, Cancel(c, s, named) PROVE <1>3!:
    <3> DEFINE next == [IdleCaller EXCEPT !.step = "listing", !.scope = s,
                                          !.instance = svc.instance, !.wanted = named]
    <3>1. next \in CallerRecord /\ next.op = "cancel" /\ next.step = "listing" /\ next.scope = s
          /\ next.todo = {} /\ next.made = {}
      BY <1>1 DEF IdleCaller, CallerRecord
    <3>2. callers' = [callers EXCEPT ![c] = next]
      BY <2>2 DEF Cancel
    <3> HIDE DEF next
    <3> QED
      BY <1>1, <3>1, <3>2
  <2> QED
    BY <2>1, <2>2
<1>4. TypeOK'
  BY <1>2, <1>3 DEF Inv, TypeOK
<1>5. Kept /\ Rows' \subseteq Rows
  <2>1. Rows' = Rows /\ lost \subseteq lost'
    BY <1>2 DEF Rows
  <2> QED
    BY <1>2, <2>1, QuietStep
<1>6. CallerInv(c)'
  BY <1>3 DEF CallerInv
<1> QED
  BY <1>2, <1>3, <1>4, <1>5, <1>6, OneTaskKeeps, ReceiptsKept

(* The steps of initialize, of terminate, and a death keep the invariant.   *)
LEMMA ServiceKeepsInv ==
  ASSUME Inv, ServiceStep \/ Crash
  PROVE  Inv'
<1>0. TypeOK'
  BY ServiceTypes DEF Inv
<1>1. CASE Initialize \/ InitializeList \/ TerminateList
           \/ \E h \in Hook : InitializeDelete(h) \/ TerminateDelete(h)
  <2>1. UNCHANGED <<timers, callers, told, lost>>
    BY <1>1 DEF Initialize, InitializeList, TerminateList, InitializeDelete, TerminateDelete
  <2>2. Rows' \subseteq Rows
    <3>1. CASE Initialize \/ InitializeList \/ TerminateList
      BY <3>1 DEF Initialize, InitializeList, TerminateList, Rows
    <3>2. ASSUME NEW h \in Hook, InitializeDelete(h) \/ TerminateDelete(h) PROVE Rows' \subseteq Rows
      <4>1. rows' = rows \/ rows' = [rows EXCEPT ![h] = NoScope]
        BY <3>2 DEF InitializeDelete, TerminateDelete, Delete
      <4> QED
        BY <4>1 DEF Rows, Inv, TypeOK
    <3> QED
      BY <1>1, <3>1, <3>2
  <2>3. Kept
    BY <2>1, <2>2, QuietStep
  <2>4. svc.phase # "active" \/ (svc'.phase = svc.phase /\ svc'.instance = svc.instance)
    BY <1>1 DEF Initialize, InitializeList, TerminateList, InitializeDelete, TerminateDelete
  <2>5. \A h \in Hook : TimerInv(h)'
    BY <2>1, <2>4 DEF Inv, TimerInv, Active
  <2>6. ASSUME NEW c \in Caller PROVE CallerInv(c)'
    <3>1. callers[c].step = "added" => timers'[callers[c].hook].step = "none"
      BY <2>1 DEF Inv, CallerInv
    <3> QED
      BY <2>1, <2>3, <3>1, CallerKept
  <2>7. \A h \in Rows' : Given(h)'
    BY <2>2, <2>3 DEF Inv, Kept, Rows
  <2> QED
    BY <1>0, <2>1, <2>3, <2>5, <2>6, <2>7, ReceiptsKept DEF Inv
<1>2. CASE Terminate
  <2>1. /\ UNCHANGED <<rows, callers, told, lost>> /\ svc'.phase = "gathering"
        /\ \A h \in Hook : timers'[h] = Stop(timers[h], svc.instance)
    BY <1>2 DEF Terminate, Inv, TypeOK
  <2>2. ASSUME NEW h \in Hook
        PROVE  /\ timers'[h].step = timers[h].step
               /\ \/ timers'[h] = timers[h] /\ ~OnTable(timers[h], svc.instance)
                  \/ timers'[h].cancelled = TRUE /\ timers'[h].step # "none"
    <3>0. timers[h] \in TimerRecord
      BY DEF Inv, TypeOK
    <3>1. CASE OnTable(timers[h], svc.instance)
      <4>1. timers[h].step # "none"
        BY <3>1 DEF OnTable, Inv, TypeOK
      <4>2. timers'[h] = [timers[h] EXCEPT !.listed = FALSE, !.cancelled = TRUE]
        BY <2>1, <3>1 DEF Stop
      <4> QED
        BY <3>0, <4>1, <4>2 DEF TimerRecord
    <3>2. CASE ~OnTable(timers[h], svc.instance)
      BY <2>1, <3>2 DEF Stop
    <3> QED
      BY <3>1, <3>2
  <2>3. ASSUME NEW h \in Hook PROVE TimerInv(h)' /\ (Stopped(h) => Stopped(h)')
    <3>1. CASE timers'[h].cancelled = TRUE /\ timers'[h].step # "none"
      BY <3>1 DEF TimerInv, Stopped
    <3>2. CASE timers'[h] = timers[h] /\ ~OnTable(timers[h], svc.instance)
      BY <3>2 DEF Inv, TimerInv, Stopped, Active, OnTable
    <3> QED
      BY <2>2, <3>1, <3>2
  <2>4. Kept
    <3>1. ASSUME NEW h \in Hook, Given(h) PROVE Given(h)'
      BY <2>1, <2>2, <3>1 DEF Given
    <3> QED
      BY <2>1, <2>3, <3>1 DEF Kept, Rows
  <2>5. ASSUME NEW c \in Caller PROVE CallerInv(c)'
    <3>1. callers[c].step = "added" => timers'[callers[c].hook].step = "none"
      BY <2>2 DEF Inv, CallerInv
    <3> QED
      BY <2>1, <2>4, <3>1, CallerKept
  <2>6. \A h \in Rows' : Given(h)'
    BY <2>1, <2>4 DEF Inv, Kept, Rows
  <2> QED
    BY <1>0, <2>1, <2>3, <2>4, <2>5, <2>6, ReceiptsKept DEF Inv
<1>3. CASE Crash
  <2>1. /\ UNCHANGED <<told, lost>> /\ Rows' \subseteq Rows
        /\ \A c \in Caller : callers'[c] \in {IdleCaller, Done(c)}
    BY <1>3 DEF Crash, Rows
  <2>2. ASSUME NEW h \in Hook
        PROVE  /\ timers'[h].cancelled = FALSE /\ timers'[h].step \in {"none", "ended"}
               /\ timers[h].step # "none" \/ (Given(h) /\ h \notin lost)
                    => timers'[h].step = "ended"
    <3>1. /\ timers'[h] \in {NoTimer, [NoTimer EXCEPT !.step = "ended"]}
          /\ timers[h].step # "none" \/ (Given(h) /\ h \notin lost)
               => timers'[h] = [NoTimer EXCEPT !.step = "ended"]
      BY <1>3 DEF Crash, Given
    <3> QED
      BY <3>1 DEF NoTimer
  <2>3. \A h \in Hook : TimerInv(h)'
    BY <2>2 DEF TimerInv
  <2>4. Kept
    <3>1. ASSUME NEW h \in Hook, Given(h) PROVE Given(h)'
      BY <2>1, <2>2, <3>1 DEF Given
    <3>2. ASSUME NEW h \in Hook, Stopped(h) PROVE Stopped(h)'
      BY <2>2, <3>2 DEF Inv, TimerInv, Stopped
    <3> QED
      BY <2>1, <3>1, <3>2 DEF Kept
  <2>5. \A c \in Caller : CallerInv(c)'
    BY <2>1, AtRest
  <2>6. \A h \in Rows' : Given(h)'
    BY <2>1, <2>4 DEF Inv, Kept, Rows
  <2> QED
    BY <1>0, <2>1, <2>3, <2>4, <2>5, <2>6, ReceiptsKept DEF Inv
<1> QED
  BY <1>1, <1>2, <1>3 DEF ServiceStep

(* The invariant holds of every state.                                      *)
LEMMA InitInv == Init => Inv
<1> SUFFICES ASSUME Init PROVE Inv
  OBVIOUS
<1>1. Rows = {}
  BY DEF Init, Rows
<1>2. TypeOK
  BY FreshTypes, EchoAssumption DEF Init, TypeOK, NoTimer
<1>3. \A h \in Hook : TimerInv(h)
  BY DEF Init, TimerInv, NoTimer
<1>4. \A c \in Caller : CallerInv(c)
  BY DEF Init, CallerInv, IdleCaller
<1>5. ReceiptsInv
  BY DEF Init, ReceiptsInv
<1> QED
  BY <1>1, <1>2, <1>3, <1>4, <1>5 DEF Inv

(* Every step keeps the invariant.                                          *)
LEMMA NextInv == Inv /\ [Next]_vars => Inv'
<1> SUFFICES ASSUME Inv, [Next]_vars PROVE Inv'
  OBVIOUS
<1>1. CASE UNCHANGED vars
  BY <1>1 DEF vars, Inv, TypeOK, TimerInv, CallerInv, ReceiptsInv, Given, Stopped, Rows, Active
<1>2. ASSUME NEW c \in Caller, CallerStep(c) PROVE Inv'
  BY <1>2, CreateKeepsInv, CancelKeepsInv DEF CallerStep
<1>3. ASSUME NEW c \in Caller, NEW s \in Scope,
             \/ \E n \in 1 .. MaxCount : Create(c, s, n)
             \/ \E named \in SUBSET Hook : Cancel(c, s, named)
      PROVE  Inv'
  BY <1>3, BeginKeepsInv
<1>4. ASSUME NEW h \in Hook, TimerStep(h) PROVE Inv'
  BY <1>4, TimerKeepsInv
<1>5. CASE ServiceStep \/ Crash
  BY <1>5, ServiceKeepsInv
<1> QED
  BY <1>1, <1>2, <1>3, <1>4, <1>5 DEF Next

(* The invariant holds in every reachable state.                            *)
LEMMA AlwaysInv == Spec => []Inv
BY InitInv, NextInv, PTL DEF Spec
----------------------------------------------------------------------------
(* The properties.                                                          *)

(* Every variable has its type, and a timer that has come to its own delete *)
(* is off the table.                                                        *)
THEOREM EchoTypes == Spec => []TypeOK
<1>1. Inv => TypeOK
  BY DEF Inv
<1> QED
  BY <1>1, AlwaysInv, PTL

(* A truthful receipt: a row that a cancel reported as removed is gone, for *)
(* good, because no id is given twice.                                      *)
THEOREM ReceiptsAreTrue == Spec => []RemovedMeansGone
<1>1. Inv => RemovedMeansGone
  BY DEF Inv, ReceiptsInv, RemovedMeansGone
<1> QED
  BY <1>1, AlwaysInv, PTL

(* The agent is only started by a timer that was not stopped, in its        *)
(* preflight, for a row that exists.                                        *)
LEMMA BeginsOnlyThere ==
  ASSUME Inv, [Next]_vars, NEW h \in Hook, Begins(h)
  PROVE  h \in Rows /\ timers[h].step = "checking" /\ ~Stopped(h)
<1>1. PICK g \in Hook : TimerStep(g)
  <2>1. begun' # begun
    BY DEF Begins
  <2>2. CASE ServiceStep \/ Crash
    BY <2>1, <2>2 DEF ServiceStep, Crash, Initialize, InitializeList, InitializeDelete, Terminate,
                      TerminateList, TerminateDelete
  <2>3. ASSUME NEW c \in Caller, CallerStep(c) PROVE FALSE
    BY <2>1, <2>3 DEF CallerStep, List, ListFails, CheckCapacity, DeleteRow, AddFails, Arm, Add,
                      PopTimer
  <2>4. ASSUME NEW c \in Caller, NEW s \in Scope,
               \/ \E n \in 1 .. MaxCount : Create(c, s, n)
               \/ \E named \in SUBSET Hook : Cancel(c, s, named)
        PROVE  FALSE
    BY <2>1, <2>4 DEF Create, Cancel
  <2> QED
    BY <2>1, <2>2, <2>3, <2>4 DEF Next, vars
<1> QED
  BY <1>1, TimerMoves DEF Begins

(* A hook that a cancel stopped never starts the agent afterwards, whatever *)
(* became of its row.                                                       *)
THEOREM StoppedStaysStopped == Spec => StoppedHookStaysStopped
<1>1. Inv /\ [Next]_vars => [\A t \in told : t.armed \/ t.removed => ~Begins(t.hook)]_vars
  <2> SUFFICES ASSUME Inv, [Next]_vars, NEW t \in told, t.armed \/ t.removed, Begins(t.hook)
               PROVE  FALSE
    OBVIOUS
  <2>1. t.hook \in Hook
    BY DEF Inv, TypeOK
  <2>2. Stopped(t.hook) \/ t.hook \notin Rows
    BY DEF Inv, ReceiptsInv
  <2> QED
    BY <2>1, <2>2, BeginsOnlyThere
<1> QED
  BY <1>1, AlwaysInv, PTL DEF Spec, StoppedHookStaysStopped

(* Only a timer of the active instance starts the agent: none outlives      *)
(* terminate, whatever create was doing meanwhile.                          *)
THEOREM ActiveInstanceRuns == Spec => OnlyActiveInstanceRuns
<1>1. Inv /\ [Next]_vars => [\A h \in Hook : Begins(h) => Active(timers[h].instance)]_vars
  <2> SUFFICES ASSUME Inv, [Next]_vars, NEW h \in Hook, Begins(h)
               PROVE  Active(timers[h].instance)
    OBVIOUS
  <2> QED
    BY BeginsOnlyThere DEF Inv, TimerInv, Stopped
<1> QED
  BY <1>1, AlwaysInv, PTL DEF Spec, OnlyActiveInstanceRuns
=============================================================================

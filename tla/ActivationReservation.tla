------------------------ MODULE ActivationReservation ------------------------
(***************************************************************************)
(* ActivationReservationCoordinator (src/activation_reservation.py): the    *)
(* minimum interval between two activations of one key, with the last       *)
(* message of a burst kept waiting for the end of the interval.             *)
(*                                                                         *)
(* A task handles one message: it reserves once and commits at most once.   *)
(* The coordinator's calls are atomic under its lock; a task suspends only  *)
(* in the wait of reserve.  The handler in main.py decides and commits      *)
(* without suspending after reserve (Suspends = FALSE); the coordinator's   *)
(* interface would also let other tasks come between (Suspends = TRUE).     *)
(***************************************************************************)
EXTENDS Integers, FiniteSets

CONSTANTS
  Key,         \* (scope, target) pairs
  Task,        \* the messages
  NoPending,   \* slot.pending is None
  NoKey,       \* a message that has not arrived
  NoSlot,      \* the key has no slot
  MinInterval, \* minimum_interval_seconds
  MaxSlots,    \* max_slots
  Suspends,    \* a task may suspend between its reserve and its commit
  MaxTime      \* bound: the last instant of the monotonic clock; messages
               \* arrive early enough for their waits to end by then

VARIABLES
  now,    \* the monotonic clock
  slots,  \* _slots
  closed, \* _closed
  tasks   \* the locals of each task's reserve, its permit and its outcome

vars == <<now, slots, closed, tasks>>

Reservation == [generation: Nat, waiter: Task]

(* claimed is 0 when no generation is claimed: generations start at 1.       *)
Slot ==
  [next: Nat, generation: Nat, claimed: Nat, pending: Reservation \cup {NoPending}]

NewSlot == [next |-> 0, generation |-> 0, claimed |-> 0, pending |-> NoPending]

ASSUME ReservationAssumption ==
  /\ NoPending \notin Reservation
  /\ NoSlot \notin Slot
  /\ MinInterval \in Nat
  /\ MaxSlots \in Nat \ {0}
  /\ Suspends \in BOOLEAN
  /\ MaxTime \in Nat

Outcome == {"admitted", "rejected", "stale", "superseded", "inert", "shutdown", "cancelled"}

TaskRecord ==
  [step: {"new", "waiting", "permit"} \cup Outcome, key: Key \cup {NoKey}, generation: Nat,
   due: Nat, signalled: BOOLEAN, previous: Nat, at: Nat]

NewTask ==
  [step |-> "new", key |-> NoKey, generation |-> 0, due |-> 0, signalled |-> FALSE,
   previous |-> 0, at |-> 0]

Init ==
  /\ now = 0
  /\ slots = [k \in Key |-> NoSlot]
  /\ closed = FALSE
  /\ tasks = [t \in Task |-> NewTask]

Tick ==
  /\ now < MaxTime
  /\ now' = now + 1
  /\ UNCHANGED <<slots, closed, tasks>>

(* Deviation: a slot is never removed.                                      *)
PruneNothing(table) == table

(* _prune_locked *)
Prune(table) ==
  [k \in Key |->
     IF /\ table[k] # NoSlot
        /\ table[k].pending = NoPending
        /\ table[k].claimed = 0
        /\ table[k].next <= now
     THEN NoSlot ELSE table[k]]

(* _claim_locked: the slot, and the permit of the task that claims it.      *)
Claimed(slot, generation) ==
  [next |-> now + MinInterval, generation |-> slot.generation,
   claimed |-> generation, pending |-> NoPending]

Permit(k, slot, generation) ==
  [NewTask EXCEPT !.step = "permit", !.key = k, !.generation = generation,
                  !.previous = slot.next, !.at = now]

(* The task has its outcome: of its locals only what happened when is kept. *)
Ends(t, outcome) ==
  tasks' = [tasks EXCEPT ![t] = [NewTask EXCEPT !.step = outcome, !.key = tasks[t].key,
                                                !.at = tasks[t].at]]

(* Deviation: a waiter does not wait for the interval.                      *)
DueNow(slot) == now

Due(slot) == IF now >= slot.next THEN now ELSE slot.next

Waiting(t) == tasks[t].step = "waiting"

Waiter(k, slot) ==
  [NewTask EXCEPT !.step = "waiting", !.key = k, !.generation = slot.generation,
                  !.due = Due(slot)]

(* Deviation: the task that waited before is not told.                      *)
SupersedeSilently(slot) == tasks

(* The task that waited before is signalled.                                *)
Supersede(slot) ==
  [u \in Task |-> IF slot.pending # NoPending /\ u = slot.pending.waiter /\ Waiting(u)
                  THEN [tasks[u] EXCEPT !.signalled = TRUE] ELSE tasks[u]]

(* Deviation: the handler awaits between its permit and its commit.         *)
LoopAlwaysFree == TRUE

(* The event loop is free to run another task.                              *)
LoopIsFree == Suspends \/ \A t \in Task : tasks[t].step # "permit"

(* reserve up to its wait; _offer_locked.                                   *)
Reserve(t, k) ==
  LET pruned == Prune(slots)
      used   == {j \in Key : pruned[j] # NoSlot}
      slot   == [(IF pruned[k] = NoSlot THEN NewSlot ELSE pruned[k])
                   EXCEPT !.generation = @ + 1]
      free   == slot.claimed = 0 /\ slot.pending = NoPending /\ now >= slot.next
      room   == pruned[k] # NoSlot \/ Cardinality(used) < MaxSlots
  IN  /\ LoopIsFree
      /\ tasks[t].step = "new"
      /\ now + MinInterval <= MaxTime
      /\ \/ /\ closed
            /\ tasks' = [tasks EXCEPT ![t].step = "shutdown", ![t].key = k]
            /\ UNCHANGED slots
         \/ /\ ~closed /\ ~room
            /\ tasks' = [tasks EXCEPT ![t].step = "inert", ![t].key = k]
            /\ slots' = pruned
         \/ /\ ~closed /\ room /\ free
            /\ slots' = [pruned EXCEPT ![k] = Claimed(slot, slot.generation)]
            /\ tasks' = [tasks EXCEPT ![t] = Permit(k, slot, slot.generation)]
         \/ /\ ~closed /\ room /\ ~free
            /\ slots' = [pruned EXCEPT ![k] =
                           [slot EXCEPT !.pending = [generation |-> slot.generation, waiter |-> t]]]
            /\ tasks' = [Supersede(slot) EXCEPT ![t] = Waiter(k, slot)]
      /\ UNCHANGED <<now, closed>>

(* The slot's pending reservation is this task's.                           *)
Pending(t) ==
  LET slot == slots[tasks[t].key]
  IN  slot # NoSlot /\ slot.pending # NoPending /\ slot.pending.waiter = t

(* Deviation: the wait has no timeout.                                      *)
ResumedBySignal(t) == tasks[t].signalled

(* The event loop resumes tasks in the order in which they became ready: a  *)
(* waiter's timer does not overtake the waiter it superseded itself.        *)
Resumed(t) ==
  \/ tasks[t].signalled
  \/ /\ now >= tasks[t].due
     /\ \A u \in Task : Waiting(u) /\ tasks[u].key = tasks[t].key => ~tasks[u].signalled

(* Deviation: the generation of the pending reservation is not compared.    *)
StillPendingAny(t) ==
  LET slot == slots[tasks[t].key]
  IN  slot # NoSlot /\ slot.pending # NoPending

(* The slot still waits for this very task's reservation.                   *)
StillPending(t) ==
  LET slot == slots[tasks[t].key]
  IN  /\ slot # NoSlot
      /\ slot.pending # NoPending
      /\ slot.pending.generation = tasks[t].generation

(* reserve after its wait.                                                  *)
Wake(t) ==
  LET k    == tasks[t].key
      wins == ~closed /\ StillPending(t) /\ now >= tasks[t].due
  IN  /\ LoopIsFree
      /\ Waiting(t)
      /\ Resumed(t)
      /\ \/ /\ closed
            /\ Ends(t, "shutdown")
            /\ UNCHANGED slots
         \/ /\ ~closed /\ ~wins
            /\ Ends(t, "superseded")
            /\ UNCHANGED slots
         \/ /\ wins
            /\ slots' = [slots EXCEPT ![k] = Claimed(@, tasks[t].generation)]
            /\ tasks' = [tasks EXCEPT ![t] = Permit(k, slots[k], tasks[t].generation)]
      /\ UNCHANGED <<now, closed>>

(* Deviation: a rejected decision keeps the interval it reserved.           *)
NextAfterKept(t, admitted) == slots[tasks[t].key].next

(* A rejected decision gives the interval back.                             *)
NextAfter(t, admitted) ==
  IF admitted THEN slots[tasks[t].key].next ELSE tasks[t].previous

(* commit, with the decision about the message.                             *)
Commit(t) ==
  LET k     == tasks[t].key
      holds == slots[k] # NoSlot /\ slots[k].claimed = tasks[t].generation
  IN  /\ tasks[t].step = "permit"
      /\ \/ /\ ~holds
            /\ Ends(t, "stale")
            /\ UNCHANGED slots
         \/ /\ holds
            /\ \E admitted \in BOOLEAN :
                 /\ Ends(t, IF admitted THEN "admitted" ELSE "rejected")
                 /\ slots' = Prune([slots EXCEPT ![k].claimed = 0,
                                                 ![k].next = NextAfter(t, admitted)])
      /\ UNCHANGED <<now, closed>>

(* The host cancels a waiting handler: nothing of the coordinator notices.  *)
Cancel(t) ==
  /\ LoopIsFree
  /\ Waiting(t)
  /\ Ends(t, "cancelled")
  /\ UNCHANGED <<now, slots, closed>>

(* Deviation: the slots survive close.                                      *)
CloseKeepsSlots ==
  /\ LoopIsFree
  /\ ~closed
  /\ closed' = TRUE
  /\ UNCHANGED <<now, slots, tasks>>

Close ==
  /\ LoopIsFree
  /\ ~closed
  /\ closed' = TRUE
  /\ tasks' = [t \in Task |->
                 IF Waiting(t) /\ Pending(t)
                 THEN [tasks[t] EXCEPT !.signalled = TRUE] ELSE tasks[t]]
  /\ slots' = [k \in Key |-> NoSlot]
  /\ UNCHANGED now

Next ==
  \/ Tick
  \/ \E t \in Task : (\E k \in Key : Reserve(t, k)) \/ Wake(t) \/ Commit(t) \/ Cancel(t)
  \/ Close

Spec == Init /\ [][Next]_vars

(* Time passes, asyncio resumes a task whose timer or event fired, and the  *)
(* handler goes on to its commit.                                           *)
FairSpec == Spec /\ WF_vars(Tick) /\ \A t \in Task : WF_vars(Wake(t) \/ Commit(t))
----------------------------------------------------------------------------
(* Every variable has its type, and a message that arrived has a key.       *)
TypeOK ==
  /\ now \in Nat
  /\ slots \in [Key -> Slot \cup {NoSlot}]
  /\ closed \in BOOLEAN
  /\ tasks \in [Task -> TaskRecord]
  /\ \A t \in Task : tasks[t].step # "new" => tasks[t].key \in Key

(* The minimum interval: two activations of one key were released at least  *)
(* MinInterval apart, whatever was superseded, rejected or committed late   *)
(* in between.                                                              *)
IntervalRespected ==
  \A t, u \in Task :
    /\ t # u /\ tasks[t].key = tasks[u].key
    /\ tasks[t].step = "admitted" /\ tasks[u].step = "admitted"
    => tasks[t].at + MinInterval <= tasks[u].at \/ tasks[u].at + MinInterval <= tasks[t].at

(* No waiter is forgotten: a waiting message is the one its slot waits for, *)
(* or it has been told to stop.                                             *)
NobodyIsForgotten == \A t \in Task : Waiting(t) => Pending(t) \/ tasks[t].signalled

(* Only an activation uses up an interval: a key is held back only on       *)
(* account of a message that was admitted, or whose decision is not yet     *)
(* committed.                                                               *)
IntervalIsPaidFor ==
  \A k \in Key :
    slots[k] # NoSlot /\ slots[k].next > now =>
      \E t \in Task :
        /\ tasks[t].key = k
        /\ tasks[t].step \in {"permit", "admitted"}
        /\ slots[k].next = tasks[t].at + MinInterval

(* Of a burst the last message is activated: a message that waited gets its *)
(* permit only when no later message of its key is waiting.                 *)
LastOfBurstWins ==
  [][\A t \in Task :
       Waiting(t) /\ tasks'[t].step = "permit" =>
         \A u \in Task \ {t} :
           Waiting(u) /\ tasks[u].key = tasks[t].key =>
             tasks[u].generation < tasks[t].generation]_vars

(* Once the coordinator is closed no message is activated any more, also    *)
(* not one whose permit was given before.                                   *)
NothingAfterClose ==
  [][closed => \A t \in Task :
       tasks'[t].step \in {"permit", "admitted"} => tasks[t].step = tasks'[t].step]_vars

(* A message is turned away for want of a slot only while MaxSlots other    *)
(* keys each have an open decision, a reservation that waited, or a running *)
(* interval.                                                                *)
InertOnlyWhenBusy ==
  [][\A t \in Task :
       tasks[t].step = "new" /\ tasks'[t].step = "inert" =>
         MaxSlots <= Cardinality(
           {k \in Key : \E u \in Task :
              /\ tasks[u].key = k
              /\ \/ tasks[u].step \in {"permit", "waiting", "cancelled"}
                 \/ tasks[u].step = "admitted"
                    /\ tasks[u].at + MinInterval > now})]_vars

(* Every message that waits is decided in the end: it is activated,         *)
(* superseded or told of the shutdown.                                      *)
WaitersAreResolved == \A t \in Task : Waiting(t) ~> ~Waiting(t)
=============================================================================

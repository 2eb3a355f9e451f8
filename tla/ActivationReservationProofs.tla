--------------------- MODULE ActivationReservationProofs ---------------------
(***************************************************************************)
(* What TLAPS proves of ActivationReservation for every number of keys and  *)
(* messages, every interval and every number of slots.  For any caller: the *)
(* types, that nobody who waits is forgotten, that the last message of a    *)
(* burst is the one that is activated, and that close is final.  For        *)
(* handlers that do not suspend between reserve and commit: the minimum     *)
(* interval, what uses it up, and that a message is turned away only when   *)
(* every slot is in use.                                                    *)
(***************************************************************************)
EXTENDS ActivationReservation, FiniteSetTheorems, TLAPS

HasPermit(t) == tasks[t].step = "permit"

(* At most one task is between its reserve and its commit, before close,    *)
(* and its slot is as its claim left it.                                    *)
PermitsHold ==
  /\ \A t, u \in Task : HasPermit(t) /\ HasPermit(u) => t = u
  /\ \A t \in Task :
       HasPermit(t) =>
         LET slot == slots[tasks[t].key]
         IN  /\ ~closed
             /\ slot # NoSlot
             /\ slot.next = tasks[t].at + MinInterval
             /\ slot.claimed = tasks[t].generation
             /\ slot.pending = NoPending
             /\ tasks[t].previous <= tasks[t].at
             /\ tasks[t].at <= now

(* A reservation that waits was numbered by the generation counter of its   *)
(* slot, for a message of its key.                                          *)
GenerationsGrow ==
  \A k \in Key :
    slots[k] # NoSlot /\ slots[k].pending # NoPending =>
      /\ slots[k].pending.generation <= slots[k].generation
      /\ tasks[slots[k].pending.waiter].step # "new"
      /\ tasks[slots[k].pending.waiter].key = k

(* A waiter that was told to stop has been overtaken; one that was not is   *)
(* the one its slot waits for, and the interval ends by its due time.       *)
WaitersInOrder ==
  \A t \in Task :
    Waiting(t) /\ ~closed =>
      LET slot == slots[tasks[t].key]
      IN  /\ slot # NoSlot
          /\ slot.pending # NoPending
          /\ tasks[t].signalled => tasks[t].generation < slot.pending.generation
          /\ ~tasks[t].signalled => /\ slot.pending.waiter = t
                                    /\ tasks[t].generation = slot.pending.generation
                                    /\ slot.next <= tasks[t].due

(* The interval of every activation lies before whatever is allowed next.   *)
AdmittedBefore ==
  \A t \in Task :
    tasks[t].step = "admitted" /\ ~closed =>
      LET slot == slots[tasks[t].key]
      IN  /\ slot = NoSlot => tasks[t].at + MinInterval <= now
          /\ slot # NoSlot => tasks[t].at + MinInterval <= slot.next
          /\ \A u \in Task :
               HasPermit(u) /\ tasks[u].key = tasks[t].key =>
                 tasks[t].at + MinInterval <= tasks[u].at

Inv ==
  /\ TypeOK
  /\ PermitsHold
  /\ GenerationsGrow
  /\ WaitersInOrder
  /\ AdmittedBefore
  /\ IntervalRespected
----------------------------------------------------------------------------
(* Pruning only removes slots that nothing waits for and whose interval is  *)
(* over (_prune_locked).                                                    *)
LEMMA PruneKeeps ==
  ASSUME NEW table \in [Key -> Slot \cup {NoSlot}], NEW k \in Key
  PROVE  /\ Prune(table) \in [Key -> Slot \cup {NoSlot}]
         /\ Prune(table)[k] # NoSlot => Prune(table)[k] = table[k]
         /\ Prune(table)[k] = NoSlot /\ table[k] # NoSlot =>
              /\ table[k].pending = NoPending
              /\ table[k].claimed = 0
              /\ table[k].next <= now
BY DEF Prune
----------------------------------------------------------------------------
(* Types.                                                                   *)

(* The types hold at the start.                                             *)
LEMMA TypeInit == Init => TypeOK
<1>1. NewTask \in TaskRecord /\ NewTask.step = "new"
  BY DEF NewTask, TaskRecord
<1> SUFFICES ASSUME Init PROVE TypeOK
  OBVIOUS
<1>2. now \in Nat /\ closed \in BOOLEAN
  BY DEF Init
<1>3. slots \in [Key -> Slot \cup {NoSlot}]
  BY DEF Init
<1>4. tasks \in [Task -> TaskRecord] /\ \A t \in Task : tasks[t].step = "new"
  BY <1>1 DEF Init
<1> QED
  BY <1>2, <1>3, <1>4 DEF TypeOK

(* A slot that gives out its next generation is a slot.                     *)
LEMMA NextSlotType ==
  ASSUME NEW table \in [Key -> Slot \cup {NoSlot}], NEW k \in Key
  PROVE  [(IF table[k] = NoSlot THEN NewSlot ELSE table[k]) EXCEPT !.generation = @ + 1] \in Slot
BY DEF Slot, NewSlot

(* A claim yields a slot.                                                   *)
LEMMA ClaimedType ==
  ASSUME NEW slot \in Slot, NEW g \in Nat, now \in Nat
  PROVE  Claimed(slot, g) \in Slot
<1>1. MinInterval \in Nat
  BY ReservationAssumption
<1> QED
  BY <1>1 DEF Claimed, Slot

(* A permit has its type.                                                   *)
LEMMA PermitType ==
  ASSUME NEW slot \in Slot, NEW g \in Nat, NEW k \in Key, now \in Nat
  PROVE  Permit(k, slot, g) \in TaskRecord
BY DEF Permit, Slot, TaskRecord, NewTask

(* A waiter has its type.                                                   *)
LEMMA WaiterType ==
  ASSUME NEW slot \in Slot, NEW k \in Key, now \in Nat
  PROVE  Waiter(k, slot) \in TaskRecord
BY DEF Waiter, Due, Slot, TaskRecord, NewTask

(* A task that ends has its type.                                           *)
LEMMA EndsType ==
  ASSUME TypeOK, NEW t \in Task, NEW outcome \in Outcome, tasks[t].step # "new",
         Ends(t, outcome)
  PROVE  /\ tasks' \in [Task -> TaskRecord]
         /\ \A u \in Task : tasks'[u].step # "new" => tasks'[u].key \in Key
BY DEF Ends, TypeOK, TaskRecord, NewTask, Outcome

(* Every step keeps the types.                                              *)
LEMMA TypeNext == TypeOK /\ [Next]_vars => TypeOK'
<1> SUFFICES ASSUME TypeOK, [Next]_vars PROVE TypeOK'
  OBVIOUS
<1>1. CASE Tick
  BY <1>1 DEF Tick, TypeOK
<1>2. ASSUME NEW t \in Task, NEW k \in Key, Reserve(t, k) PROVE TypeOK'
  <2> DEFINE pruned == Prune(slots)
             slot == [(IF pruned[k] = NoSlot THEN NewSlot ELSE pruned[k])
                        EXCEPT !.generation = @ + 1]
  <2>1. pruned \in [Key -> Slot \cup {NoSlot}]
    BY PruneKeeps DEF TypeOK
  <2>2. slot \in Slot
    BY <2>1, NextSlotType
  <2>3. tasks[t].step = "new" /\ UNCHANGED <<now, closed>>
    BY <1>2 DEF Reserve
  <2>4. CASE \E outcome \in {"shutdown", "inert"} :
               /\ tasks' = [tasks EXCEPT ![t].step = outcome, ![t].key = k]
               /\ slots' \in {slots, pruned}
    <3>1. PICK outcome \in {"shutdown", "inert"} :
            tasks' = [tasks EXCEPT ![t] = [tasks[t] EXCEPT !.step = outcome, !.key = k]]
      BY <2>4 DEF TypeOK, TaskRecord
    <3>2. [tasks[t] EXCEPT !.step = outcome, !.key = k] \in TaskRecord
      BY DEF TypeOK, TaskRecord, Outcome
    <3>3. [tasks[t] EXCEPT !.step = outcome, !.key = k].key = k
      BY DEF TypeOK, TaskRecord
    <3> QED
      BY <2>1, <2>3, <2>4, <3>1, <3>2, <3>3 DEF TypeOK
  <2>5. CASE /\ slots' = [pruned EXCEPT ![k] = Claimed(slot, slot.generation)]
             /\ tasks' = [tasks EXCEPT ![t] = Permit(k, slot, slot.generation)]
    <3>1. slot.generation \in Nat
      BY <2>2 DEF Slot
    <3>2. Claimed(slot, slot.generation) \in Slot /\ Permit(k, slot, slot.generation) \in TaskRecord
      BY <2>2, <3>1, ClaimedType, PermitType DEF TypeOK
    <3>3. Permit(k, slot, slot.generation).key = k
      BY DEF Permit, NewTask
    <3> QED
      BY <2>1, <2>3, <2>5, <3>2, <3>3 DEF TypeOK
  <2>6. CASE /\ slots' = [pruned EXCEPT ![k] =
                            [slot EXCEPT !.pending = [generation |-> slot.generation, waiter |-> t]]]
             /\ tasks' = [Supersede(slot) EXCEPT ![t] = Waiter(k, slot)]
    <3>1. [slot EXCEPT !.pending = [generation |-> slot.generation, waiter |-> t]] \in Slot
      BY <2>2 DEF Slot, Reservation
    <3>2. /\ Supersede(slot) \in [Task -> TaskRecord]
          /\ \A u \in Task : Supersede(slot)[u].key = tasks[u].key
                            /\ Supersede(slot)[u].step = tasks[u].step
      BY DEF Supersede, TypeOK, TaskRecord
    <3>3. Waiter(k, slot) \in TaskRecord /\ Waiter(k, slot).key = k
      BY <2>2, WaiterType DEF Waiter, NewTask, TypeOK
    <3> QED
      BY <2>1, <2>3, <2>6, <3>1, <3>2, <3>3 DEF TypeOK
  <2> QED
    BY <1>2, <2>4, <2>5, <2>6 DEF Reserve
<1>3. ASSUME NEW t \in Task, Wake(t) PROVE TypeOK'
  <2> DEFINE k == tasks[t].key
  <2>1. Waiting(t) /\ UNCHANGED <<now, closed>>
    BY <1>3 DEF Wake
  <2>2. k \in Key /\ tasks[t].generation \in Nat
    BY <2>1 DEF Waiting, TypeOK, TaskRecord
  <2>3. CASE \E outcome \in Outcome : Ends(t, outcome) /\ UNCHANGED slots
    BY <2>1, <2>3, EndsType DEF Waiting, TypeOK
  <2>4. CASE /\ StillPending(t)
             /\ slots' = [slots EXCEPT ![k] = Claimed(slots[k], tasks[t].generation)]
             /\ tasks' = [tasks EXCEPT ![t] = Permit(k, slots[k], tasks[t].generation)]
    <3>1. slots[k] \in Slot
      BY <2>2, <2>4 DEF StillPending, TypeOK
    <3>2. /\ Claimed(slots[k], tasks[t].generation) \in Slot
          /\ Permit(k, slots[k], tasks[t].generation) \in TaskRecord
      BY <2>2, <3>1, ClaimedType, PermitType DEF TypeOK
    <3>3. Permit(k, slots[k], tasks[t].generation).key = k
      BY DEF Permit, NewTask
    <3> QED
      BY <2>1, <2>2, <2>4, <3>2, <3>3 DEF TypeOK
  <2> QED
    BY <1>3, <2>3, <2>4 DEF Wake, Outcome
<1>4. ASSUME NEW t \in Task, Commit(t) PROVE TypeOK'
  <2> DEFINE k == tasks[t].key
  <2>1. tasks[t].step = "permit" /\ UNCHANGED <<now, closed>>
    BY <1>4 DEF Commit
  <2>2. k \in Key
    BY <2>1 DEF TypeOK
  <2>3. CASE Ends(t, "stale") /\ UNCHANGED slots
    BY <2>1, <2>3, EndsType DEF TypeOK, Outcome
  <2>4. ASSUME NEW admitted \in BOOLEAN, slots[k] # NoSlot,
               Ends(t, IF admitted THEN "admitted" ELSE "rejected"),
               slots' = Prune([slots EXCEPT ![k].claimed = 0, ![k].next = NextAfter(t, admitted)])
        PROVE  TypeOK'
    <3>1. slots[k] \in Slot /\ NextAfter(t, admitted) \in Nat
      BY <2>2, <2>4 DEF TypeOK, NextAfter, Slot, TaskRecord
    <3>2. [slots EXCEPT ![k].claimed = 0, ![k].next = NextAfter(t, admitted)]
            \in [Key -> Slot \cup {NoSlot}]
      BY <3>1 DEF TypeOK, Slot
    <3>3. slots' \in [Key -> Slot \cup {NoSlot}]
      BY <2>2, <2>4, <3>2, PruneKeeps
    <3> QED
      BY <2>1, <2>4, <3>3, EndsType DEF TypeOK, Outcome
  <2> QED
    BY <1>4, <2>3, <2>4 DEF Commit
<1>5. ASSUME NEW t \in Task, Cancel(t) PROVE TypeOK'
  BY <1>5, EndsType DEF Cancel, Waiting, TypeOK, Outcome
<1>6. CASE Close
  BY <1>6 DEF Close, TypeOK, TaskRecord
<1>7. CASE UNCHANGED vars
  BY <1>7 DEF vars, TypeOK
<1> QED
  BY <1>1, <1>2, <1>3, <1>4, <1>5, <1>6, <1>7 DEF Next

(* Type correctness of the coordinator and its callers.                     *)
THEOREM ReservationTypes == Spec => []TypeOK
BY TypeInit, TypeNext, PTL DEF Spec
----------------------------------------------------------------------------
(* The minimum interval.                                                    *)

(* The invariant holds at the start.                                        *)
LEMMA InvInit == Init => Inv
<1> SUFFICES ASSUME Init PROVE Inv
  OBVIOUS
<1>1. TypeOK
  BY TypeInit
<1>2. \A t \in Task : tasks[t].step = "new"
  BY DEF Init, NewTask
<1>3. \A k \in Key : slots[k] = NoSlot
  BY DEF Init
<1> QED
  BY <1>1, <1>2, <1>3 DEF Inv, PermitsHold, HasPermit, GenerationsGrow, WaitersInOrder, Waiting,
     AdmittedBefore, IntervalRespected

(* The invariant survives a step of a task that ends without an activation, *)
(* keeps its slots or prunes them, and happens while no permit is out.      *)
LEMMA TaskEnds ==
  ASSUME Inv, TypeOK', NEW t \in Task,
         \A u \in Task : ~HasPermit(u),
         \A u \in Task \ {t} : tasks'[u] = tasks[u],
         tasks'[t].step \notin {"new", "permit", "waiting", "admitted"},
         tasks[t].step # "new" => tasks'[t].key = tasks[t].key,
         slots' \in {slots, Prune(slots)},
         now' = now, closed' = closed
  PROVE  Inv'
<1>1. \A k \in Key : slots'[k] = slots[k] \/
        /\ slots'[k] = NoSlot
        /\ slots[k] # NoSlot
        /\ slots[k].pending = NoPending
        /\ slots[k].next <= now
  BY PruneKeeps DEF Inv, TypeOK
<1>2. \A u \in Task : tasks[u].step # "new" => tasks[u].key \in Key
  BY DEF Inv, TypeOK
<1>3. PermitsHold'
  BY DEF PermitsHold, HasPermit
<1>4. GenerationsGrow'
  <2> SUFFICES ASSUME NEW k \in Key, slots'[k] # NoSlot, slots'[k].pending # NoPending
               PROVE  /\ slots'[k].pending.generation <= slots'[k].generation
                      /\ tasks'[slots'[k].pending.waiter].step # "new"
                      /\ tasks'[slots'[k].pending.waiter].key = k
    BY DEF GenerationsGrow
  <2>1. slots'[k] = slots[k]
    BY <1>1
  <2>2. slots[k].pending.waiter \in Task
    BY <2>1 DEF Inv, TypeOK, Slot, Reservation
  <2> QED
    BY <2>1, <2>2 DEF Inv, GenerationsGrow
<1>5. WaitersInOrder'
  BY <1>1, <1>2 DEF Inv, WaitersInOrder, Waiting
<1>6. AdmittedBefore'
  <2> SUFFICES ASSUME NEW u \in Task, tasks'[u].step = "admitted", ~closed'
               PROVE  LET slot == slots'[tasks'[u].key]
                      IN  /\ slot = NoSlot => tasks'[u].at + MinInterval <= now'
                          /\ slot # NoSlot => tasks'[u].at + MinInterval <= slot.next
    BY DEF AdmittedBefore, HasPermit
  <2>1. u # t /\ tasks'[u] = tasks[u] /\ tasks[u].key \in Key
    BY <1>2
  <2>2. tasks[u].at \in Nat /\ MinInterval \in Nat /\ now \in Nat
    BY ReservationAssumption DEF Inv, TypeOK, TaskRecord
  <2>3. slots[tasks[u].key] # NoSlot => slots[tasks[u].key].next \in Nat
    BY <2>1 DEF Inv, TypeOK, Slot
  <2> QED
    BY <1>1, <2>1, <2>2, <2>3 DEF Inv, AdmittedBefore
<1>7. IntervalRespected'
  BY DEF Inv, IntervalRespected
<1> QED
  BY <1>3, <1>4, <1>5, <1>6, <1>7 DEF Inv

(* It survives a claim, of a new message or of the one that waited, when    *)
(* the interval of the key is over.                                         *)
LEMMA TaskClaims ==
  ASSUME Inv, TypeOK', NEW t \in Task, NEW k \in Key, NEW slot \in Slot, NEW g \in Nat,
         NEW table \in {slots, Prune(slots)},
         \A u \in Task : ~HasPermit(u),
         ~closed,
         tasks[t].step \in {"new", "waiting"},
         \A u \in Task \ {t} : ~(Waiting(u) /\ tasks[u].key = k),
         slot.next <= now,
         slots[k] # NoSlot => slots[k].next <= now,
         slots' = [table EXCEPT ![k] = Claimed(slot, g)],
         tasks' = [tasks EXCEPT ![t] = Permit(k, slot, g)],
         tasks[t].step # "new" => tasks[t].key = k,
         now' = now, closed' = closed
  PROVE  Inv'
<1>1. \A j \in Key \ {k} : slots'[j] = slots[j] \/
        /\ slots'[j] = NoSlot
        /\ slots[j] # NoSlot
        /\ slots[j].pending = NoPending
        /\ slots[j].next <= now
  BY PruneKeeps DEF Inv, TypeOK
<1>2. \A u \in Task \ {t} : tasks'[u] = tasks[u] /\ (tasks[u].step # "new" => tasks[u].key \in Key)
  BY DEF Inv, TypeOK
<1>3. /\ tasks'[t].step = "permit"
      /\ tasks'[t].key = k
      /\ tasks'[t].generation = g
      /\ tasks'[t].previous = slot.next
      /\ tasks'[t].at = now
  BY DEF Permit, NewTask, Inv, TypeOK
<1>4. /\ slots'[k] \in Slot
      /\ slots'[k] # NoSlot
      /\ slots'[k].next = now + MinInterval
      /\ slots'[k].claimed = g
      /\ slots'[k].pending = NoPending
  <2>1. slots'[k] = Claimed(slot, g)
    BY PruneKeeps DEF Inv, TypeOK
  <2>2. Claimed(slot, g) \in Slot
    BY ClaimedType DEF Inv, TypeOK
  <2> QED
    BY <2>1, <2>2, ReservationAssumption DEF Claimed
<1>5. now \in Nat /\ MinInterval \in Nat
  BY ReservationAssumption DEF Inv, TypeOK
<1>6. PermitsHold'
  BY <1>2, <1>3, <1>4, <1>5 DEF PermitsHold, HasPermit
<1>7. GenerationsGrow'
  <2> SUFFICES ASSUME NEW j \in Key, slots'[j] # NoSlot, slots'[j].pending # NoPending
               PROVE  /\ slots'[j].pending.generation <= slots'[j].generation
                      /\ tasks'[slots'[j].pending.waiter].step # "new"
                      /\ tasks'[slots'[j].pending.waiter].key = j
    BY DEF GenerationsGrow
  <2>1. j # k /\ slots'[j] = slots[j]
    BY <1>1, <1>4
  <2>2. slots[j].pending.waiter \in Task
    BY <2>1 DEF Inv, TypeOK, Slot, Reservation
  <2>3. /\ slots[j].pending.generation <= slots[j].generation
        /\ tasks[slots[j].pending.waiter].step # "new"
        /\ tasks[slots[j].pending.waiter].key = j
    BY <2>1 DEF Inv, GenerationsGrow
  <2> QED
    BY <1>2, <2>1, <2>2, <2>3
<1>8. WaitersInOrder'
  <2> SUFFICES ASSUME NEW u \in Task, Waiting(u)'
               PROVE  LET s == slots'[tasks'[u].key]
                      IN  /\ s # NoSlot
                          /\ s.pending # NoPending
                          /\ tasks'[u].signalled => tasks'[u].generation < s.pending.generation
                          /\ ~tasks'[u].signalled =>
                               /\ s.pending.waiter = u
                               /\ tasks'[u].generation = s.pending.generation
                               /\ s.next <= tasks'[u].due
    BY DEF WaitersInOrder
  <2>1. u # t /\ tasks'[u] = tasks[u] /\ Waiting(u) /\ tasks[u].key \in Key \ {k}
    BY <1>2, <1>3 DEF Waiting
  <2> QED
    BY <1>1, <2>1 DEF Inv, WaitersInOrder
<1>9. AdmittedBefore'
  <2> SUFFICES ASSUME NEW u \in Task, tasks'[u].step = "admitted"
               PROVE  LET s == slots'[tasks'[u].key]
                      IN  /\ s = NoSlot => tasks'[u].at + MinInterval <= now'
                          /\ s # NoSlot => tasks'[u].at + MinInterval <= s.next
                          /\ \A v \in Task :
                               HasPermit(v)' /\ tasks'[v].key = tasks'[u].key =>
                                 tasks'[u].at + MinInterval <= tasks'[v].at
    BY DEF AdmittedBefore
  <2>1. u # t /\ tasks'[u] = tasks[u] /\ tasks[u].key \in Key
    BY <1>2, <1>3
  <2>2. tasks[u].at \in Nat
    BY DEF Inv, TypeOK, TaskRecord
  <2>3. \A j \in Key : slots[j] # NoSlot => slots[j].next \in Nat
    BY DEF Inv, TypeOK, Slot
  <2>4. /\ slots[tasks[u].key] = NoSlot => tasks[u].at + MinInterval <= now
        /\ slots[tasks[u].key] # NoSlot => tasks[u].at + MinInterval <= slots[tasks[u].key].next
    BY <2>1 DEF Inv, AdmittedBefore
  <2>5. tasks[u].key = k => tasks[u].at + MinInterval <= now
    BY <1>5, <2>2, <2>3, <2>4
  <2>6. \A v \in Task : HasPermit(v)' => v = t
    BY <1>2 DEF HasPermit
  <2>7. CASE tasks[u].key = k
    BY <1>3, <1>4, <1>5, <2>1, <2>2, <2>5, <2>6, <2>7
  <2>8. CASE tasks[u].key # k
    BY <1>1, <1>3, <1>5, <2>1, <2>2, <2>3, <2>4, <2>6, <2>8
  <2> QED
    BY <2>7, <2>8
<1>10. IntervalRespected'
  BY <1>2, <1>3 DEF Inv, IntervalRespected
<1> QED
  BY <1>6, <1>7, <1>8, <1>9, <1>10 DEF Inv

(* It survives a reservation that has to wait: the slot is the one of before *)
(* with the next generation pending, and whoever waited before is told.     *)
LEMMA TaskWaits ==
  ASSUME Inv, TypeOK', NEW t \in Task, NEW k \in Key, NEW slot \in Slot,
         \A u \in Task : ~HasPermit(u),
         tasks[t].step = "new",
         slots[k] # NoSlot,
         slot.next = slots[k].next,
         slot.pending = slots[k].pending,
         slot.generation = slots[k].generation + 1,
         slots' = [Prune(slots) EXCEPT ![k] =
                     [slot EXCEPT !.pending = [generation |-> slot.generation, waiter |-> t]]],
         tasks' = [Supersede(slot) EXCEPT ![t] = Waiter(k, slot)],
         now' = now, closed' = closed
  PROVE  Inv'
<1>1. \A j \in Key \ {k} : slots'[j] = slots[j] \/
        /\ slots'[j] = NoSlot
        /\ slots[j] # NoSlot
        /\ slots[j].pending = NoPending
        /\ slots[j].next <= now
  BY PruneKeeps DEF Inv, TypeOK
<1>2. \A u \in Task \ {t} : /\ tasks'[u].step = tasks[u].step
                            /\ tasks'[u].key = tasks[u].key
                            /\ tasks'[u].generation = tasks[u].generation
                            /\ tasks'[u].due = tasks[u].due
                            /\ tasks'[u].at = tasks[u].at
  BY DEF Supersede, Inv, TypeOK, TaskRecord
<1>3. \A u \in Task \ {t} :
        tasks'[u].signalled <=> \/ tasks[u].signalled
                                \/ slot.pending # NoPending /\ u = slot.pending.waiter /\ Waiting(u)
  BY DEF Supersede, Inv, TypeOK, TaskRecord
<1>4. /\ tasks'[t].step = "waiting"
      /\ tasks'[t].key = k
      /\ tasks'[t].generation = slot.generation
      /\ ~tasks'[t].signalled
      /\ tasks'[t].due = Due(slot)
  BY DEF Waiter, NewTask, Supersede
<1>5. /\ slots'[k] = [slot EXCEPT !.pending = [generation |-> slot.generation, waiter |-> t]]
      /\ slots'[k] \in Slot
  BY PruneKeeps DEF Inv, TypeOK, Slot, Reservation
<1>6. /\ slots'[k].next = slots[k].next
      /\ slots'[k].generation = slot.generation
      /\ slots'[k].pending # NoPending
      /\ slots'[k].pending.generation = slot.generation
      /\ slots'[k].pending.waiter = t
      /\ slots'[k] # NoSlot
  BY <1>5, ReservationAssumption DEF Slot, Reservation
<1>7. now \in Nat /\ MinInterval \in Nat /\ slot.generation \in Nat /\ slot.next \in Nat
  BY ReservationAssumption DEF Inv, TypeOK, Slot
<1>8. \A u \in Task : tasks[u].step # "new" => tasks[u].key \in Key
  BY DEF Inv, TypeOK
<1>9. PermitsHold'
  BY <1>2, <1>4 DEF PermitsHold, HasPermit
<1>10. GenerationsGrow'
  <2> SUFFICES ASSUME NEW j \in Key, slots'[j] # NoSlot, slots'[j].pending # NoPending
               PROVE  /\ slots'[j].pending.generation <= slots'[j].generation
                      /\ tasks'[slots'[j].pending.waiter].step # "new"
                      /\ tasks'[slots'[j].pending.waiter].key = j
    BY DEF GenerationsGrow
  <2>1. CASE j = k
    BY <1>4, <1>6, <1>7, <2>1
  <2>2. CASE j # k
    <3>1. slots'[j] = slots[j]
      BY <1>1, <2>2
    <3>2. slots[j].pending.waiter \in Task
      BY <3>1 DEF Inv, TypeOK, Slot, Reservation
    <3>3. /\ slots[j].pending.generation <= slots[j].generation
          /\ tasks[slots[j].pending.waiter].step # "new"
          /\ tasks[slots[j].pending.waiter].key = j
      BY <3>1 DEF Inv, GenerationsGrow
    <3> QED
      BY <1>2, <3>1, <3>2, <3>3
  <2> QED
    BY <2>1, <2>2
<1>11. WaitersInOrder'
  <2> SUFFICES ASSUME NEW u \in Task, Waiting(u)', ~closed'
               PROVE  LET s == slots'[tasks'[u].key]
                      IN  /\ s # NoSlot
                          /\ s.pending # NoPending
                          /\ tasks'[u].signalled => tasks'[u].generation < s.pending.generation
                          /\ ~tasks'[u].signalled =>
                               /\ s.pending.waiter = u
                               /\ tasks'[u].generation = s.pending.generation
                               /\ s.next <= tasks'[u].due
    BY DEF WaitersInOrder
  <2>1. CASE u = t
    <3>1. slots[k].next <= Due(slot)
      BY <1>7 DEF Due
    <3> QED
      BY <1>4, <1>6, <2>1, <3>1
  <2>2. ASSUME u # t PROVE Waiting(u) /\ tasks[u].key \in Key /\ tasks[u].generation \in Nat
    BY <1>2, <1>8, <2>2 DEF Waiting, Inv, TypeOK, TaskRecord
  <2>3. CASE u # t /\ tasks[u].key = k
    <3>1. /\ slots[k].pending # NoPending
          /\ tasks[u].signalled => tasks[u].generation < slots[k].pending.generation
          /\ ~tasks[u].signalled => /\ slots[k].pending.waiter = u
                                    /\ tasks[u].generation = slots[k].pending.generation
      BY <2>2, <2>3 DEF Inv, WaitersInOrder
    <3>2. /\ slots[k].pending.generation \in Nat
          /\ slots[k].generation \in Nat
          /\ slots[k].pending.generation <= slots[k].generation
      BY <3>1 DEF Inv, TypeOK, Slot, Reservation, GenerationsGrow
    <3>3. tasks[u].generation < slot.generation
      BY <2>2, <2>3, <3>1, <3>2
    <3>4. tasks'[u].signalled
      BY <1>3, <2>2, <2>3, <3>1
    <3> QED
      BY <1>2, <1>6, <2>3, <3>3, <3>4
  <2>4. CASE u # t /\ tasks[u].key # k
    <3>1. slots'[tasks[u].key] = slots[tasks[u].key]
      BY <1>1, <2>2, <2>4 DEF Inv, WaitersInOrder
    <3>2. tasks'[u].signalled <=> tasks[u].signalled
      <4>1. slot.pending # NoPending => slot.pending.waiter # u
        BY <2>4 DEF Inv, GenerationsGrow
      <4> QED
        BY <1>3, <2>4, <4>1
    <3>3. /\ slots[tasks[u].key] # NoSlot
          /\ slots[tasks[u].key].pending # NoPending
          /\ tasks[u].signalled => tasks[u].generation < slots[tasks[u].key].pending.generation
          /\ ~tasks[u].signalled =>
               /\ slots[tasks[u].key].pending.waiter = u
               /\ tasks[u].generation = slots[tasks[u].key].pending.generation
               /\ slots[tasks[u].key].next <= tasks[u].due
      BY <2>2, <2>4 DEF Inv, WaitersInOrder
    <3> QED
      BY <1>2, <2>4, <3>1, <3>2, <3>3
  <2> QED
    BY <2>1, <2>3, <2>4
<1>12. AdmittedBefore'
  <2> SUFFICES ASSUME NEW u \in Task, tasks'[u].step = "admitted", ~closed'
               PROVE  LET s == slots'[tasks'[u].key]
                      IN  /\ s = NoSlot => tasks'[u].at + MinInterval <= now'
                          /\ s # NoSlot => tasks'[u].at + MinInterval <= s.next
    BY <1>2, <1>4 DEF AdmittedBefore, HasPermit
  <2>1. u # t /\ tasks[u].step = "admitted" /\ tasks[u].key \in Key
    BY <1>2, <1>4, <1>8
  <2>2. tasks'[u].at = tasks[u].at /\ tasks'[u].key = tasks[u].key /\ tasks[u].at \in Nat
    BY <1>2, <2>1 DEF Inv, TypeOK, TaskRecord
  <2>3. slots[tasks[u].key] # NoSlot => slots[tasks[u].key].next \in Nat
    BY <2>1 DEF Inv, TypeOK, Slot
  <2>4. /\ slots[tasks[u].key] = NoSlot => tasks[u].at + MinInterval <= now
        /\ slots[tasks[u].key] # NoSlot => tasks[u].at + MinInterval <= slots[tasks[u].key].next
    BY <2>1 DEF Inv, AdmittedBefore
  <2> QED
    BY <1>1, <1>6, <1>7, <2>1, <2>2, <2>3, <2>4
<1>13. IntervalRespected'
  BY <1>2, <1>4 DEF Inv, IntervalRespected
<1> QED
  BY <1>9, <1>10, <1>11, <1>12, <1>13 DEF Inv

(* It survives a commit: while a permit is out nobody waits for its key, and *)
(* every activation of the key ended its interval before the permit.        *)
LEMMA TaskCommits ==
  ASSUME Inv, TypeOK', NEW t \in Task, Commit(t)
  PROVE  Inv'
<1> DEFINE k == tasks[t].key
<1>1. HasPermit(t) /\ k \in Key /\ now' = now /\ closed' = closed
  BY DEF Commit, HasPermit, Inv, TypeOK
<1>2. /\ ~closed
      /\ slots[k] \in Slot
      /\ slots[k] # NoSlot
      /\ slots[k].next = tasks[t].at + MinInterval
      /\ slots[k].claimed = tasks[t].generation
      /\ slots[k].pending = NoPending
      /\ tasks[t].previous <= tasks[t].at
      /\ tasks[t].at <= now
  BY <1>1 DEF Inv, PermitsHold, TypeOK
<1>3. /\ now \in Nat /\ MinInterval \in Nat
      /\ \A u \in Task : tasks[u].at \in Nat /\ tasks[u].previous \in Nat
  BY ReservationAssumption DEF Inv, TypeOK, TaskRecord
<1>4. \A u \in Task : tasks[u].step # "new" => tasks[u].key \in Key
  BY DEF Inv, TypeOK
<1>5. PICK admitted \in BOOLEAN :
        /\ Ends(t, IF admitted THEN "admitted" ELSE "rejected")
        /\ slots' = Prune([slots EXCEPT ![k].claimed = 0, ![k].next = NextAfter(t, admitted)])
  BY <1>2 DEF Commit
<1>6. /\ \A u \in Task \ {t} : tasks'[u] = tasks[u]
      /\ tasks'[t].step = (IF admitted THEN "admitted" ELSE "rejected")
      /\ tasks'[t].key = k
      /\ tasks'[t].at = tasks[t].at
  BY <1>5 DEF Ends, NewTask, Inv, TypeOK
<1> DEFINE table == [slots EXCEPT ![k].claimed = 0, ![k].next = NextAfter(t, admitted)]
<1>7. table \in [Key -> Slot \cup {NoSlot}]
  BY <1>1, <1>2 DEF Inv, TypeOK, Slot, NextAfter, TaskRecord
<1>8. /\ table[k].next = NextAfter(t, admitted)
      /\ table[k].claimed = 0
      /\ table[k].pending = NoPending
      /\ \A j \in Key \ {k} : table[j] = slots[j]
  BY <1>1, <1>2 DEF Inv, TypeOK, Slot
<1>9. \A j \in Key \ {k} : slots'[j] = slots[j] \/
        /\ slots'[j] = NoSlot
        /\ slots[j] # NoSlot
        /\ slots[j].pending = NoPending
        /\ slots[j].next <= now
  BY <1>5, <1>7, <1>8, PruneKeeps
<1>10. table[k] # NoSlot
  <2>1. NextAfter(t, admitted) \in Nat
    BY <1>2, <1>3 DEF NextAfter, Slot
  <2>2. table[k] = [slots[k] EXCEPT !.claimed = 0, !.next = NextAfter(t, admitted)]
    BY <1>1 DEF Inv, TypeOK
  <2>3. [slots[k] EXCEPT !.claimed = 0, !.next = NextAfter(t, admitted)] \in Slot
    BY <1>2, <2>1 DEF Slot
  <2> QED
    BY <2>2, <2>3, ReservationAssumption
<1>11. /\ slots'[k] # NoSlot => slots'[k] = table[k]
       /\ slots'[k] = NoSlot => table[k].next <= now
  BY <1>1, <1>5, <1>7, <1>10, PruneKeeps
<1> HIDE DEF table
<1>12. \A u \in Task : Waiting(u) => tasks[u].key # k
  BY <1>1, <1>2 DEF Inv, WaitersInOrder
<1>13. \A u \in Task : ~HasPermit(u)'
  BY <1>1, <1>6 DEF Inv, PermitsHold, HasPermit
<1>14. PermitsHold'
  BY <1>13 DEF PermitsHold
<1>15. GenerationsGrow'
  <2> SUFFICES ASSUME NEW j \in Key, slots'[j] # NoSlot, slots'[j].pending # NoPending
               PROVE  /\ slots'[j].pending.generation <= slots'[j].generation
                      /\ tasks'[slots'[j].pending.waiter].step # "new"
                      /\ tasks'[slots'[j].pending.waiter].key = j
    BY DEF GenerationsGrow
  <2>1. j # k /\ slots'[j] = slots[j]
    BY <1>8, <1>9, <1>11
  <2>2. slots[j].pending.waiter \in Task
    BY <2>1 DEF Inv, TypeOK, Slot, Reservation
  <2>3. /\ slots[j].pending.generation <= slots[j].generation
        /\ tasks[slots[j].pending.waiter].step # "new"
        /\ tasks[slots[j].pending.waiter].key = j
    BY <2>1 DEF Inv, GenerationsGrow
  <2> QED
    BY <1>6, <2>1, <2>2, <2>3
<1>16. WaitersInOrder'
  <2> SUFFICES ASSUME NEW u \in Task, Waiting(u)'
               PROVE  LET s == slots'[tasks'[u].key]
                      IN  /\ s # NoSlot
                          /\ s.pending # NoPending
                          /\ tasks'[u].signalled => tasks'[u].generation < s.pending.generation
                          /\ ~tasks'[u].signalled =>
                               /\ s.pending.waiter = u
                               /\ tasks'[u].generation = s.pending.generation
                               /\ s.next <= tasks'[u].due
    BY DEF WaitersInOrder
  <2>1. u # t /\ tasks'[u] = tasks[u] /\ Waiting(u) /\ tasks[u].key \in Key \ {k}
    BY <1>4, <1>6, <1>12 DEF Waiting
  <2> QED
    BY <1>2, <1>9, <2>1 DEF Inv, WaitersInOrder
<1>17. \A u \in Task \ {t} : tasks[u].step = "admitted" =>
         /\ slots[tasks[u].key] = NoSlot => tasks[u].at + MinInterval <= now
         /\ slots[tasks[u].key] # NoSlot => tasks[u].at + MinInterval <= slots[tasks[u].key].next
         /\ tasks[u].key = k => tasks[u].at + MinInterval <= tasks[t].at
  BY <1>1, <1>2 DEF Inv, AdmittedBefore
<1>18. AdmittedBefore'
  <2> SUFFICES ASSUME NEW u \in Task, tasks'[u].step = "admitted"
               PROVE  LET s == slots'[tasks'[u].key]
                      IN  /\ s = NoSlot => tasks'[u].at + MinInterval <= now'
                          /\ s # NoSlot => tasks'[u].at + MinInterval <= s.next
    BY <1>13 DEF AdmittedBefore
  <2>1. CASE u = t
    <3>1. admitted /\ NextAfter(t, admitted) = tasks[t].at + MinInterval
      BY <1>2, <1>6, <2>1 DEF NextAfter
    <3>2. slots'[k] = NoSlot => tasks[t].at + MinInterval <= now
      BY <1>8, <1>11, <3>1
    <3>3. slots'[k] # NoSlot => tasks[t].at + MinInterval <= slots'[k].next
      <4>1. slots'[k] # NoSlot => slots'[k].next = tasks[t].at + MinInterval
        BY <1>8, <1>11, <3>1
      <4> QED
        BY <1>3, <4>1
    <3> QED
      BY <1>1, <1>6, <2>1, <3>2, <3>3
  <2>2. CASE u # t /\ tasks[u].key = k
    <3>1. tasks'[u] = tasks[u] /\ tasks[u].at + MinInterval <= tasks[t].at
      BY <1>6, <1>17, <2>2
    <3>2. CASE slots'[k] = NoSlot
      BY <1>1, <1>2, <1>3, <2>2, <3>1, <3>2
    <3>3. CASE slots'[k] # NoSlot
      <4>1. slots'[k].next = NextAfter(t, admitted)
        BY <1>8, <1>11, <3>3
      <4>2. CASE admitted
        <5>1. slots'[k].next = tasks[t].at + MinInterval
          BY <1>2, <4>1, <4>2 DEF NextAfter
        <5> QED
          BY <1>3, <2>2, <3>1, <3>3, <5>1
      <4>3. CASE ~admitted
        <5>1. table[k].next <= now
          BY <1>2, <1>3, <1>8, <4>3 DEF NextAfter
        <5>2. Prune(table)[k] = NoSlot
          BY <1>1, <1>8, <5>1 DEF Prune
        <5> QED
          BY <1>5, <3>3, <5>2 DEF table
      <4> QED
        BY <4>2, <4>3
    <3> QED
      BY <3>2, <3>3
  <2>3. CASE u # t /\ tasks[u].key # k
    <3>1. tasks'[u] = tasks[u] /\ tasks[u].key \in Key \ {k}
      BY <1>4, <1>6, <2>3
    <3>2. slots[tasks[u].key] # NoSlot => slots[tasks[u].key].next \in Nat
      BY <3>1 DEF Inv, TypeOK, Slot
    <3> QED
      BY <1>1, <1>3, <1>9, <1>17, <2>3, <3>1, <3>2
  <2> QED
    BY <2>1, <2>2, <2>3
<1>19. IntervalRespected'
  BY <1>6, <1>17 DEF Inv, IntervalRespected
<1> QED
  BY <1>14, <1>15, <1>16, <1>18, <1>19 DEF Inv

(* Every step keeps the invariant while handlers do not suspend.            *)
LEMMA InvNext == ASSUME ~Suspends PROVE Inv /\ [Next]_vars => Inv'
<1> SUFFICES ASSUME Inv, [Next]_vars PROVE Inv'
  OBVIOUS
<1>1. TypeOK /\ TypeOK'
  BY TypeNext DEF Inv
<1>2. \A t \in Task : LoopIsFree => ~HasPermit(t)
  BY DEF LoopIsFree, HasPermit
<1>3. now \in Nat /\ MinInterval \in Nat
  BY <1>1, ReservationAssumption DEF TypeOK
<1>4. CASE Tick
  <2>1. slots' = slots /\ closed' = closed /\ tasks' = tasks /\ now' = now + 1
    BY <1>4 DEF Tick
  <2>2. \A t \in Task : tasks[t].at \in Nat
    BY <1>1 DEF TypeOK, TaskRecord
  <2>3. PermitsHold'
    BY <1>3, <2>1, <2>2 DEF Inv, PermitsHold, HasPermit
  <2>4. GenerationsGrow' /\ IntervalRespected'
    BY <2>1 DEF Inv, GenerationsGrow, IntervalRespected
  <2>5. WaitersInOrder'
    BY <2>1 DEF Inv, WaitersInOrder, Waiting
  <2>6. AdmittedBefore'
    BY <1>3, <2>1, <2>2 DEF Inv, AdmittedBefore, HasPermit
  <2> QED
    BY <1>1, <2>3, <2>4, <2>5, <2>6 DEF Inv
<1>5. ASSUME NEW t \in Task, NEW k \in Key, Reserve(t, k) PROVE Inv'
  <2> DEFINE pruned == Prune(slots)
             slot == [(IF pruned[k] = NoSlot THEN NewSlot ELSE pruned[k])
                        EXCEPT !.generation = @ + 1]
             free == slot.claimed = 0 /\ slot.pending = NoPending /\ now >= slot.next
  <2>1. /\ tasks[t].step = "new" /\ now' = now /\ closed' = closed
        /\ \A u \in Task : ~HasPermit(u)
    BY <1>2, <1>5 DEF Reserve
  <2>2. /\ pruned \in [Key -> Slot \cup {NoSlot}]
        /\ pruned[k] # NoSlot => pruned[k] = slots[k]
        /\ pruned[k] = NoSlot /\ slots[k] # NoSlot =>
             slots[k].pending = NoPending /\ slots[k].next <= now
    BY <1>1, PruneKeeps DEF TypeOK
  <2>3. slot \in Slot
    BY <2>2, NextSlotType
  <2>4. CASE \E outcome \in {"shutdown", "inert"} :
               /\ tasks' = [tasks EXCEPT ![t].step = outcome, ![t].key = k]
               /\ slots' \in {slots, pruned}
    <3>1. /\ \A u \in Task \ {t} : tasks'[u] = tasks[u]
          /\ tasks'[t].step \in {"shutdown", "inert"}
      BY <1>1, <2>4 DEF TypeOK, TaskRecord
    <3> QED
      BY <1>1, <2>1, <2>4, <3>1, TaskEnds
  <2>5. CASE /\ ~closed
             /\ free
             /\ slots' = [pruned EXCEPT ![k] = Claimed(slot, slot.generation)]
             /\ tasks' = [tasks EXCEPT ![t] = Permit(k, slot, slot.generation)]
    <3>1. slot.generation \in Nat /\ slot.next \in Nat
      BY <2>3 DEF Slot
    <3>2. slots[k] # NoSlot => slots[k].pending = NoPending /\ slots[k].next <= now
      <4>1. CASE pruned[k] = NoSlot
        BY <2>2, <4>1
      <4>2. CASE pruned[k] # NoSlot
        <5>1. slots[k] \in Slot /\ slot = [slots[k] EXCEPT !.generation = @ + 1]
          BY <2>2, <4>2
        <5>2. slot.pending = slots[k].pending /\ slot.next = slots[k].next
          BY <5>1 DEF Slot
        <5> HIDE DEF slot
        <5> QED
          BY <1>3, <2>5, <3>1, <5>2
      <4> QED
        BY <4>1, <4>2
    <3>3. \A u \in Task \ {t} : ~(Waiting(u) /\ tasks[u].key = k)
      BY <2>5, <3>2 DEF Inv, WaitersInOrder
    <3>4. slot.next <= now
      BY <1>3, <2>5, <3>1
    <3> HIDE DEF slot
    <3> QED
      BY <1>1, <2>1, <2>3, <2>5, <3>1, <3>2, <3>3, <3>4, TaskClaims
  <2>6. CASE /\ ~free
             /\ slots' = [pruned EXCEPT ![k] =
                            [slot EXCEPT !.pending = [generation |-> slot.generation, waiter |-> t]]]
             /\ tasks' = [Supersede(slot) EXCEPT ![t] = Waiter(k, slot)]
    <3>1. pruned[k] # NoSlot
      <4>1. pruned[k] = NoSlot => slot.claimed = 0 /\ slot.pending = NoPending /\ slot.next = 0
        BY DEF NewSlot
      <4> HIDE DEF slot, pruned
      <4> QED
        BY <1>3, <2>6, <4>1
    <3>2. slots[k] # NoSlot /\ slots[k] \in Slot /\ slot = [slots[k] EXCEPT !.generation = @ + 1]
      BY <2>2, <3>1
    <3>3. /\ slot.next = slots[k].next
          /\ slot.pending = slots[k].pending
          /\ slot.generation = slots[k].generation + 1
      BY <3>2 DEF Slot
    <3> HIDE DEF slot
    <3> QED
      BY <1>1, <2>1, <2>3, <2>6, <3>2, <3>3, TaskWaits
  <2> QED
    BY <1>5, <2>4, <2>5, <2>6 DEF Reserve
<1>6. ASSUME NEW t \in Task, Wake(t) PROVE Inv'
  <2> DEFINE k == tasks[t].key
  <2>1. /\ Waiting(t) /\ Resumed(t) /\ now' = now /\ closed' = closed
        /\ \A u \in Task : ~HasPermit(u)
    BY <1>2, <1>6 DEF Wake
  <2>2. k \in Key /\ tasks[t].generation \in Nat /\ tasks[t].due \in Nat
    BY <1>1, <2>1 DEF Waiting, TypeOK, TaskRecord
  <2>3. ASSUME NEW outcome \in {"shutdown", "superseded"}, Ends(t, outcome), UNCHANGED slots
        PROVE  Inv'
    <3>1. /\ \A u \in Task \ {t} : tasks'[u] = tasks[u]
          /\ tasks'[t].step = outcome /\ tasks'[t].key = tasks[t].key
      BY <1>1, <2>3 DEF Ends, NewTask, TypeOK
    <3> QED
      BY <1>1, <2>1, <2>3, <3>1, TaskEnds
  <2>4. CASE /\ ~closed /\ StillPending(t) /\ now >= tasks[t].due
             /\ slots' = [slots EXCEPT ![k] = Claimed(slots[k], tasks[t].generation)]
             /\ tasks' = [tasks EXCEPT ![t] = Permit(k, slots[k], tasks[t].generation)]
    <3>1. /\ slots[k] \in Slot
          /\ slots[k].pending \in Reservation
          /\ slots[k].pending.generation = tasks[t].generation
      BY <1>1, <2>2, <2>4 DEF StillPending, TypeOK, Slot
    <3>2. ~tasks[t].signalled
      <4>1. tasks[t].signalled => tasks[t].generation < slots[k].pending.generation
        BY <2>1, <2>4 DEF Inv, WaitersInOrder
      <4> QED
        BY <2>2, <3>1, <4>1
    <3>3. slots[k].pending.waiter = t /\ slots[k].next <= tasks[t].due
      BY <2>1, <2>4, <3>2 DEF Inv, WaitersInOrder
    <3>4. slots[k].next <= now
      <4>1. slots[k].next \in Nat
        BY <3>1 DEF Slot
      <4> QED
        BY <1>3, <2>2, <2>4, <3>3, <4>1
    <3>5. \A u \in Task \ {t} : ~(Waiting(u) /\ tasks[u].key = k)
      <4>1. \A u \in Task : Waiting(u) /\ tasks[u].key = k => ~tasks[u].signalled
        BY <2>1, <3>2 DEF Resumed
      <4> QED
        BY <2>4, <3>3, <4>1 DEF Inv, WaitersInOrder
    <3>6. tasks[t].step = "waiting"
      BY <2>1 DEF Waiting
    <3> QED
      BY <1>1, <2>1, <2>2, <2>4, <3>1, <3>4, <3>5, <3>6, TaskClaims
  <2> QED
    BY <1>6, <2>3, <2>4 DEF Wake
<1>7. ASSUME NEW t \in Task, Commit(t) PROVE Inv'
  BY <1>1, <1>7, TaskCommits
<1>8. ASSUME NEW t \in Task, Cancel(t) PROVE Inv'
  <2>1. /\ \A u \in Task \ {t} : tasks'[u] = tasks[u]
        /\ tasks'[t].step = "cancelled" /\ tasks'[t].key = tasks[t].key
    BY <1>1, <1>8 DEF Cancel, Ends, NewTask, TypeOK
  <2>2. /\ slots' = slots /\ now' = now /\ closed' = closed
        /\ \A u \in Task : ~HasPermit(u)
    BY <1>2, <1>8 DEF Cancel
  <2> QED
    BY <1>1, <2>1, <2>2, TaskEnds
<1>9. CASE Close
  <2>1. /\ closed' /\ \A k \in Key : slots'[k] = NoSlot
        /\ \A u \in Task : ~HasPermit(u)
    BY <1>2, <1>9 DEF Close
  <2>2. \A u \in Task : /\ tasks'[u].step = tasks[u].step
                        /\ tasks'[u].key = tasks[u].key
                        /\ tasks'[u].at = tasks[u].at
    BY <1>1, <1>9 DEF Close, TypeOK, TaskRecord
  <2> QED
    BY <1>1, <2>1, <2>2 DEF Inv, PermitsHold, HasPermit, GenerationsGrow, WaitersInOrder, Waiting,
       AdmittedBefore, IntervalRespected
<1>10. CASE UNCHANGED vars
  BY <1>1, <1>10 DEF vars, Inv, PermitsHold, HasPermit, GenerationsGrow, WaitersInOrder, Waiting,
     AdmittedBefore, IntervalRespected
<1> QED
  BY <1>4, <1>5, <1>6, <1>7, <1>8, <1>9, <1>10 DEF Next

(* The minimum interval holds for every number of keys, messages and slots  *)
(* when, as in main.py, no other task runs between reserve and commit       *)
(* (activate_native_agent, src/main.py:888-903).                            *)
THEOREM IntervalAlwaysRespected == ASSUME ~Suspends PROVE Spec => []IntervalRespected
<1>1. Inv => IntervalRespected
  BY DEF Inv
<1> QED
  BY <1>1, InvInit, InvNext, PTL DEF Spec
----------------------------------------------------------------------------
(* What uses up an interval.                                                *)

PaidFor(k) ==
  slots[k] # NoSlot /\ slots[k].next > now =>
    \E t \in Task : /\ tasks[t].key = k
                    /\ tasks[t].step \in {"permit", "admitted"}
                    /\ slots[k].next = tasks[t].at + MinInterval

(* An interval that goes on is paid for by the same message as before.      *)
LEMMA StillPaid ==
  ASSUME TypeOK, TypeOK', NEW k \in Key, PaidFor(k), now <= now',
         slots'[k] # NoSlot => slots[k] # NoSlot /\ slots'[k].next = slots[k].next,
         \A u \in Task :
           tasks[u].step \in {"permit", "admitted"} /\ tasks[u].key = k =>
             /\ tasks'[u].step \in {"permit", "admitted"}
             /\ tasks'[u].key = k /\ tasks'[u].at = tasks[u].at
  PROVE  PaidFor(k)'
<1> SUFFICES ASSUME slots'[k] # NoSlot, slots'[k].next > now'
    PROVE  \E t \in Task : /\ tasks'[t].key = k
                           /\ tasks'[t].step \in {"permit", "admitted"}
                           /\ slots'[k].next = tasks'[t].at + MinInterval
  BY DEF PaidFor
<1>1. slots[k] # NoSlot /\ slots'[k].next = slots[k].next /\ slots[k].next \in Nat
      /\ now \in Nat /\ now' \in Nat
  BY DEF TypeOK, Slot
<1>2. slots[k].next > now
  BY <1>1
<1>3. PICK t \in Task : /\ tasks[t].key = k
                        /\ tasks[t].step \in {"permit", "admitted"}
                        /\ slots[k].next = tasks[t].at + MinInterval
  BY <1>1, <1>2 DEF PaidFor
<1> QED
  BY <1>1, <1>3

(* A claim is paid for by the message that claims.                          *)
LEMMA ClaimIsPaid ==
  ASSUME TypeOK, NEW k \in Key, NEW t \in Task, NEW slot, NEW generation,
         slots'[k] = Claimed(slot, generation), tasks'[t] = Permit(k, slot, generation)
  PROVE  PaidFor(k)'
<1>1. slots'[k].next = now + MinInterval
  BY DEF Claimed
<1>2. tasks'[t].key = k /\ tasks'[t].step = "permit" /\ tasks'[t].at = now
  BY DEF Permit, NewTask
<1> QED
  BY <1>1, <1>2 DEF PaidFor

(* Every step keeps it while handlers do not suspend.                       *)
LEMMA PaidNext ==
  ASSUME ~Suspends, Inv, IntervalIsPaidFor, [Next]_vars, NEW k \in Key
  PROVE  PaidFor(k)'
<1>1. TypeOK /\ TypeOK' /\ PaidFor(k)
  BY TypeNext DEF Inv, IntervalIsPaidFor, PaidFor
<1>2. now \in Nat /\ MinInterval \in Nat
  BY <1>1, ReservationAssumption DEF TypeOK
<1>3. ASSUME slots' = slots, tasks' = tasks, now <= now' PROVE PaidFor(k)'
  BY <1>1, <1>3, StillPaid
<1>4. CASE Tick \/ UNCHANGED vars
  BY <1>2, <1>3, <1>4 DEF Tick, vars
<1>5. CASE Close
  BY <1>5 DEF Close, PaidFor
<1>6. ASSUME NEW t \in Task, \/ tasks[t].step \notin {"permit", "admitted"}
                             \/ tasks[t].key # k
                             \/ /\ tasks'[t].step \in {"permit", "admitted"}
                                /\ tasks'[t].key = tasks[t].key
                                /\ tasks'[t].at = tasks[t].at,
             \A u \in Task \ {t} : /\ tasks'[u].step = tasks[u].step
                                  /\ tasks'[u].key = tasks[u].key
                                  /\ tasks'[u].at = tasks[u].at,
             slots'[k] # NoSlot => slots[k] # NoSlot /\ slots'[k].next = slots[k].next,
             now' = now
      PROVE  PaidFor(k)'
  BY <1>1, <1>2, <1>6, StillPaid
<1>7. ASSUME NEW t \in Task, NEW j \in Key, Reserve(t, j) PROVE PaidFor(k)'
  <2> DEFINE pruned == Prune(slots)
             slot == [(IF pruned[j] = NoSlot THEN NewSlot ELSE pruned[j])
                        EXCEPT !.generation = @ + 1]
             free == slot.claimed = 0 /\ slot.pending = NoPending /\ now >= slot.next
  <2>1. tasks[t].step = "new" /\ now' = now
    BY <1>7 DEF Reserve
  <2>2. /\ pruned \in [Key -> Slot \cup {NoSlot}]
        /\ pruned[k] # NoSlot => pruned[k] = slots[k]
    BY <1>1, PruneKeeps DEF TypeOK
  <2>3. CASE \E outcome \in {"shutdown", "inert"} :
               /\ tasks' = [tasks EXCEPT ![t].step = outcome, ![t].key = j]
               /\ slots' \in {slots, pruned}
    <3>1. \A u \in Task \ {t} : tasks'[u] = tasks[u]
      BY <1>1, <2>3 DEF TypeOK
    <3>2. slots'[k] # NoSlot => slots'[k] = slots[k]
      BY <2>2, <2>3
    <3> QED
      BY <1>6, <2>1, <3>1, <3>2
  <2>4. CASE /\ slots' = [pruned EXCEPT ![j] = Claimed(slot, slot.generation)]
             /\ tasks' = [tasks EXCEPT ![t] = Permit(j, slot, slot.generation)]
    <3> HIDE DEF slot
    <3>1. CASE j = k
      <4>1. slots'[k] = Claimed(slot, slot.generation)
        BY <2>2, <2>4, <3>1
      <4>2. tasks'[t] = Permit(k, slot, slot.generation)
        BY <1>1, <2>4, <3>1 DEF TypeOK
      <4> QED
        BY <1>1, <4>1, <4>2, ClaimIsPaid
    <3>2. CASE j # k
      <4>1. slots'[k] = pruned[k] /\ \A u \in Task \ {t} : tasks'[u] = tasks[u]
        BY <1>1, <2>2, <2>4, <3>2 DEF TypeOK
      <4> QED
        BY <1>6, <2>1, <2>2, <4>1
    <3> QED
      BY <3>1, <3>2
  <2>5. CASE /\ ~free
             /\ slots' = [pruned EXCEPT ![j] =
                            [slot EXCEPT !.pending = [generation |-> slot.generation, waiter |-> t]]]
             /\ tasks' = [Supersede(slot) EXCEPT ![t] = Waiter(j, slot)]
    <3>1. \A u \in Task \ {t} : /\ tasks'[u].step = tasks[u].step
                                /\ tasks'[u].key = tasks[u].key
                                /\ tasks'[u].at = tasks[u].at
      <4> HIDE DEF slot
      <4> QED
        BY <1>1, <2>5 DEF Supersede, TypeOK, TaskRecord
    <3>2. CASE j # k
      <4>1. slots'[k] = pruned[k]
        BY <2>2, <2>5, <3>2
      <4> QED
        BY <1>6, <2>1, <2>2, <3>1, <4>1
    <3>3. CASE j = k
      <4>1. pruned[j] # NoSlot
        <5>1. pruned[j] = NoSlot => slot.claimed = 0 /\ slot.pending = NoPending /\ slot.next = 0
          BY DEF NewSlot
        <5> HIDE DEF slot, pruned
        <5> QED
          BY <1>2, <2>5, <5>1
      <4>2. slots[k] # NoSlot /\ slots[k] \in Slot /\ slot = [slots[k] EXCEPT !.generation = @ + 1]
        BY <2>2, <3>3, <4>1
      <4>3. slot.next = slots[k].next /\ slot \in Slot
        BY <4>2 DEF Slot
      <4> HIDE DEF slot
      <4>4. slots'[k].next = slots[k].next
        BY <2>2, <2>5, <3>3, <4>3 DEF Slot
      <4> QED
        BY <1>6, <2>1, <3>1, <4>2, <4>4
    <3> QED
      BY <3>2, <3>3
  <2> QED
    BY <1>7, <2>3, <2>4, <2>5 DEF Reserve
<1>8. ASSUME NEW t \in Task, Wake(t) PROVE PaidFor(k)'
  <2> DEFINE j == tasks[t].key
  <2>1. Waiting(t) /\ now' = now /\ j \in Key
    BY <1>1, <1>8 DEF Wake, Waiting, TypeOK
  <2>2. CASE slots' = slots /\ \E outcome \in {"shutdown", "superseded"} : Ends(t, outcome)
    BY <1>1, <1>6, <2>1, <2>2 DEF Ends, Waiting, TypeOK
  <2>3. CASE /\ slots' = [slots EXCEPT ![j] = Claimed(slots[j], tasks[t].generation)]
             /\ tasks' = [tasks EXCEPT ![t] = Permit(j, slots[j], tasks[t].generation)]
    <3>1. CASE j = k
      <4>1. slots'[k] = Claimed(slots[k], tasks[t].generation)
        BY <1>1, <2>3, <3>1 DEF TypeOK
      <4>2. tasks'[t] = Permit(k, slots[k], tasks[t].generation)
        BY <1>1, <2>3, <3>1 DEF TypeOK
      <4> QED
        BY <1>1, <4>1, <4>2, ClaimIsPaid
    <3>2. CASE j # k
      BY <1>1, <1>6, <2>1, <2>3, <3>2 DEF TypeOK, Waiting
    <3> QED
      BY <3>1, <3>2
  <2> QED
    BY <1>8, <2>2, <2>3 DEF Wake
<1>9. ASSUME NEW t \in Task, Commit(t) PROVE PaidFor(k)'
  <2> DEFINE j == tasks[t].key
  <2>1. /\ j \in Key /\ slots[j] # NoSlot /\ slots[j] \in Slot /\ now' = now
        /\ slots[j].claimed = tasks[t].generation
        /\ tasks[t].step = "permit" /\ tasks[t].previous <= now
    <3>1. tasks[t].step = "permit" /\ j \in Key /\ now' = now
      BY <1>1, <1>9 DEF Commit, TypeOK
    <3>2. /\ slots[j] # NoSlot /\ slots[j].claimed = tasks[t].generation
          /\ tasks[t].previous <= tasks[t].at /\ tasks[t].at <= now
      BY <3>1 DEF Inv, PermitsHold, HasPermit
    <3>3. tasks[t].previous \in Nat /\ tasks[t].at \in Nat /\ slots[j] \in Slot
      BY <1>1, <3>1, <3>2 DEF TypeOK, TaskRecord
    <3> QED
      BY <1>2, <3>1, <3>2, <3>3
  <2>2. PICK admitted \in BOOLEAN :
          /\ Ends(t, IF admitted THEN "admitted" ELSE "rejected")
          /\ slots' = Prune([slots EXCEPT ![j].claimed = 0, ![j].next = NextAfter(t, admitted)])
    BY <1>9, <2>1 DEF Commit
  <2> DEFINE table == [slots EXCEPT ![j].claimed = 0, ![j].next = NextAfter(t, admitted)]
  <2>3. /\ \A u \in Task \ {t} : tasks'[u] = tasks[u]
        /\ tasks'[t].step = IF admitted THEN "admitted" ELSE "rejected"
        /\ tasks'[t].key = j /\ tasks'[t].at = tasks[t].at
    BY <1>1, <2>2 DEF Ends, NewTask, TypeOK
  <2>4. slots'[k] # NoSlot => slots'[k] = table[k]
    BY <2>2 DEF Prune
  <2>5. CASE j # k
    <3>1. table[k] = slots[k]
      BY <1>1, <2>5 DEF TypeOK
    <3> QED
      BY <1>6, <2>1, <2>3, <2>4, <2>5, <3>1
  <2>6. CASE j = k
    <3>1. table[k].next = NextAfter(t, admitted) /\ slots[k] # NoSlot
      BY <1>1, <2>1, <2>6 DEF TypeOK, Slot
    <3>2. CASE admitted
      <4>1. table[k].next = slots[k].next
        BY <2>6, <3>1, <3>2 DEF NextAfter
      <4> QED
        <5>1. slots'[k] # NoSlot => slots[k] # NoSlot /\ slots'[k].next = slots[k].next
          BY <2>4, <3>1, <4>1
        <5>2. /\ tasks'[t].step \in {"permit", "admitted"}
              /\ tasks'[t].key = tasks[t].key /\ tasks'[t].at = tasks[t].at
          BY <2>3, <3>2
        <5>3. \A u \in Task \ {t} : /\ tasks'[u].step = tasks[u].step
                                    /\ tasks'[u].key = tasks[u].key
                                    /\ tasks'[u].at = tasks[u].at
          BY <2>3
        <5> QED
          BY <1>6, <2>1, <5>1, <5>2, <5>3
    <3>3. CASE ~admitted
      <4>1. table[k].next = tasks[t].previous /\ tasks[t].previous \in Nat
        BY <1>1, <3>1, <3>3 DEF NextAfter, TypeOK, TaskRecord
      <4>2. slots'[k] # NoSlot => slots'[k].next = tasks[t].previous
        BY <2>4, <4>1
      <4>3. slots'[k] # NoSlot => ~(slots'[k].next > now')
        <5>1. tasks[t].previous <= now /\ now' = now
          BY <2>1
        <5> QED
          BY <1>2, <4>1, <4>2, <5>1
      <4> QED
        BY <4>3 DEF PaidFor
    <3> QED
      BY <3>2, <3>3
  <2> QED
    BY <2>5, <2>6
<1>10. ASSUME NEW t \in Task, Cancel(t) PROVE PaidFor(k)'
  BY <1>1, <1>6, <1>10 DEF Cancel, Ends, Waiting, TypeOK
<1> QED
  BY <1>4, <1>5, <1>7, <1>8, <1>9, <1>10 DEF Next

(* An interval is used up only by a message that was admitted or is being   *)
(* decided, so that no rejected or superseded message holds its key back    *)
(* (commit's rollback, src/activation_reservation.py:205-220).              *)
THEOREM OnlyActivationsUseUpIntervals ==
  ASSUME ~Suspends PROVE Spec => []IntervalIsPaidFor
<1>1. Init => IntervalIsPaidFor
  BY DEF Init, IntervalIsPaidFor
<1>2. Inv /\ IntervalIsPaidFor /\ [Next]_vars => IntervalIsPaidFor'
  BY PaidNext DEF IntervalIsPaidFor, PaidFor
<1> QED
  BY <1>1, <1>2, InvInit, InvNext, PTL DEF Spec
----------------------------------------------------------------------------
(* The waiters of a key, for any caller.                                    *)

(* A waiter that was told to stop has been overtaken, one that was not is   *)
(* the one its slot waits for; when the slots are gone everybody was told.  *)
QueueInOrder ==
  \A t \in Task :
    Waiting(t) =>
      IF closed THEN tasks[t].signalled
      ELSE LET slot == slots[tasks[t].key]
           IN  /\ slot # NoSlot
               /\ slot.pending # NoPending
               /\ tasks[t].signalled => tasks[t].generation < slot.pending.generation
               /\ ~tasks[t].signalled => /\ slot.pending.waiter = t
                                         /\ tasks[t].generation = slot.pending.generation

QueueInv == TypeOK /\ GenerationsGrow /\ QueueInOrder

(* The slot of a key keeps its queue: its reservation and its counter stay, *)
(* or nothing waited and it is removed.                                     *)
QueueStays(k) ==
  \/ /\ slots[k] # NoSlot
     /\ slots'[k] # NoSlot
     /\ slots'[k].pending = slots[k].pending
     /\ slots'[k].generation = slots[k].generation
  \/ /\ slots'[k] = NoSlot
     /\ slots[k] # NoSlot => slots[k].pending = NoPending

(* A task that does not move, or leaves the queue with the key it had.      *)
StaysOrLeaves(t) ==
  \/ tasks'[t] = tasks[t]
  \/ /\ tasks'[t].step \notin {"new", "waiting"}
     /\ tasks[t].step # "new" => tasks'[t].key = tasks[t].key

(* The order holds at the start.                                            *)
LEMMA QueueInit == Init => QueueInv
<1> SUFFICES ASSUME Init PROVE QueueInv
  OBVIOUS
<1>1. \A t \in Task : tasks[t].step = "new"
  BY DEF Init, NewTask
<1>2. \A k \in Key : slots[k] = NoSlot
  BY DEF Init
<1> QED
  BY <1>1, <1>2, TypeInit DEF QueueInv, GenerationsGrow, QueueInOrder, Waiting

(* It survives a step in which no reservation is made or claimed, whoever   *)
(* leaves.                                                                  *)
LEMMA QueueKept ==
  ASSUME QueueInv, TypeOK', closed' = closed,
         \A k \in Key : QueueStays(k), \A t \in Task : StaysOrLeaves(t)
  PROVE  QueueInv'
<1>1. GenerationsGrow'
  <2> SUFFICES ASSUME NEW k \in Key, slots'[k] # NoSlot, slots'[k].pending # NoPending
               PROVE  /\ slots'[k].pending.generation <= slots'[k].generation
                      /\ tasks'[slots'[k].pending.waiter].step # "new"
                      /\ tasks'[slots'[k].pending.waiter].key = k
    BY DEF GenerationsGrow
  <2>1. /\ slots[k] # NoSlot /\ slots'[k].pending = slots[k].pending
        /\ slots'[k].generation = slots[k].generation
    BY DEF QueueStays
  <2>2. slots[k].pending.waiter \in Task
    BY <2>1 DEF QueueInv, TypeOK, Slot, Reservation
  <2>3. /\ slots[k].pending.generation <= slots[k].generation
        /\ tasks[slots[k].pending.waiter].step # "new"
        /\ tasks[slots[k].pending.waiter].key = k
    BY <2>1 DEF QueueInv, GenerationsGrow
  <2> QED
    BY <2>1, <2>2, <2>3 DEF StaysOrLeaves
<1>2. QueueInOrder'
  <2> SUFFICES ASSUME NEW t \in Task, Waiting(t)'
               PROVE  IF closed' THEN tasks'[t].signalled
                      ELSE LET slot == slots'[tasks'[t].key]
                           IN  /\ slot # NoSlot
                               /\ slot.pending # NoPending
                               /\ tasks'[t].signalled =>
                                    tasks'[t].generation < slot.pending.generation
                               /\ ~tasks'[t].signalled =>
                                    /\ slot.pending.waiter = t
                                    /\ tasks'[t].generation = slot.pending.generation
    BY DEF QueueInOrder
  <2>1. tasks'[t] = tasks[t] /\ Waiting(t)
    BY DEF StaysOrLeaves, Waiting
  <2>2. tasks[t].key \in Key
    BY <2>1 DEF QueueInv, TypeOK, Waiting
  <2>3. CASE closed
    BY <2>1, <2>3 DEF QueueInv, QueueInOrder
  <2>4. CASE ~closed
    <3>1. slots[tasks[t].key] # NoSlot /\ slots[tasks[t].key].pending # NoPending
      BY <2>1, <2>4 DEF QueueInv, QueueInOrder
    <3>2. /\ slots'[tasks[t].key] # NoSlot
          /\ slots'[tasks[t].key].pending = slots[tasks[t].key].pending
      BY <2>2, <3>1 DEF QueueStays
    <3> QED
      BY <2>1, <2>4, <3>1, <3>2 DEF QueueInv, QueueInOrder
  <2> QED
    BY <2>3, <2>4
<1> QED
  BY <1>1, <1>2 DEF QueueInv

(* It survives a claim for a key nobody else waits for.                     *)
LEMMA QueueClaims ==
  ASSUME QueueInv, TypeOK', NEW t \in Task, NEW k \in Key, NEW slot, NEW g,
         NEW table \in {slots, Prune(slots)},
         ~closed, closed' = closed,
         \A u \in Task \ {t} : ~(Waiting(u) /\ tasks[u].key = k),
         tasks[t].step # "new" => tasks[t].key = k,
         slots' = [table EXCEPT ![k] = Claimed(slot, g)],
         tasks' = [tasks EXCEPT ![t] = Permit(k, slot, g)]
  PROVE  QueueInv'
<1>1. table \in [Key -> Slot \cup {NoSlot}]
  BY PruneKeeps DEF QueueInv, TypeOK, Prune
<1>2. \A j \in Key \ {k} : slots'[j] = slots[j] \/
        /\ slots'[j] = NoSlot
        /\ slots[j] # NoSlot
        /\ slots[j].pending = NoPending
  BY <1>1, PruneKeeps DEF QueueInv, TypeOK
<1>3. \A u \in Task \ {t} : tasks'[u] = tasks[u]
  BY DEF QueueInv, TypeOK
<1>4. tasks'[t].step = "permit" /\ tasks'[t].key = k
  BY DEF QueueInv, TypeOK, Permit, NewTask
<1>5. slots'[k].pending = NoPending
  BY <1>1 DEF Claimed
<1>6. GenerationsGrow'
  <2> SUFFICES ASSUME NEW j \in Key, slots'[j] # NoSlot, slots'[j].pending # NoPending
               PROVE  /\ slots'[j].pending.generation <= slots'[j].generation
                      /\ tasks'[slots'[j].pending.waiter].step # "new"
                      /\ tasks'[slots'[j].pending.waiter].key = j
    BY DEF GenerationsGrow
  <2>1. j # k /\ slots'[j] = slots[j]
    BY <1>2, <1>5
  <2>2. slots[j].pending.waiter \in Task
    BY <2>1 DEF QueueInv, TypeOK, Slot, Reservation
  <2>3. /\ slots[j].pending.generation <= slots[j].generation
        /\ tasks[slots[j].pending.waiter].step # "new"
        /\ tasks[slots[j].pending.waiter].key = j
    BY <2>1 DEF QueueInv, GenerationsGrow
  <2>4. slots[j].pending.waiter # t
    BY <2>1, <2>3
  <2> QED
    BY <1>3, <2>1, <2>2, <2>3, <2>4
<1>7. QueueInOrder'
  <2> SUFFICES ASSUME NEW u \in Task, Waiting(u)'
               PROVE  LET s == slots'[tasks'[u].key]
                      IN  /\ s # NoSlot
                          /\ s.pending # NoPending
                          /\ tasks'[u].signalled => tasks'[u].generation < s.pending.generation
                          /\ ~tasks'[u].signalled =>
                               /\ s.pending.waiter = u
                               /\ tasks'[u].generation = s.pending.generation
    BY DEF QueueInOrder
  <2>1. u # t /\ tasks'[u] = tasks[u] /\ Waiting(u)
    BY <1>3, <1>4 DEF Waiting
  <2>2. tasks[u].key \in Key \ {k}
    BY <2>1 DEF QueueInv, TypeOK, Waiting
  <2>3. slots[tasks[u].key] # NoSlot /\ slots[tasks[u].key].pending # NoPending
    BY <2>1 DEF QueueInv, QueueInOrder
  <2>4. slots'[tasks[u].key] = slots[tasks[u].key]
    BY <1>2, <2>2, <2>3
  <2> QED
    BY <2>1, <2>3, <2>4 DEF QueueInv, QueueInOrder
<1> QED
  BY <1>6, <1>7 DEF QueueInv

(* It survives a new reservation: the slot is the one of before with the    *)
(* next generation pending, or a new one, and whoever waited is told.       *)
LEMMA QueueWaits ==
  ASSUME QueueInv, TypeOK', NEW t \in Task, NEW k \in Key, NEW slot \in Slot,
         ~closed, closed' = closed,
         tasks[t].step = "new",
         slots[k] # NoSlot,
         slot.pending = slots[k].pending,
         slot.generation = slots[k].generation + 1,
         slots' = [Prune(slots) EXCEPT ![k] =
                     [slot EXCEPT !.pending = [generation |-> slot.generation, waiter |-> t]]],
         tasks' = [Supersede(slot) EXCEPT ![t] = Waiter(k, slot)]
  PROVE  QueueInv'
<1>1. \A j \in Key \ {k} : slots'[j] = slots[j] \/
        /\ slots'[j] = NoSlot
        /\ slots[j] # NoSlot
        /\ slots[j].pending = NoPending
  BY PruneKeeps DEF QueueInv, TypeOK
<1>2. \A u \in Task \ {t} : /\ tasks'[u].step = tasks[u].step
                            /\ tasks'[u].key = tasks[u].key
                            /\ tasks'[u].generation = tasks[u].generation
  BY DEF Supersede, QueueInv, TypeOK, TaskRecord
<1>3. \A u \in Task \ {t} :
        tasks'[u].signalled <=> \/ tasks[u].signalled
                                \/ slot.pending # NoPending /\ u = slot.pending.waiter /\ Waiting(u)
  BY DEF Supersede, QueueInv, TypeOK, TaskRecord
<1>4. /\ tasks'[t].step = "waiting"
      /\ tasks'[t].key = k
      /\ tasks'[t].generation = slot.generation
      /\ ~tasks'[t].signalled
  BY DEF Waiter, NewTask, Supersede
<1>5. /\ slots'[k] = [slot EXCEPT !.pending = [generation |-> slot.generation, waiter |-> t]]
      /\ slots'[k] \in Slot
  BY PruneKeeps DEF QueueInv, TypeOK, Slot, Reservation
<1>6. /\ slots'[k].generation = slot.generation
      /\ slots'[k].pending # NoPending
      /\ slots'[k].pending.generation = slot.generation
      /\ slots'[k].pending.waiter = t
      /\ slots'[k] # NoSlot
      /\ slot.generation \in Nat
  BY <1>5, ReservationAssumption DEF Slot, Reservation
<1>7. GenerationsGrow'
  <2> SUFFICES ASSUME NEW j \in Key, slots'[j] # NoSlot, slots'[j].pending # NoPending
               PROVE  /\ slots'[j].pending.generation <= slots'[j].generation
                      /\ tasks'[slots'[j].pending.waiter].step # "new"
                      /\ tasks'[slots'[j].pending.waiter].key = j
    BY DEF GenerationsGrow
  <2>1. CASE j = k
    BY <1>4, <1>6, <2>1
  <2>2. CASE j # k
    <3>1. slots'[j] = slots[j]
      BY <1>1, <2>2
    <3>2. slots[j].pending.waiter \in Task
      BY <3>1 DEF QueueInv, TypeOK, Slot, Reservation
    <3>3. /\ slots[j].pending.generation <= slots[j].generation
          /\ tasks[slots[j].pending.waiter].step # "new"
          /\ tasks[slots[j].pending.waiter].key = j
      BY <3>1 DEF QueueInv, GenerationsGrow
    <3> QED
      BY <1>2, <3>1, <3>2, <3>3
  <2> QED
    BY <2>1, <2>2
<1>8. QueueInOrder'
  <2> SUFFICES ASSUME NEW u \in Task, Waiting(u)'
               PROVE  LET s == slots'[tasks'[u].key]
                      IN  /\ s # NoSlot
                          /\ s.pending # NoPending
                          /\ tasks'[u].signalled => tasks'[u].generation < s.pending.generation
                          /\ ~tasks'[u].signalled =>
                               /\ s.pending.waiter = u
                               /\ tasks'[u].generation = s.pending.generation
    BY DEF QueueInOrder
  <2>1. CASE u = t
    BY <1>4, <1>6, <2>1
  <2>2. ASSUME u # t
        PROVE  /\ Waiting(u) /\ tasks[u].key \in Key /\ tasks[u].generation \in Nat
               /\ slots[tasks[u].key] # NoSlot
               /\ slots[tasks[u].key].pending # NoPending
               /\ tasks[u].signalled =>
                    tasks[u].generation < slots[tasks[u].key].pending.generation
               /\ ~tasks[u].signalled =>
                    /\ slots[tasks[u].key].pending.waiter = u
                    /\ tasks[u].generation = slots[tasks[u].key].pending.generation
    <3>1. Waiting(u)
      BY <1>2, <2>2 DEF Waiting
    <3>2. tasks[u].key \in Key /\ tasks[u].generation \in Nat
      BY <3>1 DEF Waiting, QueueInv, TypeOK, TaskRecord
    <3> QED
      BY <3>1, <3>2 DEF QueueInv, QueueInOrder
  <2>3. CASE u # t /\ tasks[u].key = k
    <3>1. /\ slots[k].pending.generation \in Nat
          /\ slots[k].generation \in Nat
          /\ slots[k].pending.generation <= slots[k].generation
      BY <2>2, <2>3 DEF QueueInv, TypeOK, Slot, Reservation, GenerationsGrow
    <3>2. tasks[u].generation < slot.generation
      BY <2>2, <2>3, <3>1
    <3>3. tasks'[u].signalled
      BY <1>3, <2>2, <2>3
    <3> QED
      BY <1>2, <1>6, <2>3, <3>2, <3>3
  <2>4. CASE u # t /\ tasks[u].key # k
    <3>1. slots'[tasks[u].key] = slots[tasks[u].key]
      BY <1>1, <2>2, <2>4
    <3>2. tasks'[u].signalled <=> tasks[u].signalled
      <4>1. slot.pending # NoPending => slot.pending.waiter # u
        BY <2>4 DEF QueueInv, GenerationsGrow
      <4> QED
        BY <1>3, <2>4, <4>1
    <3> QED
      BY <1>2, <2>2, <2>4, <3>1, <3>2
  <2> QED
    BY <2>1, <2>3, <2>4
<1> QED
  BY <1>7, <1>8 DEF QueueInv

(* A message gets its permit after its wait only if nobody else waits.      *)
LEMMA WinnerIsAlone ==
  ASSUME QueueInv, NEW t \in Task, Wake(t), tasks'[t].step = "permit"
  PROVE  \A u \in Task \ {t} : ~(Waiting(u) /\ tasks[u].key = tasks[t].key)
<1> DEFINE k == tasks[t].key
<1>1. TypeOK /\ tasks \in [Task -> TaskRecord] /\ Waiting(t) /\ Resumed(t)
  BY DEF QueueInv, TypeOK, Wake
<1>2. \A outcome : Ends(t, outcome) => tasks'[t].step = outcome
  BY <1>1 DEF Ends, NewTask
<1>3. ~closed /\ StillPending(t)
  BY <1>2 DEF Wake
<1>4. /\ k \in Key /\ slots[k] \in Slot /\ slots[k].pending \in Reservation
      /\ slots[k].pending.generation = tasks[t].generation
      /\ tasks[t].generation \in Nat
  BY <1>1, <1>3 DEF StillPending, Waiting, TypeOK, TaskRecord, Slot
<1>5. ~tasks[t].signalled
  <2>1. tasks[t].signalled => tasks[t].generation < slots[k].pending.generation
    BY <1>1, <1>3 DEF QueueInv, QueueInOrder
  <2> QED
    BY <1>4, <2>1
<1>6. \A u \in Task : Waiting(u) /\ tasks[u].key = k =>
        ~tasks[u].signalled /\ slots[k].pending.waiter = u
  <2>1. \A u \in Task : Waiting(u) /\ tasks[u].key = k => ~tasks[u].signalled
    BY <1>1, <1>5 DEF Resumed
  <2> QED
    BY <1>3, <2>1 DEF QueueInv, QueueInOrder
<1> QED
  BY <1>1, <1>6

(* Every step keeps the order, also when handlers suspend between reserve   *)
(* and commit.                                                              *)
LEMMA QueueNext == QueueInv /\ [Next]_vars => QueueInv'
<1> SUFFICES ASSUME QueueInv, [Next]_vars PROVE QueueInv'
  OBVIOUS
<1>1. /\ TypeOK /\ TypeOK'
      /\ slots \in [Key -> Slot \cup {NoSlot}]
      /\ tasks \in [Task -> TaskRecord]
      /\ now \in Nat
  BY TypeNext DEF QueueInv, TypeOK
<1>2. slots' = slots => \A k \in Key : QueueStays(k)
  BY DEF QueueStays
<1>3. ASSUME NEW t \in Task, NEW outcome \in Outcome, tasks[t].step # "new", Ends(t, outcome)
      PROVE  \A u \in Task : StaysOrLeaves(u)
  BY <1>1, <1>3 DEF Ends, StaysOrLeaves, NewTask, Outcome
<1>4. CASE Tick \/ UNCHANGED vars
  BY <1>1, <1>2, <1>4, QueueKept DEF Tick, vars, StaysOrLeaves
<1>5. ASSUME NEW t \in Task, NEW k \in Key, Reserve(t, k) PROVE QueueInv'
  <2> DEFINE pruned == Prune(slots)
             slot == [(IF pruned[k] = NoSlot THEN NewSlot ELSE pruned[k])
                        EXCEPT !.generation = @ + 1]
             free == slot.claimed = 0 /\ slot.pending = NoPending /\ now >= slot.next
  <2>1. tasks[t].step = "new" /\ closed' = closed
    BY <1>5 DEF Reserve
  <2>2. \A j \in Key : /\ pruned[j] \in Slot \cup {NoSlot}
                       /\ pruned[j] # NoSlot => pruned[j] = slots[j]
                       /\ pruned[j] = NoSlot /\ slots[j] # NoSlot => slots[j].pending = NoPending
    BY <1>1, PruneKeeps
  <2>3. slot \in Slot
    BY <1>1, PruneKeeps, NextSlotType
  <2>4. CASE \E outcome \in {"shutdown", "inert"} :
               /\ tasks' = [tasks EXCEPT ![t].step = outcome, ![t].key = k]
               /\ slots' \in {slots, pruned}
    <3>1. \A u \in Task : StaysOrLeaves(u)
      BY <1>1, <2>1, <2>4 DEF StaysOrLeaves, TaskRecord
    <3>2. \A j \in Key : QueueStays(j)
      <4>1. slots' = pruned => \A j \in Key : QueueStays(j)
        <5> HIDE DEF pruned
        <5> QED
          BY <2>2 DEF QueueStays
      <4> QED
        BY <1>2, <2>4, <4>1
    <3> QED
      BY <1>1, <2>1, <3>1, <3>2, QueueKept
  <2>5. CASE /\ ~closed
             /\ free
             /\ slots' = [pruned EXCEPT ![k] = Claimed(slot, slot.generation)]
             /\ tasks' = [tasks EXCEPT ![t] = Permit(k, slot, slot.generation)]
    <3>1. slots[k] # NoSlot => slots[k].pending = NoPending
      <4>1. CASE pruned[k] = NoSlot
        BY <2>2, <4>1
      <4>2. CASE pruned[k] # NoSlot
        <5>1. slots[k] \in Slot /\ slot = [slots[k] EXCEPT !.generation = @ + 1]
          BY <2>2, <4>2
        <5>2. slot.pending = slots[k].pending
          BY <5>1 DEF Slot
        <5> QED
          BY <2>5, <5>2
      <4> QED
        BY <4>1, <4>2
    <3>2. \A u \in Task \ {t} : ~(Waiting(u) /\ tasks[u].key = k)
      BY <2>5, <3>1 DEF QueueInv, QueueInOrder
    <3> HIDE DEF slot
    <3> QED
      BY <1>1, <2>1, <2>5, <3>2, QueueClaims
  <2>6. CASE /\ ~closed
             /\ ~free
             /\ slots' = [pruned EXCEPT ![k] =
                            [slot EXCEPT !.pending = [generation |-> slot.generation, waiter |-> t]]]
             /\ tasks' = [Supersede(slot) EXCEPT ![t] = Waiter(k, slot)]
    <3>1. pruned[k] # NoSlot
      <4>1. pruned[k] = NoSlot => slot.claimed = 0 /\ slot.pending = NoPending /\ slot.next = 0
        BY DEF NewSlot
      <4> HIDE DEF slot, pruned
      <4> QED
        BY <1>1, <2>6, <4>1
    <3>2. slots[k] # NoSlot /\ slots[k] \in Slot /\ slot = [slots[k] EXCEPT !.generation = @ + 1]
      BY <2>2, <3>1
    <3>3. slot.pending = slots[k].pending /\ slot.generation = slots[k].generation + 1
      BY <3>2 DEF Slot
    <3> HIDE DEF slot
    <3> QED
      BY <1>1, <2>1, <2>3, <2>6, <3>2, <3>3, QueueWaits
  <2> QED
    BY <1>5, <2>4, <2>5, <2>6 DEF Reserve
<1>6. ASSUME NEW t \in Task, Wake(t) PROVE QueueInv'
  <2> DEFINE k == tasks[t].key
  <2>1. Waiting(t) /\ k \in Key /\ closed' = closed
    BY <1>1, <1>6 DEF Wake, Waiting, TypeOK
  <2>2. CASE (\E outcome \in Outcome : Ends(t, outcome)) /\ UNCHANGED slots
    BY <1>1, <1>2, <1>3, <2>1, <2>2, QueueKept DEF Waiting
  <2>3. CASE /\ ~closed
             /\ slots' = [slots EXCEPT ![k] = Claimed(slots[k], tasks[t].generation)]
             /\ tasks' = [tasks EXCEPT ![t] = Permit(k, slots[k], tasks[t].generation)]
    <3>1. tasks'[t].step = "permit"
      BY <1>1, <2>3 DEF Permit, NewTask
    <3>2. \A u \in Task \ {t} : ~(Waiting(u) /\ tasks[u].key = k)
      BY <1>6, <3>1, WinnerIsAlone
    <3> QED
      BY <1>1, <2>1, <2>3, <3>2, QueueClaims
  <2> QED
    BY <1>6, <2>2, <2>3 DEF Wake, Outcome
<1>7. ASSUME NEW t \in Task, Commit(t) PROVE QueueInv'
  <2> DEFINE k == tasks[t].key
  <2>1. tasks[t].step = "permit" /\ k \in Key /\ closed' = closed
    BY <1>1, <1>7 DEF Commit, TypeOK
  <2>2. CASE Ends(t, "stale") /\ UNCHANGED slots
    BY <1>1, <1>2, <1>3, <2>1, <2>2, QueueKept DEF Outcome
  <2>3. ASSUME NEW admitted \in BOOLEAN, slots[k] # NoSlot,
               Ends(t, IF admitted THEN "admitted" ELSE "rejected"),
               slots' = Prune([slots EXCEPT ![k].claimed = 0, ![k].next = NextAfter(t, admitted)])
        PROVE  QueueInv'
    <3> DEFINE table == [slots EXCEPT ![k].claimed = 0, ![k].next = NextAfter(t, admitted)]
    <3>1. \A j \in Key : /\ table[j] = NoSlot <=> slots[j] = NoSlot
                         /\ slots[j] # NoSlot => /\ table[j].pending = slots[j].pending
                                                 /\ table[j].generation = slots[j].generation
      <4>1. slots[k] \in Slot
        BY <1>1, <2>1, <2>3
      <4>2. table[k].pending = slots[k].pending /\ table[k].generation = slots[k].generation
        BY <1>1, <2>1, <4>1 DEF Slot
      <4>3. table[k] # NoSlot
        <5>1. NextAfter(t, admitted) \in Nat
          BY <1>1, <2>1, <4>1 DEF NextAfter, Slot, TaskRecord
        <5>2. table[k] \in Slot
          BY <1>1, <2>1, <4>1, <5>1 DEF Slot
        <5> QED
          BY <5>2, ReservationAssumption
      <4>4. \A j \in Key \ {k} : table[j] = slots[j]
        BY <1>1, <2>1
      <4> QED
        BY <2>3, <4>2, <4>3, <4>4
    <3>2. \A j \in Key : QueueStays(j)
      <4> SUFFICES ASSUME NEW j \in Key PROVE QueueStays(j)
        OBVIOUS
      <4> HIDE DEF table
      <4>1. slots'[j] = IF /\ table[j] # NoSlot
                           /\ table[j].pending = NoPending
                           /\ table[j].claimed = 0
                           /\ table[j].next <= now
                        THEN NoSlot ELSE table[j]
        BY <2>3 DEF Prune, table
      <4> QED
        BY <3>1, <4>1 DEF QueueStays
    <3>3. \A u \in Task : StaysOrLeaves(u)
      BY <1>3, <2>1, <2>3 DEF Outcome
    <3> QED
      BY <1>1, <2>1, <3>2, <3>3, QueueKept
  <2> QED
    BY <1>7, <2>2, <2>3 DEF Commit
<1>8. ASSUME NEW t \in Task, Cancel(t) PROVE QueueInv'
  BY <1>1, <1>2, <1>3, <1>8, QueueKept DEF Cancel, Waiting, Outcome
<1>9. CASE Close
  <2>1. ~closed /\ closed' /\ \A k \in Key : slots'[k] = NoSlot
    BY <1>9 DEF Close
  <2>2. \A t \in Task : /\ tasks'[t].step = tasks[t].step
                        /\ tasks'[t].signalled <=> tasks[t].signalled \/ (Waiting(t) /\ Pending(t))
    BY <1>1, <1>9 DEF Close, TaskRecord
  <2>3. \A t \in Task : Waiting(t) => tasks[t].signalled \/ Pending(t)
    BY <2>1 DEF QueueInv, QueueInOrder, Pending
  <2>4. QueueInOrder'
    BY <2>1, <2>2, <2>3 DEF QueueInOrder, Waiting
  <2>5. GenerationsGrow'
    BY <2>1 DEF GenerationsGrow
  <2> QED
    BY <1>1, <2>4, <2>5 DEF QueueInv
<1> QED
  BY <1>4, <1>5, <1>6, <1>7, <1>8, <1>9 DEF Next

(* No waiter is forgotten, for any caller: whoever waits is the one its     *)
(* slot waits for, or has been told to stop; also across a cancellation, a  *)
(* late commit and close (reserve and close,                                *)
(* src/activation_reservation.py:158-233).                                  *)
THEOREM NobodyIsEverForgotten == Spec => []NobodyIsForgotten
<1>1. QueueInv => NobodyIsForgotten
  BY DEF QueueInv, QueueInOrder, NobodyIsForgotten, Pending
<1> QED
  BY <1>1, QueueInit, QueueNext, PTL DEF Spec
----------------------------------------------------------------------------
(* The last of a burst, and close.                                          *)

(* Of a burst the last message is the one that is activated, for any caller *)
(* (reserve after its wait, src/activation_reservation.py:158-204).         *)
THEOREM LastAlwaysWins == Spec => LastOfBurstWins
<1>1. ASSUME QueueInv, [Next]_vars, NEW t \in Task, Waiting(t), tasks'[t].step = "permit"
      PROVE  \A u \in Task \ {t} : ~(Waiting(u) /\ tasks[u].key = tasks[t].key)
  <2>1. TypeOK /\ tasks \in [Task -> TaskRecord] /\ tasks[t].step = "waiting"
    BY <1>1 DEF QueueInv, TypeOK, Waiting
  <2>2. ASSUME NEW u \in Task, Wake(u) PROVE u = t
    BY <1>1, <2>1, <2>2 DEF Wake, Ends
  <2>3. ASSUME NEW u \in Task, NEW k \in Key PROVE ~Reserve(u, k)
    <3> SUFFICES ASSUME Reserve(u, k) PROVE FALSE
      OBVIOUS
    <3>1. tasks[u].step = "new"
      BY DEF Reserve
    <3>2. \A slot : Supersede(slot) \in [Task -> TaskRecord] /\ Supersede(slot)[t].step = "waiting"
      BY <2>1 DEF Supersede, TaskRecord
    <3>3. \/ \E outcome, j : tasks' = [tasks EXCEPT ![u].step = outcome, ![u].key = j]
          \/ \E record : tasks' = [tasks EXCEPT ![u] = record]
          \/ \E slot, record : tasks' = [Supersede(slot) EXCEPT ![u] = record]
      BY DEF Reserve
    <3> QED
      BY <1>1, <2>1, <3>1, <3>2, <3>3
  <2>4. ASSUME NEW u \in Task PROVE ~Commit(u) /\ ~Cancel(u)
    BY <1>1, <2>1 DEF Commit, Cancel, Ends, NewTask
  <2>5. ~Tick /\ ~Close /\ ~UNCHANGED vars
    BY <1>1, <2>1 DEF Tick, Close, vars, TaskRecord
  <2> QED
    BY <1>1, <2>2, <2>3, <2>4, <2>5, WinnerIsAlone DEF Next
<1>2. QueueInv /\ [Next]_vars =>
        [\A t \in Task : Waiting(t) /\ tasks'[t].step = "permit" =>
           \A u \in Task \ {t} : Waiting(u) /\ tasks[u].key = tasks[t].key =>
             tasks[u].generation < tasks[t].generation]_vars
  BY <1>1
<1> QED
  BY <1>2, QueueInit, QueueNext, PTL DEF Spec, LastOfBurstWins

(* close leaves no slot behind, and none comes back.                        *)
ClosedIsEmpty == closed => \A k \in Key : slots[k] = NoSlot

(* It holds at the start.                                                   *)
LEMMA EmptyInit == Init => ClosedIsEmpty
BY DEF Init, ClosedIsEmpty

(* Every step keeps it.                                                     *)
LEMMA EmptyNext == TypeOK /\ ClosedIsEmpty /\ [Next]_vars => ClosedIsEmpty'
<1> SUFFICES ASSUME TypeOK, ClosedIsEmpty, [Next]_vars PROVE ClosedIsEmpty'
  OBVIOUS
<1>1. CASE Close
  BY <1>1 DEF Close, ClosedIsEmpty
<1>2. CASE closed' = closed /\ (closed => slots' = slots)
  BY <1>2 DEF ClosedIsEmpty
<1>3. ASSUME NEW t \in Task, Commit(t) PROVE closed' = closed /\ (closed => slots' = slots)
  BY <1>3 DEF Commit, ClosedIsEmpty, TypeOK
<1>4. ASSUME NEW t \in Task, NEW k \in Key, Reserve(t, k)
      PROVE  closed' = closed /\ (closed => slots' = slots)
  BY <1>4 DEF Reserve
<1>5. ASSUME NEW t \in Task, Wake(t) \/ Cancel(t)
      PROVE  closed' = closed /\ (closed => slots' = slots)
  BY <1>5 DEF Wake, Cancel
<1>6. CASE Tick \/ UNCHANGED vars
  BY <1>2, <1>6 DEF Tick, vars
<1> QED
  BY <1>1, <1>2, <1>3, <1>4, <1>5, <1>6 DEF Next

(* Once close has returned no reservation is granted and no permit is       *)
(* honoured, for any caller, also one that suspends between reserve and     *)
(* commit (close, src/activation_reservation.py:222-233).                   *)
THEOREM ClosedForGood == Spec => NothingAfterClose
<1>1. ASSUME TypeOK, ClosedIsEmpty, [Next]_vars, closed, NEW t \in Task,
             tasks'[t].step \in {"permit", "admitted"}
      PROVE  tasks[t].step = tasks'[t].step
  <2>1. tasks \in [Task -> TaskRecord]
    BY <1>1 DEF TypeOK
  <2>2. \A u \in Task : \A outcome : Ends(u, outcome) =>
          /\ tasks'[u].step = outcome
          /\ u # t => tasks'[t] = tasks[t]
    BY <2>1 DEF Ends, NewTask
  <2>3. ASSUME NEW u \in Task, NEW k \in Key, Reserve(u, k) PROVE tasks[t].step = tasks'[t].step
    <3>1. tasks' = [tasks EXCEPT ![u].step = "shutdown", ![u].key = k]
      BY <1>1, <2>3 DEF Reserve
    <3> QED
      BY <1>1, <2>1, <3>1 DEF TaskRecord
  <2>4. ASSUME NEW u \in Task, Wake(u) PROVE tasks[t].step = tasks'[t].step
    <3>1. Ends(u, "shutdown")
      BY <1>1, <2>4 DEF Wake
    <3> QED
      BY <1>1, <2>2, <3>1
  <2>5. ASSUME NEW u \in Task, Commit(u) PROVE tasks[t].step = tasks'[t].step
    <3>1. tasks[u].key \in Key
      BY <1>1, <2>5 DEF Commit, TypeOK
    <3>2. Ends(u, "stale")
      BY <1>1, <2>5, <3>1 DEF Commit, ClosedIsEmpty
    <3> QED
      BY <1>1, <2>2, <3>2
  <2>6. ASSUME NEW u \in Task, Cancel(u) PROVE tasks[t].step = tasks'[t].step
    BY <1>1, <2>2, <2>6 DEF Cancel
  <2>7. CASE Tick \/ UNCHANGED vars
    BY <2>7 DEF Tick, vars
  <2>8. ~Close
    BY <1>1 DEF Close
  <2> QED
    BY <1>1, <2>3, <2>4, <2>5, <2>6, <2>7, <2>8 DEF Next
<1>2. TypeOK /\ ClosedIsEmpty /\ [Next]_vars =>
        [closed => \A t \in Task :
           tasks'[t].step \in {"permit", "admitted"} => tasks[t].step = tasks'[t].step]_vars
  BY <1>1
<1> QED
  BY <1>2, EmptyInit, EmptyNext, TypeInit, TypeNext, PTL DEF Spec, NothingAfterClose
----------------------------------------------------------------------------
(* What a slot stands for.                                                  *)

(* The slot that a key still has belongs to a message: its reservation is   *)
(* that of a message that waits or was cancelled while it waited, and its   *)
(* claim that of a message whose decision is open.                          *)
Occupied(k) ==
  slots[k] # NoSlot =>
    /\ slots[k].pending # NoPending =>
         LET u == slots[k].pending.waiter
         IN  /\ tasks[u].step \in {"waiting", "cancelled"}
             /\ Waiting(u) => tasks[u].generation = slots[k].pending.generation
    /\ slots[k].claimed # 0 => \E u \in Task : tasks[u].key = k /\ HasPermit(u)

SlotsAreOccupied == \A k \in Key : Occupied(k)

(* A slot that stays as it is stays occupied when the message that waits in *)
(* it and the one that claimed it stay as they are.                         *)
LEMMA StillOccupied ==
  ASSUME TypeOK, NEW k \in Key, Occupied(k), slots'[k] \in {slots[k], NoSlot},
         \A u \in Task :
           \/ tasks'[u].step = tasks[u].step /\ tasks'[u].key = tasks[u].key
              /\ tasks'[u].generation = tasks[u].generation
           \/ /\ slots[k] # NoSlot /\ slots[k].pending # NoPending => slots[k].pending.waiter # u
              /\ ~(HasPermit(u) /\ tasks[u].key = k)
  PROVE  Occupied(k)'
<1> SUFFICES ASSUME slots'[k] # NoSlot PROVE Occupied(k)'
  BY DEF Occupied
<1>1. slots'[k] = slots[k] /\ slots[k] # NoSlot /\ slots[k] \in Slot
  BY DEF TypeOK
<1>2. ASSUME slots[k].pending # NoPending
      PROVE  LET u == slots[k].pending.waiter
             IN  /\ tasks'[u].step \in {"waiting", "cancelled"}
                 /\ tasks'[u].step = "waiting" => tasks'[u].generation = slots[k].pending.generation
  <2>1. slots[k].pending.waiter \in Task
    BY <1>1, <1>2 DEF Slot, Reservation
  <2> QED
    BY <1>1, <1>2, <2>1 DEF Occupied, Waiting
<1>3. slots[k].claimed # 0 => \E u \in Task : tasks'[u].key = k /\ tasks'[u].step = "permit"
  BY <1>1 DEF Occupied, HasPermit
<1> QED
  BY <1>1, <1>2, <1>3 DEF Occupied, Waiting, HasPermit

(* A claim occupies its slot.                                               *)
LEMMA ClaimOccupies ==
  ASSUME NEW k \in Key, NEW t \in Task, NEW slot, NEW generation,
         slots'[k] = Claimed(slot, generation), tasks'[t] = Permit(k, slot, generation)
  PROVE  Occupied(k)'
<1>1. slots'[k].pending = NoPending
  BY DEF Claimed
<1>2. tasks'[t].key = k /\ tasks'[t].step = "permit"
  BY DEF Permit, NewTask
<1> QED
  BY <1>1, <1>2 DEF Occupied, HasPermit

(* Every step keeps it while handlers do not suspend.                       *)
LEMMA OccupiedNext ==
  ASSUME ~Suspends, Inv, ClosedIsEmpty, SlotsAreOccupied, [Next]_vars, NEW k \in Key
  PROVE  Occupied(k)'
<1>1. TypeOK /\ TypeOK' /\ Occupied(k) /\ tasks \in [Task -> TaskRecord]
  BY TypeNext DEF Inv, SlotsAreOccupied, TypeOK
<1>2. \A u \in Task : LoopIsFree => ~HasPermit(u)
  BY DEF LoopIsFree, HasPermit
<1>3. CASE Tick \/ UNCHANGED vars
  BY <1>1, <1>3, StillOccupied DEF Tick, vars
<1>4. CASE Close
  BY <1>4 DEF Close, Occupied
<1>5. ASSUME NEW t \in Task, NEW j \in Key, Reserve(t, j) PROVE Occupied(k)'
  <2> DEFINE pruned == Prune(slots)
             slot == [(IF pruned[j] = NoSlot THEN NewSlot ELSE pruned[j])
                        EXCEPT !.generation = @ + 1]
             free == slot.claimed = 0 /\ slot.pending = NoPending /\ now >= slot.next
  <2>1. tasks[t].step = "new" /\ \A u \in Task : ~HasPermit(u)
    BY <1>2, <1>5 DEF Reserve
  <2>2. /\ pruned \in [Key -> Slot \cup {NoSlot}]
        /\ pruned[k] \in {slots[k], NoSlot}
    BY <1>1, PruneKeeps DEF TypeOK
  <2>3. slots[k] # NoSlot /\ slots[k].pending # NoPending => slots[k].pending.waiter # t
    BY <1>1, <2>1 DEF Occupied
  <2>4. CASE \E outcome \in {"shutdown", "inert"} :
               /\ tasks' = [tasks EXCEPT ![t].step = outcome, ![t].key = j]
               /\ slots' \in {slots, pruned}
    <3>1. \A u \in Task \ {t} : tasks'[u] = tasks[u]
      BY <1>1, <2>4
    <3>2. slots'[k] \in {slots[k], NoSlot}
      BY <2>2, <2>4
    <3> QED
      BY <1>1, <2>1, <2>3, <3>1, <3>2, StillOccupied
  <2>5. CASE /\ slots' = [pruned EXCEPT ![j] = Claimed(slot, slot.generation)]
             /\ tasks' = [tasks EXCEPT ![t] = Permit(j, slot, slot.generation)]
    <3> HIDE DEF slot
    <3>1. CASE j = k
      <4>1. slots'[k] = Claimed(slot, slot.generation)
        BY <2>2, <2>5, <3>1
      <4>2. tasks'[t] = Permit(k, slot, slot.generation)
        BY <1>1, <2>5, <3>1
      <4> QED
        BY <4>1, <4>2, ClaimOccupies
    <3>2. CASE j # k
      <4>1. slots'[k] = pruned[k] /\ \A u \in Task \ {t} : tasks'[u] = tasks[u]
        BY <1>1, <2>2, <2>5, <3>2
      <4> QED
        BY <1>1, <2>1, <2>2, <2>3, <4>1, StillOccupied
    <3> QED
      BY <3>1, <3>2
  <2>6. CASE /\ ~free
             /\ slots' = [pruned EXCEPT ![j] =
                            [slot EXCEPT !.pending = [generation |-> slot.generation, waiter |-> t]]]
             /\ tasks' = [Supersede(slot) EXCEPT ![t] = Waiter(j, slot)]
    <3>1. \A u \in Task \ {t} : /\ tasks'[u].step = tasks[u].step
                                /\ tasks'[u].key = tasks[u].key
                                /\ tasks'[u].generation = tasks[u].generation
      <4> HIDE DEF slot
      <4> QED
        BY <1>1, <2>6 DEF Supersede, TaskRecord
    <3>2. CASE j # k
      <4>1. slots'[k] = pruned[k]
        BY <2>2, <2>6, <3>2
      <4> QED
        BY <1>1, <2>1, <2>2, <2>3, <3>1, <4>1, StillOccupied
    <3>3. CASE j = k
      <4>1. slot \in Slot
        BY <2>2, NextSlotType
      <4>2. slots'[k] = [slot EXCEPT !.pending = [generation |-> slot.generation, waiter |-> t]]
        BY <2>2, <2>6, <3>3
      <4>3. slot.claimed = 0
        <5>1. CASE pruned[k] = NoSlot
          BY <3>3, <5>1 DEF NewSlot
        <5>2. CASE pruned[k] # NoSlot
          <6>1. slots[k] # NoSlot /\ slots[k] \in Slot /\ slot = [slots[k] EXCEPT !.generation = @ + 1]
            BY <1>1, <2>2, <3>3, <5>2
          <6>2. slots[k].claimed = 0
            BY <1>1, <2>1, <6>1 DEF Occupied
          <6>3. slot.claimed = slots[k].claimed
            BY <6>1 DEF Slot
          <6> QED
            BY <6>2, <6>3
        <5> QED
          BY <5>1, <5>2
      <4> HIDE DEF slot
      <4>4. /\ slots'[k].pending = [generation |-> slot.generation, waiter |-> t]
            /\ slots'[k].claimed = 0
        BY <4>1, <4>2, <4>3 DEF Slot
      <4>5. tasks'[t] = Waiter(j, slot)
        <5>1. Supersede(slot) \in [Task -> TaskRecord]
          BY <1>1 DEF Supersede, TaskRecord
        <5> QED
          BY <2>6, <5>1
      <4>6. tasks'[t].step = "waiting" /\ tasks'[t].generation = slot.generation
        BY <4>5 DEF Waiter, NewTask
      <4> QED
        BY <4>4, <4>6 DEF Occupied
    <3> QED
      BY <3>2, <3>3
  <2> QED
    BY <1>5, <2>4, <2>5, <2>6 DEF Reserve
<1>6. ASSUME NEW t \in Task, Wake(t) PROVE Occupied(k)'
  <2> DEFINE j == tasks[t].key
  <2>1. Waiting(t) /\ Resumed(t) /\ j \in Key /\ \A u \in Task : ~HasPermit(u)
    BY <1>1, <1>2, <1>6 DEF Wake, Waiting, TypeOK
  <2>2. CASE closed /\ UNCHANGED slots
    BY <1>1, <2>2 DEF ClosedIsEmpty, Occupied
  <2>3. CASE /\ ~closed /\ ~(StillPending(t) /\ now >= tasks[t].due)
             /\ Ends(t, "superseded") /\ UNCHANGED slots
    <3>1. \A u \in Task \ {t} : tasks'[u] = tasks[u]
      BY <1>1, <2>3 DEF Ends
    <3>2. tasks[t].signalled
      BY <2>1, <2>3 DEF Inv, WaitersInOrder, Resumed, StillPending
    <3>3. tasks[t].generation < slots[j].pending.generation
      BY <2>1, <2>3, <3>2 DEF Inv, WaitersInOrder
    <3>4. slots[k] # NoSlot /\ slots[k].pending # NoPending => slots[k].pending.waiter # t
      <4> SUFFICES ASSUME slots[k] # NoSlot, slots[k].pending # NoPending,
                          slots[k].pending.waiter = t
                   PROVE  FALSE
        OBVIOUS
      <4>1. j = k
        BY DEF Inv, GenerationsGrow
      <4>2. tasks[t].generation = slots[k].pending.generation /\ tasks[t].generation \in Nat
        BY <1>1, <2>1 DEF Occupied, TaskRecord
      <4> QED
        BY <3>3, <4>1, <4>2
    <3> QED
      BY <1>1, <2>1, <2>3, <3>1, <3>4, StillOccupied
  <2>4. CASE /\ slots' = [slots EXCEPT ![j] = Claimed(slots[j], tasks[t].generation)]
             /\ tasks' = [tasks EXCEPT ![t] = Permit(j, slots[j], tasks[t].generation)]
    <3>1. CASE j = k
      <4>1. slots'[k] = Claimed(slots[k], tasks[t].generation)
        BY <1>1, <2>4, <3>1 DEF TypeOK
      <4>2. tasks'[t] = Permit(k, slots[k], tasks[t].generation)
        BY <1>1, <2>4, <3>1
      <4> QED
        BY <4>1, <4>2, ClaimOccupies
    <3>2. CASE j # k
      <4>1. slots'[k] = slots[k] /\ \A u \in Task \ {t} : tasks'[u] = tasks[u]
        BY <1>1, <2>4, <3>2 DEF TypeOK
      <4>2. slots[k] # NoSlot /\ slots[k].pending # NoPending => slots[k].pending.waiter # t
        BY <3>2 DEF Inv, GenerationsGrow
      <4> QED
        BY <1>1, <2>1, <4>1, <4>2, StillOccupied
    <3> QED
      BY <3>1, <3>2
  <2> QED
    BY <1>6, <2>2, <2>3, <2>4 DEF Wake
<1>7. ASSUME NEW t \in Task, Commit(t) PROVE Occupied(k)'
  <2> DEFINE j == tasks[t].key
  <2>1. /\ HasPermit(t) /\ j \in Key
        /\ slots[j] # NoSlot /\ slots[j] \in Slot /\ slots[j].pending = NoPending
        /\ slots[j].claimed = tasks[t].generation
    <3>1. tasks[t].step = "permit" /\ j \in Key
      BY <1>1, <1>7 DEF Commit, TypeOK
    <3>2. /\ slots[j] # NoSlot /\ slots[j].claimed = tasks[t].generation
          /\ slots[j].pending = NoPending
      BY <3>1 DEF Inv, PermitsHold, HasPermit
    <3> QED
      BY <1>1, <3>1, <3>2 DEF HasPermit, TypeOK
  <2>2. PICK admitted \in BOOLEAN :
          /\ Ends(t, IF admitted THEN "admitted" ELSE "rejected")
          /\ slots' = Prune([slots EXCEPT ![j].claimed = 0, ![j].next = NextAfter(t, admitted)])
    BY <1>7, <2>1 DEF Commit
  <2> DEFINE table == [slots EXCEPT ![j].claimed = 0, ![j].next = NextAfter(t, admitted)]
  <2>3. \A u \in Task \ {t} : tasks'[u] = tasks[u]
    BY <1>1, <2>2 DEF Ends
  <2>4. slots'[k] \in {table[k], NoSlot}
    BY <2>2 DEF Prune
  <2>5. CASE j # k
    <3>1. table[k] = slots[k]
      BY <1>1, <2>5 DEF TypeOK
    <3>2. slots[k] # NoSlot /\ slots[k].pending # NoPending => slots[k].pending.waiter # t
      BY <2>5 DEF Inv, GenerationsGrow
    <3> HIDE DEF table
    <3>3. slots'[k] \in {slots[k], NoSlot}
      BY <2>4, <3>1
    <3> QED
      BY <1>1, <2>3, <2>5, <3>2, <3>3, StillOccupied
  <2>6. CASE j = k
    <3>1. table[k].claimed = 0 /\ table[k].pending = NoPending
      BY <1>1, <2>1, <2>6 DEF TypeOK, Slot
    <3> HIDE DEF table
    <3> QED
      BY <2>4, <3>1 DEF Occupied
  <2> QED
    BY <2>5, <2>6
<1>8. ASSUME NEW t \in Task, Cancel(t) PROVE Occupied(k)'
  <2>1. /\ slots' = slots /\ Waiting(t)
        /\ \A u \in Task \ {t} : tasks'[u] = tasks[u]
        /\ tasks'[t].step = "cancelled"
    BY <1>1, <1>8 DEF Cancel, Ends, NewTask
  <2>2. \A u \in Task : ~HasPermit(u)
    BY <1>2, <1>8 DEF Cancel
  <2>3. ASSUME slots[k] # NoSlot, slots[k].pending # NoPending, slots[k].pending.waiter = t
        PROVE  Occupied(k)'
    BY <1>1, <2>1, <2>2, <2>3 DEF Occupied, Waiting
  <2> QED
    BY <1>1, <2>1, <2>2, <2>3, StillOccupied
<1> QED
  BY <1>3, <1>4, <1>5, <1>6, <1>7, <1>8 DEF Next
----------------------------------------------------------------------------
(* Being turned away for want of a slot.                                    *)

(* The keys with an open decision, a reservation that waited or a running   *)
(* interval.                                                                *)
BusyKeys ==
  {k \in Key : \E u \in Task :
     /\ tasks[u].key = k
     /\ \/ tasks[u].step \in {"permit", "waiting", "cancelled"}
        \/ tasks[u].step = "admitted"
           /\ tasks[u].at + MinInterval > now}

(* Only a busy key keeps its slot through a prune.                          *)
LEMMA SlotsAreBusy ==
  ASSUME Inv, IntervalIsPaidFor, SlotsAreOccupied, NEW k \in Key, Prune(slots)[k] # NoSlot
  PROVE  k \in BusyKeys
<1>1. TypeOK /\ now \in Nat
  BY DEF Inv, TypeOK
<1>2. /\ slots[k] # NoSlot /\ slots[k] \in Slot
      /\ slots[k].pending # NoPending \/ slots[k].claimed # 0 \/ ~(slots[k].next <= now)
  BY <1>1 DEF Prune, TypeOK
<1>3. CASE slots[k].pending # NoPending
  <2>1. slots[k].pending.waiter \in Task
    BY <1>2, <1>3 DEF Slot, Reservation
  <2>2. tasks[slots[k].pending.waiter].key = k
    BY <1>2, <1>3 DEF Inv, GenerationsGrow
  <2>3. tasks[slots[k].pending.waiter].step \in {"waiting", "cancelled"}
    BY <1>2, <1>3 DEF SlotsAreOccupied, Occupied
  <2> QED
    BY <2>1, <2>2, <2>3 DEF BusyKeys
<1>4. CASE slots[k].claimed # 0
  BY <1>2, <1>4 DEF SlotsAreOccupied, Occupied, HasPermit, BusyKeys
<1>5. CASE ~(slots[k].next <= now)
  <2>1. slots[k].next > now
    BY <1>1, <1>2, <1>5 DEF Slot
  <2> QED
    BY <1>2, <2>1 DEF IntervalIsPaidFor, BusyKeys
<1> QED
  BY <1>2, <1>3, <1>4, <1>5

(* Only reserve turns a message away, and only when the slots that a prune  *)
(* leaves fill the table.                                                   *)
LEMMA InertMeansFull ==
  ASSUME TypeOK, [Next]_vars, NEW t \in Task, tasks[t].step = "new", tasks'[t].step = "inert"
  PROVE  ~(Cardinality({k \in Key : Prune(slots)[k] # NoSlot}) < MaxSlots)
<1>1. tasks \in [Task -> TaskRecord]
  BY DEF TypeOK
<1>2. \A u \in Task : \A outcome : Ends(u, outcome) =>
        /\ tasks'[u].step = outcome
        /\ u # t => tasks'[t] = tasks[t]
  BY <1>1 DEF Ends, NewTask
<1>3. ASSUME NEW u \in Task, NEW k \in Key, Reserve(u, k)
      PROVE  ~(Cardinality({j \in Key : Prune(slots)[j] # NoSlot}) < MaxSlots)
  <2> DEFINE pruned == Prune(slots)
             slot == [(IF pruned[k] = NoSlot THEN NewSlot ELSE pruned[k])
                        EXCEPT !.generation = @ + 1]
             used == {j \in Key : pruned[j] # NoSlot}
             room == pruned[k] # NoSlot \/ Cardinality(used) < MaxSlots
  <2>1. \/ tasks' = [tasks EXCEPT ![u].step = "shutdown", ![u].key = k]
        \/ ~room
        \/ tasks' = [tasks EXCEPT ![u] = Permit(k, slot, slot.generation)]
        \/ tasks' = [Supersede(slot) EXCEPT ![u] = Waiter(k, slot)]
    BY <1>3 DEF Reserve
  <2> HIDE DEF slot
  <2>2. ~(tasks' = [tasks EXCEPT ![u].step = "shutdown", ![u].key = k])
    BY <1>1 DEF TaskRecord
  <2>3. ~(tasks' = [tasks EXCEPT ![u] = Permit(k, slot, slot.generation)])
    BY <1>1 DEF Permit, NewTask
  <2>4. ~(tasks' = [Supersede(slot) EXCEPT ![u] = Waiter(k, slot)])
    <3>1. Supersede(slot) \in [Task -> TaskRecord] /\ Supersede(slot)[t].step = "new"
      BY <1>1 DEF Supersede, TaskRecord
    <3>2. Waiter(k, slot).step = "waiting"
      BY DEF Waiter, NewTask
    <3> QED
      BY <3>1, <3>2
  <2> QED
    BY <2>1, <2>2, <2>3, <2>4
<1>4. ASSUME NEW u \in Task PROVE ~Wake(u) /\ ~Commit(u) /\ ~Cancel(u)
  <2>1. ~Wake(u)
    <3>1. ~(\E k, slot, generation : tasks' = [tasks EXCEPT ![u] = Permit(k, slot, generation)])
      BY <1>1 DEF Permit, NewTask
    <3> QED
      BY <1>2, <3>1 DEF Wake
  <2>2. ~Commit(u)
    BY <1>2 DEF Commit
  <2>3. ~Cancel(u)
    BY <1>2 DEF Cancel
  <2> QED
    BY <2>1, <2>2, <2>3
<1>5. ~Tick /\ ~Close /\ ~UNCHANGED vars
  BY <1>1 DEF Tick, Close, vars, TaskRecord
<1> QED
  BY <1>3, <1>4, <1>5 DEF Next

(* A message is turned away for want of a slot only while MaxSlots keys are *)
(* taken by an open decision, a reservation that waited or a running        *)
(* interval: no slot outlives its reason (_prune_locked and the limit in    *)
(* _offer_locked, src/activation_reservation.py:83-92, :121-128).  The      *)
(* messages are finitely many; the keys need not be.                        *)
THEOREM NobodyIsTurnedAwayInVain ==
  ASSUME ~Suspends, IsFiniteSet(Task) PROVE Spec => InertOnlyWhenBusy
<1>1. Init => IntervalIsPaidFor /\ SlotsAreOccupied
  BY DEF Init, IntervalIsPaidFor, SlotsAreOccupied, Occupied
<1>2. Inv /\ IntervalIsPaidFor /\ [Next]_vars => IntervalIsPaidFor'
  BY PaidNext DEF IntervalIsPaidFor, PaidFor
<1>3. Inv /\ ClosedIsEmpty /\ SlotsAreOccupied /\ [Next]_vars => SlotsAreOccupied'
  BY OccupiedNext DEF SlotsAreOccupied
<1>4. ASSUME Inv, IntervalIsPaidFor, SlotsAreOccupied, [Next]_vars, NEW t \in Task,
             tasks[t].step = "new", tasks'[t].step = "inert"
      PROVE  MaxSlots <= Cardinality(BusyKeys)
  <2> DEFINE used == {k \in Key : Prune(slots)[k] # NoSlot}
             keyOf == [u \in Task |-> tasks[u].key]
             keys == {tasks[u].key : u \in Task}
  <2>1. keyOf \in Surjection(Task, keys)
    BY DEF Surjection
  <2>2. IsFiniteSet(keys)
    BY <2>1, FS_Surjection
  <2>3. BusyKeys \subseteq keys /\ used \subseteq BusyKeys
    BY <1>4, SlotsAreBusy DEF BusyKeys
  <2>4. ~(Cardinality(used) < MaxSlots)
    BY <1>4, InertMeansFull DEF Inv
  <2> HIDE DEF used, keys
  <2>5. IsFiniteSet(BusyKeys)
    BY <2>2, <2>3, FS_Subset
  <2>6. IsFiniteSet(used) /\ Cardinality(used) <= Cardinality(BusyKeys)
    BY <2>3, <2>5, FS_Subset
  <2>7. Cardinality(used) \in Nat /\ Cardinality(BusyKeys) \in Nat /\ MaxSlots \in Nat
    BY <2>5, <2>6, FS_CardinalityType, ReservationAssumption
  <2> QED
    BY <2>4, <2>6, <2>7
<1>5. Inv /\ IntervalIsPaidFor /\ SlotsAreOccupied /\ [Next]_vars =>
        [\A t \in Task : tasks[t].step = "new" /\ tasks'[t].step = "inert" =>
                          MaxSlots <= Cardinality(BusyKeys)]_vars
  BY <1>4
<1>6. Inv => TypeOK
  BY DEF Inv
<1> QED
  BY <1>1, <1>2, <1>3, <1>5, <1>6, EmptyInit, EmptyNext, InvInit, InvNext, PTL
     DEF Spec, InertOnlyWhenBusy, BusyKeys
=============================================================================

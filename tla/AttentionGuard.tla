--------------------------- MODULE AttentionGuard ---------------------------
(***************************************************************************)
(* AttentionIgnoreService and ObjectAttentionGuard                          *)
(* (src/attention_service.py, src/attention_domain.py): finite policies to  *)
(* ignore a target of a scope once its messages come too fast.              *)
(*                                                                         *)
(* Policies are stored and expire by the raw wall clock, which may be set   *)
(* back; counters and blocks live in memory and run by the monotonic clock. *)
(* A mutation computes under the lock and suspends in its two puts, while   *)
(* messages go on being judged by the policies in memory.                   *)
(***************************************************************************)
EXTENDS Integers, Sequences, FiniteSets, SlotStore

CONSTANTS
  Scope, Target,
  NoPolicy,    \* the key has no policy
  NoSlot,      \* the key has no guard slot
  NoDocument,  \* a slot of the store that was never written, or no selection
  NoCommit,    \* the mutation lock is free
  MaxPerScope, \* limits.max_per_scope
  MaxTotal,    \* limits.max_total
  Settings,    \* the parameters of set: records of Setting
  Batches,     \* the target sets of set and clear
  Bound,       \* bound: how often each kind of event may happen
  MaxTime      \* bound: the last instant of the monotonic clock

VARIABLES
  mono, wall, \* the two clocks
  policies,   \* _state, and _policy_map while the service is ready
  guard,      \* _slots of the guard
  svc,        \* _lifecycle_active and storage_ready, and initialize, terminate
  commit,     \* the locals of the mutation, or the boot, that is storing
  primary, backup, \* the two slots of the store
  spent,      \* the bounded events so far
  log,        \* history: the messages of a key that met one policy
  cleared     \* history: keys whose policy was cleared and not set since

vars == <<mono, wall, policies, guard, svc, commit, primary, backup, spent, log, cleared>>
clocks == <<mono, wall>>
slots == <<primary, backup>>

Key == Scope \X Target

(* A window of 0 counts without a window.                                   *)
Setting == [count: Nat \ {0}, window: Nat, ignore: Nat \ {0}, lifetime: Nat \ {0}]

Policy == [count: Nat \ {0}, window: Nat, ignore: Nat \ {0}, created: Int, expires: Int]

GuardSlot == [events: Seq(Nat), cumulative: Nat, blocked: Nat]

NewSlot == [events |-> <<>>, cumulative |-> 0, blocked |-> 0]

Document == [Key -> Policy \cup {NoPolicy}]

Empty == [k \in Key |-> NoPolicy]

(* A mishap is a put that raises, a slot that cannot be read, a death of    *)
(* the process, or a clock that is set back.                                *)
BoundNames == {"event", "mutation", "boot", "mishap"}

ASSUME AttentionAssumption ==
  /\ NoPolicy \notin Policy
  /\ NoSlot \notin GuardSlot
  /\ NoDocument \notin Document
  /\ Settings \subseteq Setting
  /\ Batches \subseteq SUBSET Target
  /\ Bound \in [BoundNames -> Nat]
  /\ MaxTime \in Nat

CanSpend(n) == spent[n] < Bound[n]
Spend(n) == spent' = [spent EXCEPT ![n] = @ + 1]

Init ==
  /\ mono = 0 /\ wall = 0
  /\ policies = Empty
  /\ guard = [k \in Key |-> NoSlot]
  /\ svc = [phase |-> "off", ready |-> FALSE]
  /\ commit = NoCommit
  /\ primary = NoDocument /\ backup = NoDocument
  /\ spent = [n \in BoundNames |-> 0]
  /\ log = [k \in Key |-> <<>>]
  /\ cleared = {}

Tick ==
  /\ mono < MaxTime
  /\ mono' = mono + 1 /\ wall' = wall + 1
  /\ UNCHANGED <<policies, guard, svc, commit, slots, spent, log, cleared>>

(* The host's clock is set back.                                            *)
SetBack ==
  /\ CanSpend("mishap") /\ Spend("mishap")
  /\ wall > 0
  /\ \E earlier \in 0 .. wall - 1 : wall' = earlier
  /\ UNCHANGED <<mono, policies, guard, svc, commit, slots, log, cleared>>
----------------------------------------------------------------------------
(* The policies: src/attention_domain.py.                                   *)

(* prune_ignore_state                                                       *)
Prune(state, now) ==
  [k \in Key |-> IF state[k] # NoPolicy /\ state[k].expires > now THEN state[k] ELSE NoPolicy]

Present(state) == {k \in Key : state[k] # NoPolicy}

Named(s, targets) == {s} \X targets

(* The capacity checks of set_ignore_policies.                              *)
Fits(clean, s, targets) ==
  LET after == Present(clean) \cup Named(s, targets)
  IN  /\ Cardinality({k \in after : k[1] = s}) <= MaxPerScope
      /\ Cardinality(after) <= MaxTotal

NewPolicy(setting, now) ==
  [count |-> setting.count, window |-> setting.window, ignore |-> setting.ignore,
   created |-> now, expires |-> now + setting.lifetime]

(* set_ignore_policies                                                      *)
SetPolicies(clean, s, targets, setting) ==
  [k \in Key |-> IF k \in Named(s, targets) THEN NewPolicy(setting, wall) ELSE clean[k]]

(* clear_ignore_policies                                                    *)
ClearPolicies(clean, s, targets) ==
  [k \in Key |-> IF k \in Named(s, targets) THEN NoPolicy ELSE clean[k]]

(* Deviation: only a policy that was cleared loses its counters.            *)
ChangedByClear(before, after) == Present(before) \ Present(after)

(* result.changed                                                           *)
Changed(before, after) == {k \in Key : before[k] # after[k]}
----------------------------------------------------------------------------
(* A message: evaluate_activation_attempt.                                  *)

(* The deque is pruned to the half-open window: the old events are its      *)
(* first ones.                                                              *)
Recent(events, window) ==
  LET old == {i \in DOMAIN events : events[i] <= mono - window}
  IN  SubSeq(events, Cardinality(old) + 1, Len(events))

(* The slot once the message is counted, and how many it holds now.         *)
Counted(slot, policy) ==
  IF policy.window > 0
  THEN [slot EXCEPT !.blocked = 0, !.events = Append(Recent(@, policy.window), mono)]
  ELSE [slot EXCEPT !.blocked = 0, !.cumulative = @ + 1]

Observed(slot, policy) == IF policy.window > 0 THEN Len(slot.events) ELSE slot.cumulative

Least(a, b) == IF a <= b THEN a ELSE b

(* Deviation: the block runs from the wall clock.                           *)
BlockedByWall(policy) == [NewSlot EXCEPT !.blocked = wall + policy.ignore]

(* The threshold is crossed: the block begins, the counters start afresh.   *)
Blocked(policy) ==
  [NewSlot EXCEPT !.blocked = mono + Least(policy.ignore, policy.expires - wall)]

Judged(k, verdict) ==
  log' = [log EXCEPT ![k] = Append(@, [at |-> mono, wall |-> wall, verdict |-> verdict])]

Forget(keys) == log' = [k \in Key |-> IF k \in keys THEN <<>> ELSE log[k]]

(* What _policy finds: a policy that has expired is not in force.           *)
InForce(k) == svc.ready /\ policies[k] # NoPolicy /\ policies[k].expires > wall

(* No policy in force: the message passes uncounted.  A policy that is seen *)
(* expired loses its counters and stays where it is, so that it is in force *)
(* again when the wall clock is set back; the history remembers the lapse.  *)
PolicyAbsent(k) ==
  /\ ~InForce(k)
  /\ IF svc.ready /\ policies[k] # NoPolicy
     THEN guard' = [guard EXCEPT ![k] = NoSlot] /\ Judged(k, "lapsed")
     ELSE UNCHANGED <<guard, log>>

Judge(k) ==
  LET policy  == policies[k]
      slot    == IF guard[k] = NoSlot THEN NewSlot ELSE guard[k]
      counted == Counted(slot, policy)
  IN  /\ InForce(k)
      /\ \/ /\ slot.blocked > mono
            /\ Judged(k, "ignored")
            /\ UNCHANGED guard
         \/ /\ slot.blocked <= mono
            /\ Observed(counted, policy) < policy.count
            /\ guard' = [guard EXCEPT ![k] = counted]
            /\ Judged(k, "passed")
         \/ /\ slot.blocked <= mono
            /\ Observed(counted, policy) >= policy.count
            /\ guard' = [guard EXCEPT ![k] = Blocked(policy)]
            /\ Judged(k, "triggered")

Message(k) ==
  /\ CanSpend("event") /\ Spend("event")
  /\ PolicyAbsent(k) \/ Judge(k)
  /\ UNCHANGED <<clocks, policies, svc, commit, slots, cleared>>
----------------------------------------------------------------------------
(* Mutations: manage and _commit_mutation.                                  *)

(* Under the lock: the candidate is computed and the puts begin.  A set     *)
(* that exceeds a capacity changes nothing and is left out.                 *)
Mutate(op, s, targets, candidate) ==
  LET clean == Prune(policies, wall)
  IN  /\ svc.phase = "active" /\ svc.ready
      /\ commit = NoCommit
      /\ CanSpend("mutation") /\ Spend("mutation")
      /\ commit' = [op |-> op, stage |-> "backup", previous |-> clean, candidate |-> candidate,
                    keys |-> Named(s, targets)]
      /\ UNCHANGED <<clocks, policies, guard, svc, slots, log>>

Set(s, targets, setting) ==
  LET clean == Prune(policies, wall)
  IN  /\ Fits(clean, s, targets)
      /\ Mutate("set", s, targets, SetPolicies(clean, s, targets, setting))
      /\ cleared' = cleared \ Named(s, targets)

Clear(s, targets) ==
  /\ Mutate("clear", s, targets, ClearPolicies(Prune(policies, wall), s, targets))
  /\ UNCHANGED cleared

(* A put that raises; the lock is released.  An outcome nobody knows makes  *)
(* the service step back: nothing is ignored until it is loaded again.      *)
CommitFails(verdict) ==
  /\ commit' = NoCommit
  /\ IF commit.op = "boot"
     THEN svc' = [phase |-> "inert", ready |-> FALSE] /\ UNCHANGED <<guard, log>>
     ELSE IF verdict = "failed" THEN UNCHANGED <<svc, guard, log>>
     ELSE /\ svc' = [svc EXCEPT !.ready = FALSE]
          /\ guard' = [k \in Key |-> NoSlot]
          /\ Forget(Key)
  /\ UNCHANGED <<policies, cleared>>

PutBackup ==
  /\ commit # NoCommit /\ commit.stage = "backup"
  /\ \E put \in PutResults(backup, commit.previous, CanSpend("mishap")) :
       /\ backup' = put.slot
       /\ IF put.verdict = "ok"
          THEN /\ commit' = [commit EXCEPT !.stage = "primary"]
               /\ UNCHANGED <<policies, guard, svc, spent, log, cleared>>
          ELSE Spend("mishap") /\ CommitFails(put.verdict)
  /\ UNCHANGED <<clocks, primary>>

(* The candidate becomes the state and the changed keys start afresh.       *)
Committed ==
  LET changed == Changed(commit.previous, commit.candidate)
  IN  /\ policies' = commit.candidate
      /\ guard' = [k \in Key |-> IF k \in changed THEN NoSlot ELSE guard[k]]
      /\ Forget({k \in commit.keys : commit.previous[k] # commit.candidate[k]})
      /\ cleared' = IF commit.op = "clear" THEN cleared \cup commit.keys ELSE cleared
      /\ UNCHANGED svc

Booted ==
  /\ policies' = commit.candidate
  /\ svc' = [phase |-> "active", ready |-> TRUE]
  /\ UNCHANGED <<guard, log, cleared>>

PutPrimary ==
  /\ commit # NoCommit /\ commit.stage = "primary"
  /\ \E put \in PutResults(primary, commit.candidate, CanSpend("mishap")) :
       /\ primary' = put.slot
       /\ IF put.verdict = "ok"
          THEN /\ commit' = NoCommit
               /\ IF commit.op = "boot" THEN Booted ELSE Committed
               /\ UNCHANGED spent
          ELSE Spend("mishap") /\ CommitFails(put.verdict)
  /\ UNCHANGED <<clocks, backup>>
----------------------------------------------------------------------------
(* initialize, terminate, and the death of the process.                     *)

NothingInMemory ==
  /\ guard' = [k \in Key |-> NoSlot]
  /\ Forget(Key)

(* A boot that falls back to the backup slot undoes the last mutation.      *)
Initialize ==
  /\ svc.phase \in {"off", "stopped"}
  /\ CanSpend("boot")
  /\ \E readable \in SUBSET {"primary", "backup"} :
       LET document == Select(primary, backup, readable, NoDocument)
           intact   == readable = {"primary", "backup"}
           fresh    == intact /\ primary = NoDocument /\ backup = NoDocument
           start    == IF document = NoDocument THEN Empty ELSE Prune(document, wall)
       IN  /\ intact \/ CanSpend("mishap")
           /\ spent' = [spent EXCEPT !["boot"] = @ + 1,
                                     !["mishap"] = IF intact THEN @ ELSE @ + 1]
           /\ \/ /\ document = NoDocument /\ ~fresh
                 /\ svc' = [phase |-> "inert", ready |-> FALSE]
                 /\ UNCHANGED <<commit, cleared>>
              \/ /\ document # NoDocument \/ fresh
                 /\ svc' = [phase |-> "booting", ready |-> FALSE]
                 /\ commit' = [op |-> "boot", stage |-> "backup", previous |-> start,
                               candidate |-> start, keys |-> {}]
                 /\ cleared' = IF "primary" \in readable THEN cleared ELSE {}
  /\ NothingInMemory
  /\ UNCHANGED <<clocks, policies, slots>>

(* terminate lowers the flags at once ...                                   *)
Terminate ==
  /\ svc.phase \in {"active", "inert"}
  /\ svc' = [phase |-> "stopping", ready |-> FALSE]
  /\ UNCHANGED <<clocks, policies, guard, commit, slots, spent, log, cleared>>

(* ... and clears the memory once it has the lock.                          *)
Terminated ==
  /\ svc.phase = "stopping" /\ commit = NoCommit
  /\ svc' = [svc EXCEPT !.phase = "stopped"]
  /\ NothingInMemory
  /\ UNCHANGED <<clocks, policies, commit, slots, spent, cleared>>

Crash ==
  /\ svc.phase # "off"
  /\ CanSpend("mishap") /\ Spend("mishap")
  /\ svc' = [phase |-> "stopped", ready |-> FALSE]
  /\ commit' = NoCommit
  /\ policies' = Empty
  /\ NothingInMemory
  /\ UNCHANGED <<clocks, slots, cleared>>

Next ==
  \/ Tick \/ SetBack
  \/ \E k \in Key : Message(k)
  \/ \E s \in Scope, targets \in Batches :
       Clear(s, targets) \/ \E setting \in Settings : Set(s, targets, setting)
  \/ PutBackup \/ PutPrimary
  \/ Initialize \/ Terminate \/ Terminated \/ Crash

Spec == Init /\ [][Next]_vars
----------------------------------------------------------------------------
(* Every variable has its type, and a policy expires after it was created:  *)
(* the loader rejects a stored one that does not.                           *)
TypeOK ==
  /\ mono \in 0 .. MaxTime /\ wall \in 0 .. MaxTime
  /\ policies \in Document
  /\ \A k \in Present(policies) : policies[k].created < policies[k].expires
  /\ guard \in [Key -> GuardSlot \cup {NoSlot}]
  /\ svc \in [phase: {"off", "booting", "active", "inert", "stopping", "stopped"},
              ready: BOOLEAN]
  /\ commit # NoCommit =>
       commit \in [op: {"boot", "set", "clear"}, stage: {"backup", "primary"},
                   previous: Document, candidate: Document, keys: SUBSET Key]
  /\ {primary, backup} \subseteq Document \cup {NoDocument}
  /\ spent \in [BoundNames -> Nat]
  /\ log \in [Key -> Seq([at: Nat, wall: Nat,
                          verdict: {"passed", "triggered", "ignored", "lapsed"}])]
  /\ cleared \subseteq Key

TriggersBefore(k, i) == {j \in 1 .. i - 1 : log[k][j].verdict = "triggered"}

LapsesBefore(k, i) == {j \in 1 .. i - 1 : log[k][j].verdict = "lapsed"}

(* The messages that count towards the threshold at message i: those that   *)
(* passed since the last block began, or the policy was last seen expired,  *)
(* and lie in the window.                                                   *)
CountTowards(k, i) ==
  {j \in 1 .. i - 1 :
     /\ log[k][j].verdict = "passed"
     /\ \A t \in TriggersBefore(k, i) \cup LapsesBefore(k, i) : t < j
     /\ policies[k].window > 0 => log[k][j].at > log[k][i].at - policies[k].window}

BlockEnds(k, t) ==
  log[k][t].at + Least(policies[k].ignore, policies[k].expires - log[k][t].wall)

(* The flood is cut.  As long as the service stays loaded and a policy is   *)
(* not replaced, fewer than count messages pass in a window between two     *)
(* blocks, and none before the block that was triggered ends, whatever was  *)
(* committed or failed in between.  Besides a block, only a message that    *)
(* found the policy expired makes the count start afresh; the policy judges *)
(* again after that only once the wall clock is before the instant of every *)
(* such lapse, so that each set-back of the clock lets fewer than count     *)
(* more pass, and none of them before the end of a block.  A load starts    *)
(* with nothing counted or blocked: the code keeps both in memory only.     *)
FloodIsCut ==
  \A k \in Present(policies) : \A i \in DOMAIN log[k] :
    /\ log[k][i].verdict = "passed" => Cardinality(CountTowards(k, i)) + 1 < policies[k].count
    /\ log[k][i].verdict # "ignored" =>
         \A t \in TriggersBefore(k, i) : log[k][i].at >= BlockEnds(k, t)
    /\ log[k][i].verdict # "lapsed" =>
         \A l \in LapsesBefore(k, i) : log[k][i].wall < log[k][l].wall

(* Nobody is ignored without cause: a message triggers only as the count-th *)
(* of its window since the policy was last seen expired, and is ignored     *)
(* only less than the ignore duration after such a trigger, under the same  *)
(* policy and in the same process, however far the wall clock was set back. *)
IgnoreHasCause ==
  \A k \in Present(policies) : \A i \in DOMAIN log[k] :
    /\ log[k][i].verdict = "triggered" =>
         Cardinality(CountTowards(k, i)) + 1 >= policies[k].count
    /\ log[k][i].verdict = "ignored" =>
         \E t \in TriggersBefore(k, i) : log[k][i].at < log[k][t].at + policies[k].ignore

(* A policy that was cleared stays cleared until it is set again: across    *)
(* failed mutations of other targets, crashes and restarts, unless a boot   *)
(* had to fall back to the backup slot.                                     *)
ClearIsFinal == svc.ready => cleared \cap Present(policies) = {}
=============================================================================

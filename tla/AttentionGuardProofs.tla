------------------------- MODULE AttentionGuardProofs -------------------------
(***************************************************************************)
(* What TLAPS proves of AttentionGuard for any number of sessions and       *)
(* targets, any policies, clocks and faults: the types, that a flood is     *)
(* cut, that nobody is ignored without cause, and that a cleared policy     *)
(* stays cleared.                                                           *)
(***************************************************************************)
EXTENDS AttentionGuard, FiniteSetTheorems, SequenceTheorems, TLAPS

(* A policy lives after it was created.                                     *)
Sound(document) == \A k \in Key : document[k] # NoPolicy => document[k].created < document[k].expires

CommitRecord ==
  [op: {"boot", "set", "clear"}, stage: {"backup", "primary"},
   previous: Document, candidate: Document, keys: SUBSET Key]

(* The wall clock never runs ahead of the monotonic one, and every document *)
(* that may become the state is sound.                                      *)
TypeInv ==
  /\ TypeOK
  /\ wall <= mono
  /\ commit # NoCommit => Sound(commit.previous) /\ Sound(commit.candidate)
  /\ \A slot \in {primary, backup} : slot # NoDocument => Sound(slot)

(* A mutation changes what it names; of the rest it drops what has expired. *)
(* Nothing is judged while a boot stores.                                   *)
CommitInv ==
  /\ svc.ready => svc.phase = "active"
  /\ svc.phase \in {"off", "stopped"} => commit = NoCommit
  /\ commit # NoCommit /\ commit.op = "boot" =>
       /\ svc.phase = "booting"
       /\ \A k \in Key : log[k] = <<>> /\ guard[k] = NoSlot
  /\ commit # NoCommit /\ commit.op # "boot" =>
       \A k \in Key :
         /\ k \notin commit.keys => commit.candidate[k] = commit.previous[k]
         /\ commit.previous[k] \in {policies[k], NoPolicy}
         /\ commit.op = "clear" /\ k \in commit.keys => commit.candidate[k] = NoPolicy

(* The counters of a key.                                                   *)
Slot(k) == IF guard[k] = NoSlot THEN NewSlot ELSE guard[k]
Count(k) == IF policies[k].window > 0 THEN Len(Slot(k).events) ELSE Slot(k).cumulative

(* Where the counters start afresh: a block begins, or the policy is seen   *)
(* expired.                                                                 *)
Starts == {"triggered", "lapsed"}

(* The counters hold the last messages of the log, all of which passed; the *)
(* earlier ones that passed lie before such a start or out of the window.   *)
CountInv(k) ==
  LET n == Len(log[k])
      m == Count(k)
  IN  /\ m <= n
      /\ \A j \in n - m + 1 .. n : log[k][j].verdict = "passed"
      /\ \A j \in 1 .. n - m : log[k][j].verdict = "passed" =>
           \/ \E t \in j + 1 .. n - m : log[k][t].verdict \in Starts
           \/ policies[k].window > 0 /\ log[k][j].at <= mono - policies[k].window
      /\ policies[k].window > 0 => \A i \in 1 .. m : Slot(k).events[i] = log[k][n - m + i].at

(* The log is in the order of the monotonic clock.                          *)
OrderInv(k) ==
  \A j \in DOMAIN log[k] :
    /\ log[k][j].at <= mono
    /\ \A i \in 1 .. j : log[k][i].at <= log[k][j].at

(* The wall clock never gains on the monotonic one, and the policy had      *)
(* expired where the log says so: a block ends no later than its policy.    *)
LapseInv(k) ==
  \A j \in DOMAIN log[k] :
    /\ wall - log[k][j].wall <= mono - log[k][j].at
    /\ log[k][j].verdict = "lapsed" => log[k][j].wall >= policies[k].expires

(* A block lasts as long as a trigger says, and the counters wait for its   *)
(* end.                                                                     *)
BlockInv(k) ==
  LET blocked  == Slot(k).blocked
      triggers == {t \in DOMAIN log[k] : log[k][t].verdict = "triggered"}
  IN  /\ \A t \in triggers : BlockEnds(k, t) <= blocked \/ BlockEnds(k, t) <= mono
      /\ blocked > mono =>
           /\ Count(k) = 0
           /\ \E t \in triggers : blocked <= log[k][t].at + policies[k].ignore

(* What the two properties say of message i.                                *)
Judgement(k, i) ==
  /\ log[k][i].verdict = "passed" => Cardinality(CountTowards(k, i)) + 1 < policies[k].count
  /\ log[k][i].verdict # "ignored" =>
       \A t \in TriggersBefore(k, i) : log[k][i].at >= BlockEnds(k, t)
  /\ log[k][i].verdict # "lapsed" =>
       \A l \in LapsesBefore(k, i) : log[k][i].wall < log[k][l].wall
  /\ log[k][i].verdict = "triggered" =>
       Cardinality(CountTowards(k, i)) + 1 >= policies[k].count
  /\ log[k][i].verdict = "ignored" =>
       \E t \in TriggersBefore(k, i) : log[k][i].at < log[k][t].at + policies[k].ignore

KeyInv(k) ==
  /\ CountInv(k)
  /\ OrderInv(k)
  /\ LapseInv(k)
  /\ BlockInv(k)
  /\ \A i \in DOMAIN log[k] : Judgement(k, i)

(* What was cleared is nowhere that memory may take it from.                *)
ClearedInv ==
  \A k \in cleared :
    /\ svc.ready => policies[k] = NoPolicy
    /\ primary # NoDocument /\ primary[k] = NoPolicy
    /\ commit # NoCommit => commit.candidate[k] = NoPolicy

Inv ==
  /\ TypeInv
  /\ CommitInv
  /\ \A k \in Present(policies) : KeyInv(k)
  /\ ClearedInv
----------------------------------------------------------------------------
(* The counters.                                                            *)

(* In the order of the clock the old events are the first ones, and what is *)
(* kept is the rest.                                                        *)
LEMMA RecentIs ==
  ASSUME NEW events \in Seq(Nat), NEW window \in Nat, mono \in Nat,
         \A j \in 1 .. Len(events) : \A i \in 1 .. j : events[i] <= events[j]
  PROVE  \E c \in 0 .. Len(events) :
           /\ \A i \in 1 .. c : events[i] <= mono - window
           /\ \A i \in c + 1 .. Len(events) : events[i] > mono - window
           /\ Recent(events, window) \in Seq(Nat)
           /\ Len(Recent(events, window)) = Len(events) - c
           /\ \A i \in 1 .. Len(events) - c : Recent(events, window)[i] = events[c + i]
<1> DEFINE n == Len(events)
           old == {i \in DOMAIN events : events[i] <= mono - window}
           c == Cardinality(old)
<1>1. n \in Nat /\ DOMAIN events = 1 .. n /\ \A i \in 1 .. n : events[i] \in Nat
  OBVIOUS
<1>2. IsFiniteSet(1 .. n) /\ Cardinality(1 .. n) = n
  BY <1>1, FS_Interval
<1>3. old \in SUBSET (1 .. n)
  BY <1>1
<1>4. IsFiniteSet(old) /\ c \in Nat /\ c <= n
  BY <1>2, <1>3, FS_Subset, FS_CardinalityType
<1>5. ASSUME NEW i \in old PROVE i <= c
  <2>1. 1 .. i \in SUBSET old
    <3> SUFFICES ASSUME NEW j \in 1 .. i PROVE j \in old
      OBVIOUS
    <3>1. j \in 1 .. n /\ i \in 1 .. n /\ events[j] <= events[i] /\ events[i] <= mono - window
      BY <1>1
    <3> QED
      BY <1>1, <3>1
  <2>2. i \in Nat /\ i >= 1
    BY <1>1
  <2>3. Cardinality(1 .. i) = i
    BY <2>2, FS_Interval
  <2>4. Cardinality(1 .. i) <= c
    BY <1>4, <2>1, FS_Subset
  <2> QED
    BY <2>3, <2>4
<1>6. old = 1 .. c
  <2>1. old \in SUBSET (1 .. c)
    BY <1>1, <1>4, <1>5
  <2>2. IsFiniteSet(1 .. c) /\ Cardinality(1 .. c) = c
    BY <1>4, FS_Interval
  <2> QED
    BY <2>1, <2>2, FS_Subset
<1>7. Recent(events, window) = SubSeq(events, c + 1, n)
  BY DEF Recent
<1>8. \A i \in 1 .. n : i \in old <=> events[i] <= mono - window
  BY <1>1
<1> HIDE DEF old, c
<1>9. /\ \A i \in 1 .. c : events[i] <= mono - window
      /\ \A i \in c + 1 .. n : events[i] > mono - window
  BY <1>1, <1>4, <1>6, <1>8
<1>10. /\ SubSeq(events, c + 1, n) \in Seq(Nat)
       /\ Len(SubSeq(events, c + 1, n)) = n - c
       /\ \A i \in 1 .. n - c : SubSeq(events, c + 1, n)[i] = events[c + i]
  <2>1. \A i \in c + 1 .. n : events[i] \in Nat
    BY <1>1, <1>4
  <2>2. c + 1 \in Int /\ n \in Int
    BY <1>1, <1>4
  <2>3. /\ SubSeq(events, c + 1, n) \in Seq(Nat)
        /\ Len(SubSeq(events, c + 1, n)) = IF c + 1 <= n THEN n - (c + 1) + 1 ELSE 0
        /\ \A i \in 1 .. n - (c + 1) + 1 : SubSeq(events, c + 1, n)[i] = events[(c + 1) + i - 1]
    BY <2>1, <2>2, SubSeqProperties
  <2>4. \A i \in 1 .. n - c : i \in 1 .. n - (c + 1) + 1 /\ (c + 1) + i - 1 = c + i
    BY <1>1, <1>4
  <2>5. n - c = IF c + 1 <= n THEN n - (c + 1) + 1 ELSE 0
    <3>1. n \in Nat /\ c \in Nat /\ c <= n
      BY <1>1, <1>4
    <3> HIDE DEF n
    <3>2. CASE c + 1 <= n
      BY <3>1, <3>2
    <3>3. CASE ~(c + 1 <= n)
      BY <3>1, <3>3
    <3> QED
      BY <3>2, <3>3
  <2> QED
    BY <2>3, <2>4, <2>5
<1>11. c \in 0 .. Len(events)
  BY <1>1, <1>4
<1> HIDE DEF n
<1> QED
  BY <1>7, <1>9, <1>10, <1>11 DEF n

(* What was said of a message stays said, as long as its policy and the     *)
(* messages before it stay.                                                 *)
LEMMA JudgementKept ==
  ASSUME NEW k, NEW i \in Nat, policies'[k] = policies[k],
         \A j \in 1 .. i : log'[k][j] = log[k][j], i >= 1, Judgement(k, i)
  PROVE  Judgement(k, i)'
<1>1. TriggersBefore(k, i)' = TriggersBefore(k, i)
  BY DEF TriggersBefore
<1>2. LapsesBefore(k, i)' = LapsesBefore(k, i)
  BY DEF LapsesBefore
<1>3. CountTowards(k, i)' = CountTowards(k, i)
  BY <1>1, <1>2 DEF CountTowards
<1>4. \A t \in TriggersBefore(k, i) : BlockEnds(k, t)' = BlockEnds(k, t)
  BY DEF BlockEnds, TriggersBefore
<1>5. \A l \in LapsesBefore(k, i) : log'[k][l] = log[k][l]
  BY DEF LapsesBefore
<1>6. log'[k][i] = log[k][i]
  OBVIOUS
<1> QED
  BY <1>1, <1>2, <1>3, <1>4, <1>5, <1>6 DEF Judgement, TriggersBefore

Entry == [at: Nat, wall: Nat, verdict: {"passed", "triggered", "ignored", "lapsed"}]

(* The values a key is judged by.                                           *)
LEMMA KeyTypes ==
  ASSUME TypeInv, NEW k \in Key
  PROVE  /\ mono \in Nat /\ wall \in Nat /\ log[k] \in Seq(Entry) /\ Slot(k) \in GuardSlot
         /\ guard \in [Key -> GuardSlot \cup {NoSlot}] /\ log \in [Key -> Seq(Entry)]
         /\ policies[k] # NoPolicy => policies[k] \in Policy
         /\ guard[k] # NoSlot => guard[k] \in GuardSlot
<1>1. NewSlot \in GuardSlot
  BY DEF NewSlot, GuardSlot
<1>2. mono \in Nat /\ wall \in Nat
  BY AttentionAssumption DEF TypeInv, TypeOK
<1>3. log \in [Key -> Seq(Entry)] /\ guard \in [Key -> GuardSlot \cup {NoSlot}]
  BY DEF TypeInv, TypeOK, Entry
<1>4. policies[k] # NoPolicy => policies[k] \in Policy
  BY DEF TypeInv, TypeOK, Document
<1> QED
  BY <1>1, <1>2, <1>3, <1>4 DEF Slot

(* The two ways to count.                                                   *)
LEMMA SlotUpdates ==
  ASSUME NEW slot \in GuardSlot
  PROVE  /\ \A events \in Seq(Nat) :
              [slot EXCEPT !.blocked = 0, !.events = events] \in GuardSlot
         /\ \A m \in Nat : [slot EXCEPT !.blocked = 0, !.cumulative = m] \in GuardSlot
BY DEF GuardSlot

(* The last m messages of the log are those that count towards the          *)
(* threshold, and counted holds them and the one that is judged.            *)
Towards(k, counted, m) ==
  LET policy == policies[k]
      n      == Len(log[k])
  IN  /\ Observed(counted, policy) = m + 1
      /\ \A j \in n - m + 1 .. n :
           /\ log[k][j].verdict = "passed"
           /\ policy.window > 0 => log[k][j].at > mono - policy.window
      /\ \A j \in 1 .. n - m : log[k][j].verdict = "passed" =>
           \/ \E t \in j + 1 .. n - m : log[k][t].verdict \in Starts
           \/ policy.window > 0 /\ log[k][j].at <= mono - policy.window
      /\ policy.window > 0 =>
           /\ counted.events[m + 1] = mono
           /\ \A i \in 1 .. m : counted.events[i] = log[k][n - m + i].at

(* Once a message is counted, the slot holds the messages that count        *)
(* towards the threshold and this one.                                      *)
LEMMA CountedIs ==
  ASSUME TypeInv, NEW k \in Key, policies[k] # NoPolicy, CountInv(k), OrderInv(k)
  PROVE  LET counted == Counted(Slot(k), policies[k])
         IN  /\ counted \in GuardSlot /\ counted.blocked = 0
             /\ \E m \in 0 .. Len(log[k]) : Towards(k, counted, m)
<1> DEFINE policy  == policies[k]
           counted == Counted(Slot(k), policy)
           n       == Len(log[k])
<1>1. /\ mono \in Nat /\ policy \in Policy /\ log[k] \in Seq(Entry) /\ Slot(k) \in GuardSlot
  BY KeyTypes
<1>2. /\ n \in Nat /\ DOMAIN log[k] = 1 .. n /\ \A j \in 1 .. n : log[k][j] \in Entry
      /\ policy.window \in Nat
  BY <1>1 DEF Policy
<1>3. CASE policy.window > 0
  <2> DEFINE events == Slot(k).events
             m0     == Len(events)
  <2>1. /\ events \in Seq(Nat) /\ m0 \in Nat /\ m0 = Count(k)
        /\ Slot(k).cumulative \in Nat
    BY <1>1, <1>3 DEF GuardSlot, Count
  <2>2. /\ m0 <= n
        /\ \A j \in n - m0 + 1 .. n : log[k][j].verdict = "passed"
        /\ \A j \in 1 .. n - m0 : log[k][j].verdict = "passed" =>
             \/ \E t \in j + 1 .. n - m0 : log[k][t].verdict \in Starts
             \/ log[k][j].at <= mono - policy.window
        /\ \A i \in 1 .. m0 : events[i] = log[k][n - m0 + i].at
    BY <1>3, <2>1 DEF CountInv
  <2> HIDE DEF policy, events, n
  <2>3. ASSUME NEW j \in 1 .. m0, NEW i \in 1 .. j PROVE events[i] <= events[j]
    <3>1. /\ n - m0 + j \in DOMAIN log[k] /\ n - m0 + i \in 1 .. n - m0 + j
          /\ i \in 1 .. m0
      BY <1>2, <2>1, <2>2
    <3>2. log[k][n - m0 + i].at <= log[k][n - m0 + j].at
      BY <3>1 DEF OrderInv
    <3> QED
      BY <2>2, <3>1, <3>2
  <2>4. PICK c \in 0 .. m0 :
          /\ \A i \in 1 .. c : events[i] <= mono - policy.window
          /\ \A i \in c + 1 .. m0 : events[i] > mono - policy.window
          /\ Recent(events, policy.window) \in Seq(Nat)
          /\ Len(Recent(events, policy.window)) = m0 - c
          /\ \A i \in 1 .. m0 - c : Recent(events, policy.window)[i] = events[c + i]
    BY <1>1, <1>2, <2>1, <2>3, RecentIs
  <2> DEFINE recent == Recent(events, policy.window)
             m      == m0 - c
  <2>5. /\ counted.events = Append(recent, mono) /\ counted.blocked = 0
        /\ counted.cumulative = Slot(k).cumulative
        /\ counted = [Slot(k) EXCEPT !.blocked = 0, !.events = Append(recent, mono)]
    BY <1>1, <1>3 DEF Counted, GuardSlot, policy, events
  <2> HIDE DEF recent
  <2>6. recent \in Seq(Nat) /\ Len(recent) = m /\ m \in 0 .. n
        /\ \A i \in 1 .. m : recent[i] = events[c + i]
    BY <1>2, <2>1, <2>2, <2>4 DEF recent
  <2>7. /\ Append(recent, mono) \in Seq(Nat) /\ Len(Append(recent, mono)) = m + 1
        /\ Append(recent, mono)[m + 1] = mono
        /\ \A i \in 1 .. m : Append(recent, mono)[i] = recent[i]
    BY <1>1, <2>6
  <2>8. counted \in GuardSlot
    BY <1>1, <2>5, <2>7, SlotUpdates
  <2>9. Observed(counted, policy) = m + 1
    BY <1>3, <2>5, <2>7 DEF Observed
  <2>0. /\ n \in Nat /\ m0 \in Nat /\ c \in Nat /\ m \in Nat /\ c <= m0 /\ m0 <= n
        /\ m = m0 - c
    BY <1>2, <2>1, <2>2, <2>4
  <2> HIDE DEF m0, m
  <2>10. ASSUME NEW j \in n - m + 1 .. n
         PROVE  log[k][j].verdict = "passed" /\ log[k][j].at > mono - policy.window
    <3>1. PICK i \in c + 1 .. m0 : j = n - m0 + i
      <4>1. j - (n - m0) \in c + 1 .. m0 /\ j = n - m0 + (j - (n - m0))
        BY <2>0
      <4> QED
        BY <4>1
    <3>2. i \in 1 .. m0 /\ j \in n - m0 + 1 .. n
      BY <2>0, <3>1
    <3> QED
      BY <2>2, <2>4, <3>1, <3>2
  <2>11. ASSUME NEW j \in 1 .. n - m, log[k][j].verdict = "passed"
         PROVE  \/ \E t \in j + 1 .. n - m : log[k][t].verdict \in Starts
                \/ log[k][j].at <= mono - policy.window
    <3>1. CASE j \in 1 .. n - m0
      <4>1. ASSUME NEW t \in j + 1 .. n - m0 PROVE t \in j + 1 .. n - m
        BY <2>0, <4>1
      <4> QED
        BY <2>2, <2>11, <3>1, <4>1
    <3>2. CASE j \notin 1 .. n - m0
      <4>1. PICK i \in 1 .. c : j = n - m0 + i
        <5>1. j - (n - m0) \in 1 .. c /\ j = n - m0 + (j - (n - m0))
          BY <2>0, <3>2
        <5> QED
          BY <5>1
      <4>2. i \in 1 .. m0
        BY <2>0, <4>1
      <4> QED
        BY <2>2, <2>4, <4>1, <4>2
    <3> QED
      BY <3>1, <3>2
  <2>12. ASSUME NEW i \in 1 .. m PROVE counted.events[i] = log[k][n - m + i].at
    <3>1. c + i \in 1 .. m0 /\ n - m0 + (c + i) = n - m + i
      BY <2>0
    <3> QED
      BY <2>2, <2>5, <2>6, <2>7, <3>1
  <2>13. counted.events[m + 1] = mono
    BY <2>5, <2>7
  <2>14. Towards(k, counted, m)
    <3>1. \A j \in n - m + 1 .. n :
            log[k][j].verdict = "passed" /\ log[k][j].at > mono - policy.window
      BY <2>10
    <3>2. \A j \in 1 .. n - m : log[k][j].verdict = "passed" =>
            \/ \E t \in j + 1 .. n - m : log[k][t].verdict \in Starts
            \/ log[k][j].at <= mono - policy.window
      BY <2>11
    <3>3. counted.events[m + 1] = mono /\ \A i \in 1 .. m : counted.events[i] = log[k][n - m + i].at
      BY <2>12, <2>13
    <3> HIDE DEF counted
    <3> QED
      BY <1>3, <2>9, <3>1, <3>2, <3>3 DEF Towards, policy, n
  <2> QED
    BY <2>5, <2>6, <2>8, <2>14 DEF policy, n
<1>4. CASE ~(policy.window > 0)
  <2> DEFINE m == Slot(k).cumulative
  <2>1. /\ m \in Nat /\ m = Count(k) /\ Slot(k).events \in Seq(Nat)
    BY <1>1, <1>4 DEF GuardSlot, Count
  <2>2. /\ m <= n
        /\ \A j \in n - m + 1 .. n : log[k][j].verdict = "passed"
        /\ \A j \in 1 .. n - m : log[k][j].verdict = "passed" =>
             \E t \in j + 1 .. n - m : log[k][t].verdict \in Starts
    BY <1>4, <2>1 DEF CountInv
  <2>3. /\ counted.blocked = 0 /\ counted.cumulative = m + 1
        /\ counted = [Slot(k) EXCEPT !.blocked = 0, !.cumulative = m + 1]
    BY <1>1, <1>4 DEF Counted, GuardSlot
  <2>4. counted \in GuardSlot
    <3>1. m + 1 \in Nat
      BY <2>1
    <3> QED
      BY <1>1, <2>3, <3>1, SlotUpdates
  <2>5. Observed(counted, policy) = m + 1 /\ m \in 0 .. n
    BY <1>2, <1>4, <2>1, <2>2, <2>3 DEF Observed
  <2>6. Towards(k, counted, m)
    BY <1>4, <2>2, <2>5 DEF Towards
  <2> QED
    BY <2>3, <2>4, <2>5, <2>6
<1> QED
  BY <1>3, <1>4

(* A message that is judged is the last of the log.                         *)
Appended(k, n, verdict) ==
  /\ n \in Nat /\ Len(log[k]) = n /\ log'[k] \in Seq(Entry) /\ Len(log'[k]) = n + 1
  /\ \A j \in 1 .. n : log'[k][j] = log[k][j]
  /\ log'[k][n + 1].at = mono /\ log'[k][n + 1].wall = wall
  /\ log'[k][n + 1].verdict = verdict

(* A judgement appends one entry to the log of its key.                     *)
LEMMA JudgedIs ==
  ASSUME TypeInv, NEW k \in Key, NEW verdict \in {"passed", "triggered", "ignored", "lapsed"},
         Judged(k, verdict)
  PROVE  /\ log' \in [Key -> Seq(Entry)]
         /\ \A j \in Key \ {k} : log'[j] = log[j]
         /\ \E n \in Nat : Appended(k, n, verdict)
<1>1. log \in [Key -> Seq(Entry)] /\ log[k] \in Seq(Entry) /\ mono \in Nat /\ wall \in Nat
  BY KeyTypes
<1>2. [at |-> mono, wall |-> wall, verdict |-> verdict] \in Entry
  BY <1>1 DEF Entry
<1>3. log' = [log EXCEPT ![k] = Append(log[k], [at |-> mono, wall |-> wall, verdict |-> verdict])]
  BY DEF Judged
<1>4. log'[k] = Append(log[k], [at |-> mono, wall |-> wall, verdict |-> verdict])
  BY <1>1, <1>3
<1>5. log' \in [Key -> Seq(Entry)] /\ \A j \in Key \ {k} : log'[j] = log[j]
  BY <1>1, <1>2, <1>3
<1>6. Appended(k, Len(log[k]), verdict)
  <2>1. Len(log[k]) \in Nat
    BY <1>1
  <2>2. /\ log'[k] \in Seq(Entry) /\ Len(log'[k]) = Len(log[k]) + 1
        /\ \A j \in 1 .. Len(log[k]) : log'[k][j] = log[k][j]
        /\ log'[k][Len(log[k]) + 1] = [at |-> mono, wall |-> wall, verdict |-> verdict]
    BY <1>1, <1>2, <1>4
  <2> QED
    BY <2>1, <2>2 DEF Appended
<1> QED
  BY <1>5, <1>6, <1>1

(* The messages that count towards the threshold are m in number.           *)
LEMMA TowardsIs ==
  ASSUME TypeInv, NEW k \in Key, NEW counted, NEW n \in Nat, NEW m \in 0 .. n, NEW verdict,
         policies[k] # NoPolicy, policies' = policies,
         Appended(k, n, verdict), Towards(k, counted, m)
  PROVE  Cardinality(CountTowards(k, n + 1))' = m
<1>1. TriggersBefore(k, n + 1)' \cup LapsesBefore(k, n + 1)'
        = {t \in 1 .. n : log[k][t].verdict \in Starts}
  <2>1. (n + 1) - 1 = n
    OBVIOUS
  <2> QED
    BY <2>1 DEF TriggersBefore, LapsesBefore, Appended, Starts
<1>2. /\ mono \in Nat /\ policies[k].window \in Nat
      /\ \A j \in 1 .. n : log[k][j] \in Entry
  BY KeyTypes DEF Policy, Appended
<1>3. CountTowards(k, n + 1)' = n - m + 1 .. n
  <2>1. CountTowards(k, n + 1)' =
          {j \in 1 .. n :
             /\ log[k][j].verdict = "passed"
             /\ \A t \in {t \in 1 .. n : log[k][t].verdict \in Starts} : t < j
             /\ policies[k].window > 0 => log[k][j].at > mono - policies[k].window}
    <3>1. \A i \in Nat : i + 1 - 1 = i
      OBVIOUS
    <3> QED
      BY <1>1, <3>1 DEF CountTowards, Appended
  <2>2. ASSUME NEW j \in n - m + 1 .. n
        PROVE  /\ j \in 1 .. n /\ log[k][j].verdict = "passed"
               /\ \A t \in {t \in 1 .. n : log[k][t].verdict \in Starts} : t < j
               /\ policies[k].window > 0 => log[k][j].at > mono - policies[k].window
    <3>1. \A i \in n - m + 1 .. n : log[k][i].verdict = "passed"
      BY DEF Towards, Appended
    <3>2. \A t \in 1 .. n : t < j \/ t \in n - m + 1 .. n
      OBVIOUS
    <3> QED
      BY <3>1, <3>2 DEF Towards, Appended, Starts
  <2>3. ASSUME NEW j \in 1 .. n, j \notin n - m + 1 .. n, log[k][j].verdict = "passed",
               \A t \in {t \in 1 .. n : log[k][t].verdict \in Starts} : t < j,
               policies[k].window > 0 => log[k][j].at > mono - policies[k].window
        PROVE  FALSE
    <3>1. j \in 1 .. n - m
      BY <2>3
    <3>2. \/ \E t \in j + 1 .. n - m : log[k][t].verdict \in Starts
          \/ policies[k].window > 0 /\ log[k][j].at <= mono - policies[k].window
      BY <2>3, <3>1 DEF Towards, Appended
    <3>3. \A t \in j + 1 .. n - m : t \in 1 .. n /\ ~(t < j)
      OBVIOUS
    <3>4. log[k][j].at \in Nat
      BY <1>2 DEF Entry
    <3> QED
      BY <1>2, <2>3, <3>2, <3>3, <3>4
  <2> QED
    BY <2>1, <2>2, <2>3
<1>4. Cardinality(n - m + 1 .. n) = m
  <2>1. n - m + 1 \in Int /\ n \in Int /\ m \in Nat
    OBVIOUS
  <2>2. Cardinality(n - m + 1 .. n) = IF n - m + 1 > n THEN 0 ELSE n - (n - m + 1) + 1
    BY <2>1, FS_Interval
  <2> QED
    BY <2>1, <2>2
<1> QED
  BY <1>3, <1>4

(* The log with one entry more: the old entries stay where they were.       *)
LEMMA AppendedIs ==
  ASSUME TypeInv, NEW k \in Key, NEW n, NEW verdict, Appended(k, n, verdict)
  PROVE  /\ n \in Nat /\ n = Len(log[k]) /\ DOMAIN log[k] = 1 .. n
         /\ Len(log'[k]) = n + 1 /\ DOMAIN log'[k] = 1 .. n + 1
         /\ \A j \in 1 .. n : log'[k][j] = log[k][j]
         /\ log'[k][n + 1].at = mono /\ log'[k][n + 1].wall = wall
         /\ log'[k][n + 1].verdict = verdict /\ mono \in Nat /\ wall \in Nat
         /\ \A j \in 1 .. n :
              log[k][j] \in Entry /\ log[k][j].at \in Nat /\ log[k][j].wall \in Nat
         /\ \A j \in 1 .. n + 1 : j \in 1 .. n \/ j = n + 1
<1>1. log[k] \in Seq(Entry) /\ mono \in Nat /\ wall \in Nat
  BY KeyTypes
<1>2. n \in Nat /\ n = Len(log[k]) /\ log'[k] \in Seq(Entry) /\ Len(log'[k]) = n + 1
  BY DEF Appended
<1>3. DOMAIN log[k] = 1 .. n /\ \A j \in 1 .. n : log[k][j] \in Entry
  BY <1>1, <1>2
<1>4. DOMAIN log'[k] = 1 .. n + 1
  BY <1>2
<1>5. \A j \in 1 .. n : log[k][j].at \in Nat /\ log[k][j].wall \in Nat
  BY <1>3 DEF Entry
<1>6. \A j \in 1 .. n + 1 : j \in 1 .. n \/ j = n + 1
  BY <1>2
<1> QED
  BY <1>1, <1>2, <1>3, <1>4, <1>5, <1>6 DEF Appended

(* The end of a block is an instant.                                        *)
LEMMA BlockEndsIs ==
  ASSUME TypeInv, NEW k \in Key, policies[k] # NoPolicy, NEW t \in DOMAIN log[k]
  PROVE  BlockEnds(k, t) \in Int
<1>1. log[k][t] \in Entry /\ policies[k] \in Policy
  BY KeyTypes
<1>2. /\ log[k][t].at \in Nat /\ log[k][t].wall \in Nat
      /\ policies[k].ignore \in Nat /\ policies[k].expires \in Int
  BY <1>1 DEF Entry, Policy
<1> QED
  BY <1>2 DEF BlockEnds, Least

(* A message that is judged leaves what was said of the earlier ones, and   *)
(* comes last.                                                              *)
LEMMA EarlierKept ==
  ASSUME TypeInv, NEW k \in Key, NEW n, NEW verdict, Appended(k, n, verdict), KeyInv(k),
         policies' = policies, mono' = mono, wall' = wall, Judgement(k, n + 1)',
         verdict = "lapsed" => wall >= policies[k].expires
  PROVE  OrderInv(k)' /\ LapseInv(k)' /\ \A i \in DOMAIN log'[k] : Judgement(k, i)'
<1>1. /\ n \in Nat /\ DOMAIN log[k] = 1 .. n /\ DOMAIN log'[k] = 1 .. n + 1
      /\ \A j \in 1 .. n : log'[k][j] = log[k][j]
      /\ log'[k][n + 1].at = mono /\ mono \in Nat
      /\ \A j \in 1 .. n : log[k][j].at \in Nat
  BY AppendedIs
<1>2. OrderInv(k)'
  <2>1. \A j \in 1 .. n : log[k][j].at <= mono /\ \A i \in 1 .. j : log[k][i].at <= log[k][j].at
    BY <1>1 DEF KeyInv, OrderInv
  <2>2. \A j \in 1 .. n : log'[k][j].at <= mono /\ \A i \in 1 .. j : log'[k][i].at <= log'[k][j].at
    <3> SUFFICES ASSUME NEW j \in 1 .. n
                 PROVE  log'[k][j].at <= mono /\ \A i \in 1 .. j : log'[k][i].at <= log'[k][j].at
      OBVIOUS
    <3>1. \A i \in 1 .. j : i \in 1 .. n
      BY <1>1
    <3>2. log'[k][j] = log[k][j] /\ \A i \in 1 .. j : log'[k][i] = log[k][i]
      BY <1>1, <3>1
    <3> QED
      BY <2>1, <3>2
  <2>3. \A i \in 1 .. n + 1 : log'[k][i].at <= mono
    <3>1. \A i \in 1 .. n + 1 : i \in 1 .. n \/ i = n + 1
      BY <1>1
    <3> QED
      BY <1>1, <2>2, <3>1
  <2>4. \A j \in 1 .. n + 1 : j \in 1 .. n \/ j = n + 1
    BY <1>1
  <2> QED
    BY <1>1, <2>2, <2>3, <2>4 DEF OrderInv
<1>3. ASSUME NEW i \in 1 .. n PROVE Judgement(k, i)'
  <2>1. i \in Nat /\ i >= 1 /\ \A j \in 1 .. i : log'[k][j] = log[k][j]
    BY <1>1
  <2>2. Judgement(k, i)
    BY <1>1 DEF KeyInv
  <2>3. policies'[k] = policies[k]
    OBVIOUS
  <2> QED
    BY <2>1, <2>2, <2>3, JudgementKept
<1>4. \A i \in 1 .. n + 1 : i \in 1 .. n \/ i = n + 1
  BY <1>1
<1>5. LapseInv(k)'
  <2>1. ASSUME NEW j \in 1 .. n
        PROVE  /\ wall - log'[k][j].wall <= mono - log'[k][j].at
               /\ log'[k][j].verdict = "lapsed" => log'[k][j].wall >= policies[k].expires
    BY <1>1 DEF KeyInv, LapseInv
  <2>2. /\ wall - log'[k][n + 1].wall <= mono - log'[k][n + 1].at
        /\ log'[k][n + 1].verdict = "lapsed" => log'[k][n + 1].wall >= policies[k].expires
    <3>1. /\ log'[k][n + 1].wall = wall /\ log'[k][n + 1].at = mono
          /\ log'[k][n + 1].verdict = verdict /\ wall \in Nat /\ mono \in Nat
      BY AppendedIs
    <3>2. wall - wall <= mono - mono
      BY <3>1
    <3> QED
      BY <3>1, <3>2
  <2> QED
    BY <1>1, <1>4, <2>1, <2>2 DEF LapseInv
<1> QED
  BY <1>1, <1>2, <1>3, <1>4, <1>5

(* A policy in force has not been seen expired at the present instant of    *)
(* the wall clock.                                                          *)
LEMMA AfterLapses ==
  ASSUME TypeInv, NEW k \in Key, NEW n, NEW verdict, Appended(k, n, verdict), KeyInv(k),
         policies[k] # NoPolicy, policies[k].expires > wall
  PROVE  \A l \in LapsesBefore(k, n + 1)' : log'[k][n + 1].wall < log'[k][l].wall
<1>1. /\ n \in Nat /\ DOMAIN log[k] = 1 .. n /\ \A j \in 1 .. n : log'[k][j] = log[k][j]
      /\ log'[k][n + 1].wall = wall /\ wall \in Nat
      /\ \A j \in 1 .. n : log[k][j].wall \in Nat
  BY AppendedIs
<1>2. policies[k].expires \in Int
  BY KeyTypes DEF Policy
<1>3. ASSUME NEW l \in LapsesBefore(k, n + 1)' PROVE wall < log'[k][l].wall
  <2>1. (n + 1) - 1 = n
    BY <1>1
  <2>2. l \in 1 .. n /\ log'[k][l].verdict = "lapsed"
    BY <2>1 DEF LapsesBefore
  <2>3. log[k][l].wall >= policies[k].expires
    BY <1>1, <2>2 DEF KeyInv, LapseInv
  <2> QED
    BY <1>1, <1>2, <2>2, <2>3
<1> QED
  BY <1>1, <1>3

(* The message is ignored.                                                  *)
LEMMA IgnoredKeeps ==
  ASSUME TypeInv, NEW k \in Key, NEW n, Appended(k, n, "ignored"), KeyInv(k),
         policies[k] # NoPolicy, policies' = policies, mono' = mono, wall' = wall, guard' = guard,
         policies[k].expires > wall, Slot(k).blocked > mono
  PROVE  KeyInv(k)'
<1>1. /\ n \in Nat /\ n = Len(log[k]) /\ DOMAIN log[k] = 1 .. n
      /\ Len(log'[k]) = n + 1 /\ DOMAIN log'[k] = 1 .. n + 1
      /\ \A j \in 1 .. n : log'[k][j] = log[k][j]
      /\ log'[k][n + 1].at = mono /\ log'[k][n + 1].verdict = "ignored" /\ mono \in Nat
  BY AppendedIs
<1>2. Slot(k)' = Slot(k) /\ Count(k)' = Count(k) /\ Count(k) = 0
  BY DEF Slot, Count, KeyInv, BlockInv
<1>3. \A j \in 1 .. n + 1 : j \in 1 .. n \/ j = n + 1
  BY <1>1
<1>4. CountInv(k)'
  <2>1. \A j \in 1 .. n : log[k][j].verdict = "passed" =>
          \/ \E t \in j + 1 .. n : log[k][t].verdict \in Starts
          \/ policies[k].window > 0 /\ log[k][j].at <= mono - policies[k].window
    <3>1. n - 0 = n
      BY <1>1
    <3> QED
      BY <1>1, <1>2, <3>1 DEF KeyInv, CountInv
  <2>2. ASSUME NEW j \in 1 .. n + 1, log'[k][j].verdict = "passed"
        PROVE  \/ \E t \in j + 1 .. n + 1 : log'[k][t].verdict \in Starts
               \/ policies[k].window > 0 /\ log'[k][j].at <= mono - policies[k].window
    <3>1. j \in 1 .. n
      BY <1>1, <1>3, <2>2
    <3>2. \A t \in j + 1 .. n : t \in j + 1 .. n + 1 /\ t \in 1 .. n
      BY <1>1, <3>1
    <3> QED
      BY <1>1, <2>1, <2>2, <3>1, <3>2
  <2>3. /\ (n + 1) - 0 = n + 1 /\ 0 <= n + 1
        /\ \A j \in (n + 1) - 0 + 1 .. n + 1 : FALSE /\ \A i \in 1 .. 0 : FALSE
    BY <1>1
  <2> QED
    BY <1>1, <1>2, <2>2, <2>3 DEF CountInv
<1>5. {t \in DOMAIN log'[k] : log'[k][t].verdict = "triggered"}
        = {t \in DOMAIN log[k] : log[k][t].verdict = "triggered"}
  BY <1>1, <1>3
<1>6. \A t \in 1 .. n : BlockEnds(k, t)' = BlockEnds(k, t)
  BY <1>1 DEF BlockEnds
<1>7. BlockInv(k)'
  <2>1. BlockInv(k)
    BY DEF KeyInv
  <2> QED
    BY <1>1, <1>2, <1>5, <1>6, <2>1 DEF BlockInv
<1>8. Judgement(k, n + 1)'
  <2>1. PICK t \in 1 .. n : /\ log[k][t].verdict = "triggered"
                            /\ Slot(k).blocked <= log[k][t].at + policies[k].ignore
    BY <1>1 DEF KeyInv, BlockInv
  <2>2. log[k][t].at \in Nat /\ policies[k].ignore \in Nat
    BY AppendedIs, KeyTypes DEF Policy
  <2>3. Slot(k).blocked \in Nat
    BY KeyTypes DEF GuardSlot
  <2>4. log'[k][n + 1].at < log'[k][t].at + policies'[k].ignore
    <3>1. mono < log[k][t].at + policies[k].ignore
      BY <1>1, <2>1, <2>2, <2>3
    <3>2. log'[k][t] = log[k][t] /\ log'[k][n + 1].at = mono
      BY <1>1
    <3> QED
      BY <3>1, <3>2
  <2>5. t \in TriggersBefore(k, n + 1)'
    <3>1. (n + 1) - 1 = n
      BY <1>1
    <3> QED
      BY <1>1, <2>1, <3>1 DEF TriggersBefore
  <2>6. \E u \in TriggersBefore(k, n + 1)' : log'[k][n + 1].at < log'[k][u].at + policies'[k].ignore
    BY <2>4, <2>5
  <2>7. log'[k][n + 1].verdict = "ignored"
    BY <1>1
  <2>8. \A l \in LapsesBefore(k, n + 1)' : log'[k][n + 1].wall < log'[k][l].wall
    BY AfterLapses
  <2> QED
    BY <2>6, <2>7, <2>8 DEF Judgement
<1> QED
  BY <1>4, <1>7, <1>8, EarlierKept DEF KeyInv

(* The message passes.                                                      *)
LEMMA PassedKeeps ==
  ASSUME TypeInv, NEW k \in Key, NEW n, NEW counted, NEW m \in 0 .. n,
         Appended(k, n, "passed"), KeyInv(k),
         policies[k] # NoPolicy, policies' = policies, mono' = mono, wall' = wall,
         policies[k].expires > wall, counted \in GuardSlot, counted.blocked = 0, Towards(k, counted, m),
         guard'[k] = counted, Slot(k).blocked <= mono,
         Observed(counted, policies[k]) < policies[k].count
  PROVE  KeyInv(k)'
<1>1. /\ n \in Nat /\ n = Len(log[k]) /\ DOMAIN log[k] = 1 .. n
      /\ Len(log'[k]) = n + 1 /\ DOMAIN log'[k] = 1 .. n + 1
      /\ \A j \in 1 .. n : log'[k][j] = log[k][j]
      /\ log'[k][n + 1].at = mono /\ log'[k][n + 1].verdict = "passed" /\ mono \in Nat
      /\ \A j \in 1 .. n + 1 : j \in 1 .. n \/ j = n + 1
  BY AppendedIs
<1>2. Slot(k)' = counted
  BY AttentionAssumption DEF Slot
<1>3. Observed(counted, policies[k]) = m + 1 /\ m \in Nat
  BY <1>1 DEF Towards
<1>4. Count(k)' = m + 1
  BY <1>2, <1>3 DEF Count, Observed
<1>5. CountInv(k)'
  <2>1. /\ m + 1 <= n + 1 /\ (n + 1) - (m + 1) = n - m
        /\ \A i \in Int : (n + 1) - (m + 1) + i = n - m + i
    BY <1>1, <1>3
  <2>2. ASSUME NEW j \in n - m + 1 .. n + 1 PROVE log'[k][j].verdict = "passed"
    <3>1. j \in (n - m + 1 .. n) \cap (1 .. n) \/ j = n + 1
      BY <1>1, <1>3
    <3> QED
      BY <1>1, <3>1 DEF Towards
  <2>3. ASSUME NEW j \in 1 .. n - m, log'[k][j].verdict = "passed"
        PROVE  \/ \E t \in j + 1 .. n - m : log'[k][t].verdict \in Starts
               \/ policies'[k].window > 0 /\ log'[k][j].at <= mono' - policies'[k].window
    <3>1. j \in 1 .. n /\ \A t \in j + 1 .. n - m : t \in 1 .. n
      BY <1>1, <1>3
    <3> QED
      BY <1>1, <2>3, <3>1 DEF Towards
  <2>4. ASSUME policies'[k].window > 0, NEW i \in 1 .. m + 1
        PROVE  counted.events[i] = log'[k][n - m + i].at
    <3>1. CASE i = m + 1
      <4>1. n - m + i = n + 1
        <5>1. n \in Nat /\ m \in Nat
          BY <1>1, <1>3
        <5> QED
          BY <3>1, <5>1
      <4> QED
        BY <1>1, <2>4, <3>1, <4>1 DEF Towards
    <3>2. CASE i # m + 1
      <4>1. i \in 1 .. m /\ n - m + i \in 1 .. n
        BY <1>1, <1>3, <3>2
      <4> QED
        BY <1>1, <2>4, <4>1 DEF Towards
    <3> QED
      BY <3>1, <3>2
  <2>5. policies'[k].window > 0 =>
          \A i \in 1 .. m + 1 : counted.events[i] = log'[k][(n + 1) - (m + 1) + i].at
    BY <2>1, <2>4
  <2>6. /\ \A j \in (n + 1) - (m + 1) + 1 .. n + 1 : log'[k][j].verdict = "passed"
        /\ \A j \in 1 .. (n + 1) - (m + 1) : log'[k][j].verdict = "passed" =>
             \/ \E t \in j + 1 .. (n + 1) - (m + 1) : log'[k][t].verdict \in Starts
             \/ policies'[k].window > 0 /\ log'[k][j].at <= mono' - policies'[k].window
    BY <2>1, <2>2, <2>3
  <2>7. Len(log'[k]) = n + 1 /\ m + 1 <= n + 1
    BY <1>1, <2>1
  <2> QED
    BY <1>2, <1>4, <2>5, <2>6, <2>7 DEF CountInv
<1>6. {t \in DOMAIN log'[k] : log'[k][t].verdict = "triggered"}
        = {t \in DOMAIN log[k] : log[k][t].verdict = "triggered"}
  BY <1>1
<1>7. ASSUME NEW t \in 1 .. n, log[k][t].verdict = "triggered"
      PROVE  /\ BlockEnds(k, t)' = BlockEnds(k, t)
             /\ BlockEnds(k, t) <= mono /\ BlockEnds(k, t) \in Int
  <2>1. BlockEnds(k, t)' = BlockEnds(k, t)
    BY <1>1 DEF BlockEnds
  <2>2. BlockEnds(k, t) <= Slot(k).blocked \/ BlockEnds(k, t) <= mono
    BY <1>1, <1>7 DEF KeyInv, BlockInv
  <2>3. Slot(k).blocked \in Nat /\ BlockEnds(k, t) \in Int
    BY <1>1, BlockEndsIs, KeyTypes DEF GuardSlot
  <2> QED
    BY <1>1, <2>1, <2>2, <2>3
<1>8. BlockInv(k)'
  <2>1. Slot(k)'.blocked = 0 /\ ~(0 > mono)
    BY <1>1, <1>2
  <2>2. \A t \in {t \in DOMAIN log'[k] : log'[k][t].verdict = "triggered"} :
          BlockEnds(k, t)' <= mono
    BY <1>1, <1>6, <1>7
  <2> QED
    BY <2>1, <2>2 DEF BlockInv
<1>9. Judgement(k, n + 1)'
  <2>1. Cardinality(CountTowards(k, n + 1))' = m
    BY <1>1, TowardsIs
  <2>2. Cardinality(CountTowards(k, n + 1))' + 1 < policies'[k].count
    BY <1>3, <2>1
  <2>3. \A t \in TriggersBefore(k, n + 1)' : log'[k][n + 1].at >= BlockEnds(k, t)'
    <3>1. (n + 1) - 1 = n
      BY <1>1
    <3>2. \A t \in TriggersBefore(k, n + 1)' : t \in 1 .. n /\ log[k][t].verdict = "triggered"
      BY <1>1, <3>1 DEF TriggersBefore
    <3>3. \A t \in TriggersBefore(k, n + 1)' : BlockEnds(k, t)' <= mono
      BY <1>7, <3>2
    <3>4. \A t \in TriggersBefore(k, n + 1)' : BlockEnds(k, t)' \in Int
      BY <1>7, <3>2
    <3> QED
      BY <1>1, <3>3, <3>4
  <2>4. log'[k][n + 1].verdict = "passed"
    BY <1>1
  <2>5. \A l \in LapsesBefore(k, n + 1)' : log'[k][n + 1].wall < log'[k][l].wall
    BY AfterLapses
  <2> QED
    BY <2>2, <2>3, <2>4, <2>5 DEF Judgement
<1> QED
  BY <1>5, <1>8, <1>9, EarlierKept DEF KeyInv

(* The message crosses the threshold.                                       *)
LEMMA TriggeredKeeps ==
  ASSUME TypeInv, NEW k \in Key, NEW n, NEW counted, NEW m \in 0 .. n,
         Appended(k, n, "triggered"), KeyInv(k),
         policies[k] # NoPolicy, policies' = policies, mono' = mono, wall' = wall,
         policies[k].expires > wall, Towards(k, counted, m),
         guard'[k] = Blocked(policies[k]), Slot(k).blocked <= mono,
         Observed(counted, policies[k]) >= policies[k].count
  PROVE  KeyInv(k)' /\ Blocked(policies[k]) \in GuardSlot
<1>1. /\ n \in Nat /\ n = Len(log[k]) /\ DOMAIN log[k] = 1 .. n
      /\ Len(log'[k]) = n + 1 /\ DOMAIN log'[k] = 1 .. n + 1
      /\ \A j \in 1 .. n : log'[k][j] = log[k][j]
      /\ log'[k][n + 1].at = mono /\ log'[k][n + 1].wall = wall
      /\ log'[k][n + 1].verdict = "triggered" /\ mono \in Nat /\ wall \in Nat
      /\ \A j \in 1 .. n + 1 : j \in 1 .. n \/ j = n + 1
  BY AppendedIs
<1>2. PICK ends : ends = Least(policies[k].ignore, policies[k].expires - wall)
  OBVIOUS
<1>3. ends \in Nat /\ ends <= policies[k].ignore /\ policies[k].ignore \in Nat
  <2>1. policies[k].ignore \in Nat /\ policies[k].expires \in Int
    BY KeyTypes DEF Policy
  <2> QED
    BY <1>1, <1>2, <2>1 DEF Least
<1>4. Blocked(policies[k]) = [events |-> <<>>, cumulative |-> 0, blocked |-> mono + ends]
  BY <1>2 DEF Blocked, NewSlot
<1>5. Blocked(policies[k]) \in GuardSlot
  <2>1. mono + ends \in Nat
    BY <1>1, <1>3
  <2> QED
    BY <1>4, <2>1 DEF GuardSlot
<1>6. Slot(k)' = [events |-> <<>>, cumulative |-> 0, blocked |-> mono + ends]
  BY AttentionAssumption, <1>4, <1>5 DEF Slot
<1>7. Count(k)' = 0
  BY <1>6 DEF Count
<1>8. CountInv(k)'
  <2>1. /\ (n + 1) - 0 = n + 1 /\ 0 <= n + 1
        /\ \A j \in (n + 1) - 0 + 1 .. n + 1 : FALSE /\ \A i \in 1 .. 0 : FALSE
    BY <1>1
  <2>2. ASSUME NEW j \in 1 .. n + 1, log'[k][j].verdict = "passed"
        PROVE  \E t \in j + 1 .. n + 1 : log'[k][t].verdict \in Starts
    <3>1. j \in 1 .. n
      BY <1>1, <2>2
    <3>2. n + 1 \in j + 1 .. n + 1
      BY <1>1, <3>1
    <3> QED
      BY <1>1, <3>2 DEF Starts
  <2>3. /\ \A j \in (n + 1) - 0 + 1 .. n + 1 : log'[k][j].verdict = "passed"
        /\ \A j \in 1 .. (n + 1) - 0 : log'[k][j].verdict = "passed" =>
             \E t \in j + 1 .. (n + 1) - 0 : log'[k][t].verdict \in Starts
    BY <2>1, <2>2
  <2>4. Len(log'[k]) = n + 1 /\ 0 <= n + 1
    BY <1>1
  <2> QED
    BY <1>7, <2>1, <2>3, <2>4 DEF CountInv
<1>9. ASSUME NEW t \in 1 .. n, log[k][t].verdict = "triggered"
      PROVE  /\ BlockEnds(k, t)' = BlockEnds(k, t)
             /\ BlockEnds(k, t) <= mono /\ BlockEnds(k, t) \in Int
  <2>1. BlockEnds(k, t)' = BlockEnds(k, t)
    BY <1>1 DEF BlockEnds
  <2>2. BlockEnds(k, t) <= Slot(k).blocked \/ BlockEnds(k, t) <= mono
    BY <1>1, <1>9 DEF KeyInv, BlockInv
  <2>3. Slot(k).blocked \in Nat /\ BlockEnds(k, t) \in Int
    BY <1>1, BlockEndsIs, KeyTypes DEF GuardSlot
  <2> QED
    BY <1>1, <2>1, <2>2, <2>3
<1>10. BlockInv(k)'
  <2>1. ASSUME NEW t \in 1 .. n + 1, log'[k][t].verdict = "triggered"
        PROVE  BlockEnds(k, t)' <= mono + ends \/ BlockEnds(k, t)' <= mono
    <3>1. CASE t = n + 1
      <4>1. BlockEnds(k, t)' = mono + ends
        BY <1>1, <1>2, <3>1 DEF BlockEnds
      <4> QED
        BY <1>1, <1>3, <4>1
    <3>2. CASE t # n + 1
      BY <1>1, <1>9, <2>1, <3>2
    <3> QED
      BY <3>1, <3>2
  <2>2. n + 1 \in DOMAIN log'[k] /\ mono + ends <= log'[k][n + 1].at + policies'[k].ignore
    BY <1>1, <1>3
  <2>3. Slot(k)'.blocked = mono + ends
    BY <1>6
  <2>4. \E t \in {t \in DOMAIN log'[k] : log'[k][t].verdict = "triggered"} :
          mono + ends <= log'[k][t].at + policies'[k].ignore
    BY <1>1, <2>2
  <2>5. \A t \in {t \in DOMAIN log'[k] : log'[k][t].verdict = "triggered"} :
          BlockEnds(k, t)' <= mono + ends \/ BlockEnds(k, t)' <= mono'
    BY <1>1, <2>1
  <2> QED
    BY <1>7, <2>3, <2>4, <2>5 DEF BlockInv
<1>11. Judgement(k, n + 1)'
  <2>1. Cardinality(CountTowards(k, n + 1))' = m
    BY <1>1, TowardsIs
  <2>2. Cardinality(CountTowards(k, n + 1))' + 1 >= policies'[k].count
    BY <1>1, <2>1 DEF Towards
  <2>3. \A t \in TriggersBefore(k, n + 1)' : log'[k][n + 1].at >= BlockEnds(k, t)'
    <3>1. (n + 1) - 1 = n
      BY <1>1
    <3>2. \A t \in TriggersBefore(k, n + 1)' : t \in 1 .. n /\ log[k][t].verdict = "triggered"
      BY <1>1, <3>1 DEF TriggersBefore
    <3>3. \A t \in TriggersBefore(k, n + 1)' : BlockEnds(k, t)' <= mono
      BY <1>9, <3>2
    <3>4. \A t \in TriggersBefore(k, n + 1)' : BlockEnds(k, t)' \in Int
      BY <1>9, <3>2
    <3> QED
      BY <1>1, <3>3, <3>4
  <2>4. log'[k][n + 1].verdict = "triggered"
    BY <1>1
  <2>5. \A l \in LapsesBefore(k, n + 1)' : log'[k][n + 1].wall < log'[k][l].wall
    BY AfterLapses
  <2> QED
    BY <2>2, <2>3, <2>4, <2>5 DEF Judgement
<1> QED
  BY <1>5, <1>8, <1>10, <1>11, EarlierKept DEF KeyInv

(* The message finds the policy expired.                                    *)
LEMMA LapsedKeeps ==
  ASSUME TypeInv, NEW k \in Key, NEW n, Appended(k, n, "lapsed"), KeyInv(k),
         policies[k] # NoPolicy, policies' = policies, mono' = mono, wall' = wall,
         policies[k].expires <= wall, guard'[k] = NoSlot
  PROVE  KeyInv(k)'
<1>1. /\ n \in Nat /\ n = Len(log[k]) /\ DOMAIN log[k] = 1 .. n
      /\ Len(log'[k]) = n + 1 /\ DOMAIN log'[k] = 1 .. n + 1
      /\ \A j \in 1 .. n : log'[k][j] = log[k][j]
      /\ log'[k][n + 1].at = mono /\ log'[k][n + 1].verdict = "lapsed"
      /\ mono \in Nat /\ wall \in Nat
      /\ \A j \in 1 .. n : log[k][j].at \in Nat /\ log[k][j].wall \in Nat
      /\ \A j \in 1 .. n + 1 : j \in 1 .. n \/ j = n + 1
  BY AppendedIs
<1>2. policies[k].expires \in Int /\ policies[k].ignore \in Nat
  BY KeyTypes DEF Policy
<1>3. Slot(k)' = NewSlot /\ NewSlot = [events |-> <<>>, cumulative |-> 0, blocked |-> 0]
  BY DEF Slot, NewSlot
<1>4. Count(k)' = 0
  BY <1>3 DEF Count
<1>5. CountInv(k)'
  <2>1. /\ (n + 1) - 0 = n + 1 /\ 0 <= n + 1
        /\ \A j \in (n + 1) - 0 + 1 .. n + 1 : FALSE /\ \A i \in 1 .. 0 : FALSE
    BY <1>1
  <2>2. ASSUME NEW j \in 1 .. n + 1, log'[k][j].verdict = "passed"
        PROVE  \E t \in j + 1 .. n + 1 : log'[k][t].verdict \in Starts
    <3>1. j \in 1 .. n
      BY <1>1, <2>2
    <3>2. n + 1 \in j + 1 .. n + 1
      BY <1>1, <3>1
    <3> QED
      BY <1>1, <3>2 DEF Starts
  <2>3. /\ \A j \in (n + 1) - 0 + 1 .. n + 1 : log'[k][j].verdict = "passed"
        /\ \A j \in 1 .. (n + 1) - 0 : log'[k][j].verdict = "passed" =>
             \E t \in j + 1 .. (n + 1) - 0 : log'[k][t].verdict \in Starts
    BY <2>1, <2>2
  <2>4. Len(log'[k]) = n + 1 /\ 0 <= n + 1
    BY <1>1
  <2> QED
    BY <1>4, <2>1, <2>3, <2>4 DEF CountInv
<1>6. ASSUME NEW t \in 1 .. n
      PROVE  /\ BlockEnds(k, t)' = BlockEnds(k, t)
             /\ BlockEnds(k, t) <= mono /\ BlockEnds(k, t) \in Int
  <2>1. BlockEnds(k, t)' = BlockEnds(k, t)
    BY <1>1 DEF BlockEnds
  <2>2. wall - log[k][t].wall <= mono - log[k][t].at
    BY <1>1 DEF KeyInv, LapseInv
  <2>3. PICK at, then, expires : /\ at = log[k][t].at /\ then = log[k][t].wall
                                 /\ expires = policies[k].expires
    OBVIOUS
  <2>4. at \in Nat /\ then \in Nat /\ expires \in Int /\ expires <= wall
        /\ wall - then <= mono - at
    BY <1>1, <1>2, <2>2, <2>3
  <2>5. at + (expires - then) <= mono
    BY <1>1, <2>4
  <2>6. /\ Least(policies[k].ignore, expires - then) \in Int
        /\ Least(policies[k].ignore, expires - then) <= expires - then
    BY <1>2, <2>4 DEF Least
  <2>7. BlockEnds(k, t) = at + Least(policies[k].ignore, expires - then)
    BY <2>3 DEF BlockEnds
  <2> QED
    BY <1>1, <2>1, <2>4, <2>5, <2>6, <2>7
<1>7. BlockInv(k)'
  <2>1. Slot(k)'.blocked = 0 /\ ~(0 > mono)
    BY <1>1, <1>3
  <2>2. \A t \in {t \in DOMAIN log'[k] : log'[k][t].verdict = "triggered"} :
          BlockEnds(k, t)' <= mono
    BY <1>1, <1>6
  <2> QED
    BY <2>1, <2>2 DEF BlockInv
<1>8. Judgement(k, n + 1)'
  <2>1. (n + 1) - 1 = n
    BY <1>1
  <2>2. \A t \in TriggersBefore(k, n + 1)' : t \in 1 .. n
    BY <2>1 DEF TriggersBefore
  <2>3. \A t \in TriggersBefore(k, n + 1)' : log'[k][n + 1].at >= BlockEnds(k, t)'
    BY <1>1, <1>6, <2>2
  <2>4. log'[k][n + 1].verdict = "lapsed"
    BY <1>1
  <2> QED
    BY <2>3, <2>4 DEF Judgement
<1> QED
  BY <1>5, <1>7, <1>8, EarlierKept DEF KeyInv

(* Whatever the verdict, the judgement of a message keeps its key's         *)
(* invariant.                                                               *)
LEMMA JudgeKeeps ==
  ASSUME TypeInv, NEW k \in Key, KeyInv(k), Judge(k),
         policies' = policies, mono' = mono, wall' = wall
  PROVE  /\ KeyInv(k)'
         /\ guard' \in [Key -> GuardSlot \cup {NoSlot}]
         /\ log' \in [Key -> Seq(Entry)]
         /\ \A j \in Key \ {k} : log'[j] = log[j] /\ guard'[j] = guard[j]
<1> DEFINE counted == Counted(Slot(k), policies[k])
<1>1. policies[k] # NoPolicy /\ policies[k].expires > wall
  BY DEF Judge, InForce
<1>2. guard \in [Key -> GuardSlot \cup {NoSlot}] /\ Slot(k) \in GuardSlot
  BY KeyTypes
<1>3. /\ counted \in GuardSlot /\ counted.blocked = 0
      /\ \E m \in 0 .. Len(log[k]) : Towards(k, counted, m)
  BY <1>1, CountedIs DEF KeyInv
<1>4. \/ /\ Slot(k).blocked > mono
         /\ Judged(k, "ignored")
         /\ UNCHANGED guard
      \/ /\ Slot(k).blocked <= mono
         /\ Observed(counted, policies[k]) < policies[k].count
         /\ guard' = [guard EXCEPT ![k] = counted]
         /\ Judged(k, "passed")
      \/ /\ Slot(k).blocked <= mono
         /\ Observed(counted, policies[k]) >= policies[k].count
         /\ guard' = [guard EXCEPT ![k] = Blocked(policies[k])]
         /\ Judged(k, "triggered")
  BY DEF Judge, Slot
<1> HIDE DEF counted
<1>5. CASE Slot(k).blocked > mono /\ Judged(k, "ignored") /\ UNCHANGED guard
  <2>1. PICK n \in Nat : Appended(k, n, "ignored")
    BY <1>5, JudgedIs
  <2>2. KeyInv(k)'
    BY <1>1, <1>5, <2>1, IgnoredKeeps
  <2>3. log' \in [Key -> Seq(Entry)] /\ \A j \in Key \ {k} : log'[j] = log[j]
    BY <1>5, JudgedIs
  <2> QED
    BY <1>2, <1>5, <2>2, <2>3
<1>6. CASE /\ Slot(k).blocked <= mono
           /\ Observed(counted, policies[k]) < policies[k].count
           /\ guard' = [guard EXCEPT ![k] = counted]
           /\ Judged(k, "passed")
  <2>1. PICK n \in Nat : Appended(k, n, "passed")
    BY <1>6, JudgedIs
  <2>2. PICK m \in 0 .. n : Towards(k, counted, m)
    BY <1>3, <2>1 DEF Appended
  <2>3. guard'[k] = counted
    BY <1>2, <1>6
  <2>4. KeyInv(k)'
    BY <1>1, <1>3, <1>6, <2>1, <2>2, <2>3, PassedKeeps
  <2>5. log' \in [Key -> Seq(Entry)] /\ \A j \in Key \ {k} : log'[j] = log[j]
    BY <1>6, JudgedIs
  <2> QED
    BY <1>2, <1>3, <1>6, <2>4, <2>5
<1>7. CASE /\ Slot(k).blocked <= mono
           /\ Observed(counted, policies[k]) >= policies[k].count
           /\ guard' = [guard EXCEPT ![k] = Blocked(policies[k])]
           /\ Judged(k, "triggered")
  <2>1. PICK n \in Nat : Appended(k, n, "triggered")
    BY <1>7, JudgedIs
  <2>2. PICK m \in 0 .. n : Towards(k, counted, m)
    BY <1>3, <2>1 DEF Appended
  <2>3. guard'[k] = Blocked(policies[k])
    BY <1>2, <1>7
  <2>4. KeyInv(k)' /\ Blocked(policies[k]) \in GuardSlot
    BY <1>1, <1>7, <2>1, <2>2, <2>3, TriggeredKeeps
  <2>5. log' \in [Key -> Seq(Entry)] /\ \A j \in Key \ {k} : log'[j] = log[j]
    BY <1>7, JudgedIs
  <2> QED
    BY <1>2, <1>7, <2>4, <2>5
<1> QED
  BY <1>4, <1>5, <1>6, <1>7
----------------------------------------------------------------------------
(* The other steps, as a key sees them: its policy and its memory stay, or  *)
(* the memory starts afresh.                                                *)

(* A key whose policy, log and counters stay keeps its invariant as time    *)
(* goes on.                                                                 *)
LEMMA KeptKeeps ==
  ASSUME TypeInv, NEW k \in Key, policies[k] # NoPolicy, KeyInv(k), mono' \in Nat, mono' >= mono,
         wall' \in Nat, wall' - wall <= mono' - mono,
         policies'[k] = policies[k], log'[k] = log[k], guard'[k] = guard[k]
  PROVE  KeyInv(k)'
<1>1. /\ mono \in Nat /\ policies[k].window \in Nat /\ Slot(k).blocked \in Nat
      /\ \A j \in DOMAIN log[k] : log[k][j].at \in Nat /\ BlockEnds(k, j) \in Int
  <2>1. mono \in Nat /\ policies[k] \in Policy /\ Slot(k) \in GuardSlot /\ log[k] \in Seq(Entry)
    BY KeyTypes
  <2>2. policies[k].window \in Nat /\ Slot(k).blocked \in Nat
    BY <2>1 DEF Policy, GuardSlot
  <2>3. \A j \in DOMAIN log[k] : log[k][j].at \in Nat
    <3>1. \A j \in DOMAIN log[k] : log[k][j] \in Entry
      BY <2>1
    <3> QED
      BY <3>1 DEF Entry
  <2> QED
    BY <2>1, <2>2, <2>3, BlockEndsIs
<1>2. Slot(k)' = Slot(k) /\ Count(k)' = Count(k)
  BY DEF Slot, Count
<1>3. \A t : BlockEnds(k, t)' = BlockEnds(k, t)
  BY DEF BlockEnds
<1>4. \A j \in 1 .. Len(log[k]) : j \in DOMAIN log[k]
  BY KeyTypes
<1>5. Count(k) \in Nat /\ Len(log[k]) \in Nat
  BY KeyTypes DEF Count, GuardSlot
<1>6. CountInv(k)'
  <2>1. CountInv(k)
    BY DEF KeyInv
  <2>2. ASSUME NEW j \in 1 .. Len(log[k]) - Count(k),
               policies[k].window > 0 /\ log[k][j].at <= mono - policies[k].window
        PROVE  log[k][j].at <= mono' - policies[k].window
    <3>1. j \in DOMAIN log[k]
      BY <1>4, <1>5
    <3> QED
      BY <1>1, <2>2, <3>1
  <2> QED
    BY <1>2, <2>1, <2>2 DEF CountInv
<1>7. OrderInv(k)'
  BY <1>1 DEF KeyInv, OrderInv
<1>8. BlockInv(k)'
  <2>1. BlockInv(k)
    BY DEF KeyInv
  <2>2. \A t \in DOMAIN log[k] : BlockEnds(k, t) <= mono => BlockEnds(k, t) <= mono'
    BY <1>1
  <2>3. Slot(k).blocked > mono' => Slot(k).blocked > mono
    BY <1>1
  <2> QED
    BY <1>2, <1>3, <2>1, <2>2, <2>3 DEF BlockInv
<1>9. ASSUME NEW i \in DOMAIN log[k] PROVE Judgement(k, i)'
  <2>1. i \in Nat /\ i >= 1
    BY KeyTypes
  <2>2. Judgement(k, i)
    BY DEF KeyInv
  <2> QED
    BY <2>1, <2>2, JudgementKept
<1>10. LapseInv(k)'
  <2>1. ASSUME NEW j \in DOMAIN log[k]
        PROVE  wall' - log[k][j].wall <= mono' - log[k][j].at
    <3>1. log[k][j] \in Entry /\ wall \in Nat
      BY KeyTypes
    <3>2. log[k][j].at \in Nat /\ log[k][j].wall \in Nat
      BY <3>1 DEF Entry
    <3>3. wall - log[k][j].wall <= mono - log[k][j].at
      BY DEF KeyInv, LapseInv
    <3> QED
      BY <1>1, <3>1, <3>2, <3>3
  <2> QED
    BY <2>1 DEF KeyInv, LapseInv
<1> QED
  BY <1>6, <1>7, <1>8, <1>9, <1>10 DEF KeyInv

(* A key with an empty log and no counters has its invariant.               *)
LEMMA FreshKeeps ==
  ASSUME NEW k, log'[k] = <<>>, guard'[k] = NoSlot, mono' \in Nat
  PROVE  KeyInv(k)'
<1>1. Slot(k)' = NewSlot /\ NewSlot = [events |-> <<>>, cumulative |-> 0, blocked |-> 0]
  BY DEF Slot, NewSlot
<1>2. Count(k)' = 0
  BY <1>1 DEF Count
<1>3. Len(log'[k]) = 0 /\ DOMAIN log'[k] = {}
  OBVIOUS
<1>4. CountInv(k)'
  BY <1>1, <1>2, <1>3 DEF CountInv
<1>5. OrderInv(k)'
  BY <1>3 DEF OrderInv
<1>6. Slot(k)'.blocked = 0 /\ ~(0 > mono')
  BY <1>1
<1> QED
  BY <1>3, <1>4, <1>5, <1>6 DEF KeyInv, BlockInv, LapseInv

(* A memory that is emptied is fresh for every key.                         *)
LEMMA FreshMemory ==
  ASSUME NothingInMemory
  PROVE  /\ guard' \in [Key -> GuardSlot \cup {NoSlot}]
         /\ log' \in [Key -> Seq(Entry)]
         /\ \A k \in Key : log'[k] = <<>> /\ guard'[k] = NoSlot
BY DEF NothingInMemory, Forget
----------------------------------------------------------------------------
(* The documents.                                                           *)

(* Pruning only removes policies, and keeps the document sound.             *)
LEMMA PruneIs ==
  ASSUME NEW state \in Document, NEW now
  PROVE  /\ Prune(state, now) \in Document
         /\ Sound(state) => Sound(Prune(state, now))
         /\ \A k \in Key : Prune(state, now)[k] \in {state[k], NoPolicy}
<1>1. \A k \in Key : Prune(state, now)[k] \in {state[k], NoPolicy}
  BY DEF Prune
<1>2. Prune(state, now) \in Document
  BY <1>1 DEF Prune, Document
<1> QED
  BY <1>1, <1>2 DEF Sound

(* The document without policies is sound.                                  *)
LEMMA EmptyIs == Empty \in Document /\ Sound(Empty) /\ \A k \in Key : Empty[k] = NoPolicy
BY DEF Empty, Document, Sound

(* What set and clear make of the policies.                                 *)
LEMMA SetIs ==
  ASSUME NEW clean \in Document, Sound(clean), NEW s, NEW targets, NEW setting \in Setting,
         wall \in Nat
  PROVE  /\ SetPolicies(clean, s, targets, setting) \in Document
         /\ Sound(SetPolicies(clean, s, targets, setting))
         /\ \A k \in Key : k \notin Named(s, targets) =>
              SetPolicies(clean, s, targets, setting)[k] = clean[k]
<1>1. /\ setting.count \in Nat \ {0} /\ setting.window \in Nat /\ setting.ignore \in Nat \ {0}
      /\ setting.lifetime \in Nat /\ setting.lifetime > 0
  BY DEF Setting
<1>2. /\ wall \in Int /\ wall + setting.lifetime \in Int /\ wall < wall + setting.lifetime
  BY <1>1
<1>3. NewPolicy(setting, wall) \in Policy
  BY <1>1, <1>2 DEF NewPolicy, Policy
<1>4. NewPolicy(setting, wall).created < NewPolicy(setting, wall).expires
  BY <1>2 DEF NewPolicy
<1>5. \A k \in Key : SetPolicies(clean, s, targets, setting)[k] =
                       IF k \in Named(s, targets) THEN NewPolicy(setting, wall) ELSE clean[k]
  BY DEF SetPolicies
<1>6. SetPolicies(clean, s, targets, setting) \in Document
  BY <1>3 DEF SetPolicies, Document
<1> QED
  BY <1>4, <1>5, <1>6 DEF Sound

(* Clearing removes the policies it names and no other.                     *)
LEMMA ClearIs ==
  ASSUME NEW clean \in Document, Sound(clean), NEW s, NEW targets
  PROVE  /\ ClearPolicies(clean, s, targets) \in Document
         /\ Sound(ClearPolicies(clean, s, targets))
         /\ \A k \in Key : ClearPolicies(clean, s, targets)[k] =
                             IF k \in Named(s, targets) THEN NoPolicy ELSE clean[k]
<1>1. \A k \in Key : ClearPolicies(clean, s, targets)[k] =
                       IF k \in Named(s, targets) THEN NoPolicy ELSE clean[k]
  BY DEF ClearPolicies
<1>2. ClearPolicies(clean, s, targets) \in Document
  BY DEF ClearPolicies, Document
<1> QED
  BY <1>1, <1>2 DEF Sound

(* A put stores the new document or leaves the old one, and raises only     *)
(* within the bound.                                                        *)
LEMMA PutResultsAre ==
  ASSUME NEW old, NEW new, NEW mayFail \in BOOLEAN, NEW put \in PutResults(old, new, mayFail)
  PROVE  put.slot \in {old, new} /\ (put.verdict = "ok" => put.slot = new)
<1>1. \/ put = [slot |-> new, verdict |-> "ok"]
      \/ \E s \in {old, new} : put = [slot |-> s, verdict |-> "unknown"]
      \/ put = [slot |-> old, verdict |-> "failed"]
  BY DEF PutResults
<1>2. CASE put = [slot |-> new, verdict |-> "ok"]
  BY <1>2
<1>3. ASSUME NEW s \in {old, new}, put = [slot |-> s, verdict |-> "unknown"]
      PROVE  put.slot \in {old, new} /\ put.verdict = "unknown"
  BY <1>3
<1>4. CASE put = [slot |-> old, verdict |-> "failed"]
  BY <1>4
<1> QED
  BY <1>1, <1>2, <1>3, <1>4

(* Using up a bound keeps its type.                                         *)
LEMMA SpendType ==
  ASSUME TypeInv, NEW n \in BoundNames, Spend(n)
  PROVE  spent' \in [BoundNames -> Nat]
BY DEF TypeInv, TypeOK, Spend

(* The types, once the parts that a step changes have theirs.               *)
LEMMA TypesKept ==
  ASSUME TypeInv, mono' \in 0 .. MaxTime, wall' \in 0 .. MaxTime, wall' <= mono',
         policies' \in Document, Sound(policies'),
         guard' \in [Key -> GuardSlot \cup {NoSlot}],
         svc' \in [phase: {"off", "booting", "active", "inert", "stopping", "stopped"},
                   ready: BOOLEAN],
         commit' # NoCommit =>
           commit' \in CommitRecord /\ Sound(commit'.previous) /\ Sound(commit'.candidate),
         \A slot \in {primary', backup'} : slot \in Document \cup {NoDocument}
                                           /\ (slot # NoDocument => Sound(slot)),
         spent' \in [BoundNames -> Nat], log' \in [Key -> Seq(Entry)], cleared' \subseteq Key
  PROVE  TypeInv'
<1>1. \A k \in Present(policies)' : policies'[k].created < policies'[k].expires
  BY DEF Present, Sound
<1>2. TypeOK'
  BY <1>1 DEF TypeOK, CommitRecord, Entry
<1> QED
  BY <1>2 DEF TypeInv

(* What the types say of each part.                                         *)
LEMMA Parts ==
  ASSUME TypeInv
  PROVE  /\ mono \in 0 .. MaxTime /\ wall \in 0 .. MaxTime /\ wall <= mono
         /\ mono \in Nat /\ wall \in Nat /\ MaxTime \in Nat
         /\ policies \in Document /\ Sound(policies)
         /\ guard \in [Key -> GuardSlot \cup {NoSlot}]
         /\ svc \in [phase: {"off", "booting", "active", "inert", "stopping", "stopped"},
                     ready: BOOLEAN]
         /\ commit # NoCommit =>
              commit \in CommitRecord /\ Sound(commit.previous) /\ Sound(commit.candidate)
         /\ \A slot \in {primary, backup} : slot \in Document \cup {NoDocument}
                                            /\ (slot # NoDocument => Sound(slot))
         /\ spent \in [BoundNames -> Nat] /\ log \in [Key -> Seq(Entry)] /\ cleared \subseteq Key
<1>1. mono \in 0 .. MaxTime /\ wall \in 0 .. MaxTime /\ wall <= mono /\ MaxTime \in Nat
  BY AttentionAssumption DEF TypeInv, TypeOK
<1>2. mono \in Nat /\ wall \in Nat
  BY <1>1
<1>3. Sound(policies)
  BY DEF TypeInv, TypeOK, Sound, Present
<1> QED
  BY <1>1, <1>2, <1>3 DEF TypeInv, TypeOK, CommitRecord, Entry
----------------------------------------------------------------------------
(* The steps.                                                               *)

(* Steps that leave the policies, the memory and the store alone.           *)
LEMMA QuietKeeps ==
  ASSUME Inv, Tick \/ SetBack \/ Terminate
  PROVE  Inv'
<1>1. /\ mono' \in 0 .. MaxTime /\ wall' \in 0 .. MaxTime /\ wall' <= mono' /\ mono' >= mono
      /\ mono' \in Nat /\ wall' \in Nat /\ wall' - wall <= mono' - mono
  <2>1. mono \in 0 .. MaxTime /\ wall \in 0 .. MaxTime /\ wall <= mono /\ MaxTime \in Nat
    BY Parts DEF Inv
  <2>2. CASE Tick
    BY <2>1, <2>2 DEF Tick
  <2>3. CASE SetBack
    BY <2>1, <2>3 DEF SetBack
  <2>4. CASE Terminate
    BY <2>1, <2>4 DEF Terminate, clocks
  <2> QED
    BY <2>2, <2>3, <2>4
<1>2. UNCHANGED <<policies, guard, commit, slots, log, cleared>>
  BY DEF Tick, SetBack, Terminate
<1>3. /\ svc' \in [phase: {"off", "booting", "active", "inert", "stopping", "stopped"},
                   ready: BOOLEAN]
      /\ svc'.ready => svc.ready /\ svc'.phase = svc.phase
      /\ svc'.phase \in {"off", "stopped"} => svc'.phase = svc.phase
      /\ svc.phase = "booting" => svc'.phase = "booting"
  <2>1. CASE svc' = svc
    BY <2>1, Parts DEF Inv
  <2>2. CASE Terminate
    BY <2>2 DEF Terminate
  <2> QED
    BY <2>1, <2>2 DEF Tick, SetBack
<1>4. spent' \in [BoundNames -> Nat]
  <2>1. spent' = spent \/ Spend("mishap")
    BY DEF Tick, SetBack, Terminate
  <2>2. "mishap" \in BoundNames
    BY DEF BoundNames
  <2> QED
    BY <2>1, <2>2, SpendType, Parts DEF Inv
<1>5. TypeInv'
  BY <1>1, <1>2, <1>3, <1>4, TypesKept, Parts DEF Inv, slots
<1>6. CommitInv'
  BY <1>2, <1>3 DEF Inv, CommitInv
<1>7. ASSUME NEW k \in Present(policies)' PROVE KeyInv(k)'
  <2>1. k \in Key /\ policies[k] # NoPolicy /\ k \in Present(policies)
    BY <1>2 DEF Present
  <2> QED
    BY <1>1, <1>2, <2>1, KeptKeeps DEF Inv
<1>8. ClearedInv'
  BY <1>2, <1>3 DEF Inv, ClearedInv, slots
<1> QED
  BY <1>5, <1>6, <1>7, <1>8 DEF Inv

(* The judgement of a message keeps the invariant.                          *)
LEMMA MessageKeeps ==
  ASSUME Inv, NEW k \in Key, Message(k)
  PROVE  Inv'
<1>1. UNCHANGED <<mono, wall, policies, svc, commit, primary, backup, cleared>>
  BY DEF Message, clocks, slots
<1>2. mono \in Nat /\ mono >= mono /\ wall \in Nat /\ wall - wall <= mono - mono
  BY Parts DEF Inv
<1>3. spent' \in [BoundNames -> Nat]
  BY SpendType DEF Message, Inv, BoundNames
<1>4. /\ guard' \in [Key -> GuardSlot \cup {NoSlot}] /\ log' \in [Key -> Seq(Entry)]
      /\ \A j \in Key \ {k} : log'[j] = log[j] /\ guard'[j] = guard[j]
      /\ k \in Present(policies) => KeyInv(k)'
      /\ ~svc.ready => UNCHANGED <<guard, log>>
  <2>1. guard \in [Key -> GuardSlot \cup {NoSlot}] /\ log \in [Key -> Seq(Entry)]
    BY Parts DEF Inv
  <2>2. CASE UNCHANGED <<guard, log>>
    <3>1. k \in Present(policies) => KeyInv(k)'
      BY <1>1, <1>2, <2>2, KeptKeeps DEF Inv, Present
    <3> QED
      BY <2>1, <2>2, <3>1
  <2>3. CASE /\ svc.ready /\ policies[k] # NoPolicy /\ ~InForce(k)
             /\ guard' = [guard EXCEPT ![k] = NoSlot] /\ Judged(k, "lapsed")
    <3>1. guard' \in [Key -> GuardSlot \cup {NoSlot}] /\ guard'[k] = NoSlot
      BY <2>1, <2>3
    <3>2. log' \in [Key -> Seq(Entry)] /\ \A j \in Key \ {k} : log'[j] = log[j]
      BY <2>3, JudgedIs DEF Inv
    <3>3. PICK n \in Nat : Appended(k, n, "lapsed")
      BY <2>3, JudgedIs DEF Inv
    <3>4. policies[k].expires <= wall
      <4>1. policies[k].expires \in Int /\ wall \in Nat
        BY <2>3, KeyTypes DEF Inv, Policy
      <4> QED
        BY <2>3, <4>1 DEF InForce
    <3>5. KeyInv(k)
      BY <2>3 DEF Inv, Present
    <3>6. KeyInv(k)'
      BY <1>1, <2>3, <3>1, <3>3, <3>4, <3>5, LapsedKeeps DEF Inv
    <3> QED
      BY <2>1, <2>3, <3>1, <3>2, <3>6
  <2>4. CASE Judge(k)
    <3>1. k \in Present(policies) /\ svc.ready
      BY <2>4 DEF Judge, InForce, Present
    <3>2. KeyInv(k)
      BY <3>1 DEF Inv
    <3> QED
      BY <1>1, <2>4, <3>1, <3>2, JudgeKeeps DEF Inv
  <2> QED
    BY <2>2, <2>3, <2>4 DEF Message, PolicyAbsent
<1>5. TypeInv'
  BY <1>1, <1>3, <1>4, TypesKept, Parts DEF Inv
<1>6. CommitInv'
  BY <1>1, <1>4 DEF Inv, CommitInv
<1>7. ASSUME NEW j \in Present(policies)' PROVE KeyInv(j)'
  <2>1. j \in Key /\ policies[j] # NoPolicy /\ j \in Present(policies)
    BY <1>1 DEF Present
  <2>2. CASE j = k
    BY <1>4, <2>1, <2>2
  <2>3. CASE j # k
    BY <1>1, <1>2, <1>4, <2>1, <2>3, KeptKeeps DEF Inv
  <2> QED
    BY <2>2, <2>3
<1>8. ClearedInv'
  BY <1>1 DEF Inv, ClearedInv
<1> QED
  BY <1>5, <1>6, <1>7, <1>8 DEF Inv

(* The mutation lock is taken with a candidate.                             *)
LEMMA MutateKeeps ==
  ASSUME Inv, NEW op \in {"set", "clear"}, NEW s \in Scope, NEW targets \in Batches,
         NEW candidate \in Document, Sound(candidate),
         \A k \in Key : k \notin Named(s, targets) => candidate[k] = Prune(policies, wall)[k],
         op = "clear" => \A k \in Named(s, targets) : candidate[k] = NoPolicy,
         Mutate(op, s, targets, candidate), cleared' \subseteq cleared,
         \A k \in cleared' : candidate[k] = NoPolicy
  PROVE  Inv'
<1>1. UNCHANGED <<mono, wall, policies, guard, svc, primary, backup, log>>
  BY DEF Mutate, clocks, slots
<1>2. mono \in Nat /\ mono >= mono /\ wall \in Nat /\ wall - wall <= mono - mono
  BY Parts DEF Inv
<1>3. spent' \in [BoundNames -> Nat]
  BY SpendType DEF Mutate, Inv, BoundNames
<1>4. PICK clean : clean = Prune(policies, wall)
  OBVIOUS
<1>5. clean \in Document /\ Sound(clean) /\ \A k \in Key : clean[k] \in {policies[k], NoPolicy}
  BY <1>4, PruneIs, Parts DEF Inv
<1>6. Named(s, targets) \in SUBSET Key
  BY AttentionAssumption DEF Named, Key
<1>7. commit' = [op |-> op, stage |-> "backup", previous |-> clean, candidate |-> candidate,
                 keys |-> Named(s, targets)]
  BY <1>4 DEF Mutate
<1>8. /\ commit' \in CommitRecord /\ commit'.op = op /\ commit'.previous = clean
      /\ commit'.candidate = candidate /\ commit'.keys = Named(s, targets)
  BY <1>5, <1>6, <1>7 DEF CommitRecord
<1>9. TypeInv'
  BY <1>1, <1>3, <1>5, <1>8, TypesKept, Parts DEF Inv
<1>10. CommitInv'
  <2>1. svc.phase = "active" /\ svc.ready
    BY DEF Mutate
  <2>2. ASSUME NEW k \in Key
        PROVE  /\ k \notin commit'.keys => commit'.candidate[k] = commit'.previous[k]
               /\ commit'.previous[k] \in {policies'[k], NoPolicy}
               /\ commit'.op = "clear" /\ k \in commit'.keys => commit'.candidate[k] = NoPolicy
    BY <1>1, <1>4, <1>5, <1>8
  <2> QED
    BY <1>1, <1>8, <2>1, <2>2 DEF CommitInv
<1>11. ASSUME NEW k \in Present(policies)' PROVE KeyInv(k)'
  <2>1. k \in Key /\ policies[k] # NoPolicy /\ k \in Present(policies)
    BY <1>1 DEF Present
  <2> QED
    BY <1>1, <1>2, <2>1, KeptKeeps DEF Inv
<1>12. ClearedInv'
  BY <1>1, <1>8 DEF Inv, ClearedInv
<1> QED
  BY <1>9, <1>10, <1>11, <1>12 DEF Inv

(* The start of a commit that sets policies keeps it.                       *)
LEMMA SetKeeps ==
  ASSUME Inv, NEW s \in Scope, NEW targets \in Batches, NEW setting \in Settings,
         Set(s, targets, setting)
  PROVE  Inv'
<1> DEFINE clean == Prune(policies, wall)
           candidate == SetPolicies(clean, s, targets, setting)
<1>1. clean \in Document /\ Sound(clean) /\ \A k \in Key : clean[k] \in {policies[k], NoPolicy}
  BY PruneIs, Parts DEF Inv
<1>2. setting \in Setting /\ wall \in Nat
  BY AttentionAssumption, Parts DEF Inv
<1>3. /\ candidate \in Document /\ Sound(candidate)
      /\ \A k \in Key : k \notin Named(s, targets) => candidate[k] = clean[k]
  BY <1>1, <1>2, SetIs
<1>4. Mutate("set", s, targets, candidate) /\ cleared' = cleared \ Named(s, targets)
  BY DEF Set
<1>5. ASSUME NEW k \in cleared' PROVE candidate[k] = NoPolicy
  <2>1. k \in cleared /\ k \notin Named(s, targets) /\ k \in Key
    BY <1>4, Parts DEF Inv
  <2>2. svc.ready
    BY <1>4 DEF Mutate
  <2>3. policies[k] = NoPolicy
    BY <2>1, <2>2 DEF Inv, ClearedInv
  <2> QED
    BY <1>1, <1>3, <2>1, <2>3
<1> HIDE DEF candidate
<1> QED
  BY <1>3, <1>4, <1>5, MutateKeeps

(* The start of a commit that clears policies keeps it.                     *)
LEMMA ClearKeeps ==
  ASSUME Inv, NEW s \in Scope, NEW targets \in Batches, Clear(s, targets)
  PROVE  Inv'
<1> DEFINE clean == Prune(policies, wall)
           candidate == ClearPolicies(clean, s, targets)
<1>1. clean \in Document /\ Sound(clean) /\ \A k \in Key : clean[k] \in {policies[k], NoPolicy}
  BY PruneIs, Parts DEF Inv
<1>2. /\ candidate \in Document /\ Sound(candidate)
      /\ \A k \in Key : candidate[k] = IF k \in Named(s, targets) THEN NoPolicy ELSE clean[k]
  BY <1>1, ClearIs
<1>3. Mutate("clear", s, targets, candidate) /\ cleared' = cleared
  BY DEF Clear
<1>4. ASSUME NEW k \in cleared' PROVE candidate[k] = NoPolicy
  <2>1. k \in cleared /\ k \in Key
    BY <1>3, Parts DEF Inv
  <2>2. svc.ready
    BY <1>3 DEF Mutate
  <2>3. policies[k] = NoPolicy
    BY <2>1, <2>2 DEF Inv, ClearedInv
  <2> QED
    BY <1>1, <1>2, <2>1, <2>3
<1>5. \A k \in Named(s, targets) : k \in Key
  BY AttentionAssumption DEF Named, Key
<1> HIDE DEF candidate
<1> QED
  BY <1>2, <1>3, <1>4, <1>5, MutateKeeps

(* A put that raises frees the lock; the memory stays or starts afresh, and *)
(* the service never gains what it had not.                                 *)
LEMMA CommitFailsIs ==
  ASSUME Inv, commit # NoCommit, NEW verdict, CommitFails(verdict)
  PROVE  /\ commit' = NoCommit /\ UNCHANGED <<policies, cleared>>
         /\ svc' \in [phase: {"off", "booting", "active", "inert", "stopping", "stopped"},
                      ready: BOOLEAN]
         /\ svc'.ready => svc.ready /\ svc'.phase = "active"
         /\ guard' \in [Key -> GuardSlot \cup {NoSlot}] /\ log' \in [Key -> Seq(Entry)]
         /\ \A k \in Key : \/ log'[k] = log[k] /\ guard'[k] = guard[k]
                           \/ log'[k] = <<>> /\ guard'[k] = NoSlot
<1>1. /\ svc \in [phase: {"off", "booting", "active", "inert", "stopping", "stopped"},
                  ready: BOOLEAN]
      /\ guard \in [Key -> GuardSlot \cup {NoSlot}] /\ log \in [Key -> Seq(Entry)]
      /\ svc.ready => svc.phase = "active"
  BY Parts DEF Inv, CommitInv
<1>2. CASE svc' = [phase |-> "inert", ready |-> FALSE] /\ UNCHANGED <<guard, log>>
  BY <1>1, <1>2 DEF CommitFails
<1>3. CASE UNCHANGED <<svc, guard, log>>
  BY <1>1, <1>3 DEF CommitFails
<1>4. CASE /\ svc' = [svc EXCEPT !.ready = FALSE]
           /\ guard' = [k \in Key |-> NoSlot]
           /\ Forget(Key)
  BY <1>1, <1>4, FreshMemory DEF CommitFails, NothingInMemory
<1> QED
  BY <1>2, <1>3, <1>4 DEF CommitFails

(* What a step owes the invariant when it frees the lock and commits        *)
(* nothing.                                                                 *)
LEMMA FailedKeeps ==
  ASSUME Inv, commit # NoCommit, NEW verdict, CommitFails(verdict), UNCHANGED clocks,
         spent' \in [BoundNames -> Nat],
         \A slot \in {primary', backup'} : slot \in Document \cup {NoDocument}
                                           /\ (slot # NoDocument => Sound(slot)),
         \A k \in cleared : primary' # NoDocument /\ primary'[k] = NoPolicy
  PROVE  Inv'
<1>1. /\ commit' = NoCommit /\ UNCHANGED <<policies, cleared>>
      /\ svc' \in [phase: {"off", "booting", "active", "inert", "stopping", "stopped"},
                   ready: BOOLEAN]
      /\ svc'.ready => svc.ready /\ svc'.phase = "active"
      /\ guard' \in [Key -> GuardSlot \cup {NoSlot}] /\ log' \in [Key -> Seq(Entry)]
      /\ \A k \in Key : \/ log'[k] = log[k] /\ guard'[k] = guard[k]
                        \/ log'[k] = <<>> /\ guard'[k] = NoSlot
  BY CommitFailsIs
<1>2. mono' = mono /\ wall' = wall /\ mono \in Nat /\ mono >= mono /\ wall \in Nat /\ wall - wall <= mono - mono
  BY Parts DEF Inv, clocks
<1>3. TypeInv'
  BY <1>1, <1>2, TypesKept, Parts DEF Inv
<1>4. CommitInv'
  BY <1>1 DEF CommitInv
<1>5. ASSUME NEW k \in Present(policies)' PROVE KeyInv(k)'
  <2>1. k \in Key /\ policies[k] # NoPolicy /\ k \in Present(policies)
    BY <1>1 DEF Present
  <2>2. CASE log'[k] = log[k] /\ guard'[k] = guard[k]
    BY <1>1, <1>2, <2>1, <2>2, KeptKeeps DEF Inv
  <2>3. CASE log'[k] = <<>> /\ guard'[k] = NoSlot
    BY <1>2, <2>3, FreshKeeps
  <2> QED
    BY <1>1, <2>1, <2>2, <2>3
<1>6. ClearedInv'
  BY <1>1 DEF Inv, ClearedInv
<1> QED
  BY <1>3, <1>4, <1>5, <1>6 DEF Inv

(* A commit that goes on to its second put stays the same commit.           *)
LEMMA NextStage ==
  ASSUME NEW record \in CommitRecord
  PROVE  LET next == [record EXCEPT !.stage = "primary"]
         IN  /\ next \in CommitRecord /\ next.op = record.op /\ next.keys = record.keys
             /\ next.previous = record.previous /\ next.candidate = record.candidate
BY DEF CommitRecord

(* The put to the backup slot keeps it, whatever its result.                *)
LEMMA PutBackupKeeps ==
  ASSUME Inv, PutBackup
  PROVE  Inv'
<1>1. /\ commit # NoCommit /\ commit \in CommitRecord
      /\ Sound(commit.previous) /\ Sound(commit.candidate) /\ commit.previous \in Document
  BY Parts DEF PutBackup, Inv, CommitRecord
<1>2. PICK put \in PutResults(backup, commit.previous, CanSpend("mishap")) :
        /\ backup' = put.slot
        /\ IF put.verdict = "ok"
           THEN /\ commit' = [commit EXCEPT !.stage = "primary"]
                /\ UNCHANGED <<policies, guard, svc, spent, log, cleared>>
           ELSE Spend("mishap") /\ CommitFails(put.verdict)
  BY DEF PutBackup
<1>3. put.slot \in {backup, commit.previous}
  <2>1. CanSpend("mishap") \in BOOLEAN
    BY DEF CanSpend
  <2> QED
    BY <2>1, PutResultsAre
<1>4. UNCHANGED <<mono, wall, primary>>
  BY DEF PutBackup, clocks
<1>5. \A slot \in {primary', backup'} : slot \in Document \cup {NoDocument}
                                        /\ (slot # NoDocument => Sound(slot))
  BY <1>1, <1>2, <1>3, <1>4, Parts DEF Inv
<1>6. \A k \in cleared : primary' # NoDocument /\ primary'[k] = NoPolicy
  BY <1>4 DEF Inv, ClearedInv
<1>7. CASE put.verdict # "ok"
  <2>1. Spend("mishap") /\ CommitFails(put.verdict)
    BY <1>2, <1>7
  <2>2. spent' \in [BoundNames -> Nat]
    BY <2>1, SpendType DEF Inv, BoundNames
  <2> QED
    BY <1>1, <1>4, <1>5, <1>6, <2>1, <2>2, FailedKeeps DEF clocks
<1>8. CASE put.verdict = "ok"
  <2>1. /\ commit' = [commit EXCEPT !.stage = "primary"]
        /\ UNCHANGED <<policies, guard, svc, spent, log, cleared>>
    BY <1>2, <1>8
  <2>2. /\ commit' \in CommitRecord /\ commit'.op = commit.op /\ commit'.keys = commit.keys
        /\ commit'.previous = commit.previous /\ commit'.candidate = commit.candidate
    BY <1>1, <2>1, NextStage
  <2>3. TypeInv'
    BY <1>1, <1>4, <1>5, <2>1, <2>2, TypesKept, Parts DEF Inv
  <2>4. CommitInv'
    <3>1. /\ svc'.phase \notin {"off", "stopped"} /\ (svc'.ready => svc'.phase = "active")
      BY <1>1, <2>1 DEF Inv, CommitInv
    <3> QED
      BY <1>1, <2>1, <2>2, <3>1 DEF Inv, CommitInv
  <2>5. mono \in Nat /\ mono >= mono /\ wall \in Nat /\ wall - wall <= mono - mono
    BY Parts DEF Inv
  <2>6. ASSUME NEW k \in Present(policies)' PROVE KeyInv(k)'
    <3>1. k \in Key /\ policies[k] # NoPolicy /\ k \in Present(policies)
      BY <2>1 DEF Present
    <3> QED
      BY <1>4, <2>1, <2>5, <3>1, KeptKeeps DEF Inv
  <2>7. ClearedInv'
    BY <1>1, <1>4, <2>1, <2>2 DEF Inv, ClearedInv
  <2> QED
    BY <2>3, <2>4, <2>6, <2>7 DEF Inv
<1> QED
  BY <1>7, <1>8

(* The candidate becomes the state.                                         *)
LEMMA StoredKeeps ==
  ASSUME Inv, commit # NoCommit, commit \in CommitRecord, Sound(commit.candidate),
         commit' = NoCommit, UNCHANGED <<mono, wall, backup, spent>>,
         primary' = commit.candidate,
         IF commit.op = "boot" THEN Booted ELSE Committed
  PROVE  Inv'
<1>1. commit.candidate \in Document /\ commit.keys \in SUBSET Key
      /\ commit.op \in {"boot", "set", "clear"}
  BY DEF CommitRecord
<1>2. policies' = commit.candidate
  BY DEF Booted, Committed
<1>3. mono \in Nat /\ mono >= mono /\ wall \in Nat /\ wall - wall <= mono - mono
  BY Parts DEF Inv
<1>4. /\ guard' \in [Key -> GuardSlot \cup {NoSlot}] /\ log' \in [Key -> Seq(Entry)]
      /\ \A k \in Present(policies)' :
           \/ log'[k] = <<>> /\ guard'[k] = NoSlot
           \/ /\ log'[k] = log[k] /\ guard'[k] = guard[k]
              /\ policies'[k] = policies[k] /\ k \in Present(policies)
  <2>1. guard \in [Key -> GuardSlot \cup {NoSlot}] /\ log \in [Key -> Seq(Entry)]
    BY Parts DEF Inv
  <2>2. CASE commit.op = "boot"
    <3>1. UNCHANGED <<guard, log>> /\ \A k \in Key : log[k] = <<>> /\ guard[k] = NoSlot
      BY <2>2 DEF Booted, Inv, CommitInv
    <3> QED
      BY <2>1, <3>1 DEF Present
  <2>3. CASE commit.op # "boot"
    <3>1. /\ guard' = [k \in Key |-> IF k \in Changed(commit.previous, commit.candidate)
                                     THEN NoSlot ELSE guard[k]]
          /\ log' = [k \in Key |-> IF k \in {j \in commit.keys : commit.previous[j] # commit.candidate[j]}
                                   THEN <<>> ELSE log[k]]
      BY <2>3 DEF Committed, Forget
    <3>2. ASSUME NEW k \in Present(policies)'
          PROVE  \/ log'[k] = <<>> /\ guard'[k] = NoSlot
                 \/ /\ log'[k] = log[k] /\ guard'[k] = guard[k]
                    /\ policies'[k] = policies[k] /\ k \in Present(policies)
      <4>1. k \in Key /\ commit.candidate[k] # NoPolicy
        BY <1>2 DEF Present
      <4>2. CASE commit.previous[k] # commit.candidate[k]
        <5>1. k \in commit.keys
          BY <2>3, <4>1, <4>2 DEF Inv, CommitInv
        <5> QED
          BY <3>1, <4>1, <4>2, <5>1 DEF Changed
      <4>3. CASE commit.previous[k] = commit.candidate[k]
        <5>1. policies[k] = commit.candidate[k]
          BY <2>3, <4>1, <4>3 DEF Inv, CommitInv
        <5>2. log'[k] = log[k] /\ guard'[k] = guard[k]
          BY <3>1, <4>1, <4>3 DEF Changed
        <5> QED
          BY <1>2, <4>1, <5>1, <5>2 DEF Present
      <4> QED
        BY <4>2, <4>3
    <3>3. guard' \in [Key -> GuardSlot \cup {NoSlot}] /\ log' \in [Key -> Seq(Entry)]
      BY <2>1, <3>1
    <3> QED
      BY <3>2, <3>3
  <2> QED
    BY <2>2, <2>3
<1>5. /\ svc' \in [phase: {"off", "booting", "active", "inert", "stopping", "stopped"},
                   ready: BOOLEAN]
      /\ svc'.ready => svc'.phase = "active"
  <2>1. CASE svc' = [phase |-> "active", ready |-> TRUE]
    BY <2>1
  <2>2. CASE svc' = svc
    BY <2>2, Parts DEF Inv, CommitInv
  <2> QED
    BY <2>1, <2>2 DEF Booted, Committed
<1>6. /\ cleared' \subseteq Key
      /\ \A k \in cleared' : commit.candidate[k] = NoPolicy
  <2>1. CASE cleared' = cleared
    BY <2>1, Parts DEF Inv, ClearedInv
  <2>2. CASE commit.op = "clear" /\ cleared' = cleared \cup commit.keys
    BY <1>1, <2>2, Parts DEF Inv, ClearedInv, CommitInv
  <2> QED
    BY <2>1, <2>2 DEF Booted, Committed
<1>7. TypeInv'
  <2>1. \A slot \in {primary', backup'} : slot \in Document \cup {NoDocument}
                                          /\ (slot # NoDocument => Sound(slot))
    BY <1>1, Parts DEF Inv
  <2> QED
    BY <1>1, <1>2, <1>4, <1>5, <1>6, <2>1, TypesKept, Parts DEF Inv
<1>8. CommitInv'
  <2>1. commit' = NoCommit /\ (svc'.ready => svc'.phase = "active")
    BY <1>5
  <2> QED
    BY <2>1 DEF CommitInv
<1>9. ASSUME NEW k \in Present(policies)' PROVE KeyInv(k)'
  <2>1. CASE log'[k] = <<>> /\ guard'[k] = NoSlot
    BY <1>3, <2>1, FreshKeeps
  <2>2. CASE /\ log'[k] = log[k] /\ guard'[k] = guard[k]
             /\ policies'[k] = policies[k] /\ k \in Present(policies)
    <3>1. k \in Key /\ policies[k] # NoPolicy /\ KeyInv(k)
      BY <2>2 DEF Present, Inv
    <3> QED
      BY <1>3, <2>2, <3>1, KeptKeeps DEF Inv
  <2> QED
    BY <1>4, <2>1, <2>2
<1>10. ClearedInv'
  BY <1>1, <1>2, <1>6, AttentionAssumption DEF ClearedInv
<1> QED
  BY <1>7, <1>8, <1>9, <1>10 DEF Inv

(* The put to the primary slot keeps it: the policies are published, or the *)
(* service steps back.                                                      *)
LEMMA PutPrimaryKeeps ==
  ASSUME Inv, PutPrimary
  PROVE  Inv'
<1>1. /\ commit # NoCommit /\ commit \in CommitRecord
      /\ Sound(commit.previous) /\ Sound(commit.candidate) /\ commit.candidate \in Document
  BY Parts DEF PutPrimary, Inv, CommitRecord
<1>2. PICK put \in PutResults(primary, commit.candidate, CanSpend("mishap")) :
        /\ primary' = put.slot
        /\ IF put.verdict = "ok"
           THEN /\ commit' = NoCommit
                /\ IF commit.op = "boot" THEN Booted ELSE Committed
                /\ UNCHANGED spent
           ELSE Spend("mishap") /\ CommitFails(put.verdict)
  BY DEF PutPrimary
<1>3. put.slot \in {primary, commit.candidate} /\ (put.verdict = "ok" => put.slot = commit.candidate)
  <2>1. CanSpend("mishap") \in BOOLEAN
    BY DEF CanSpend
  <2> QED
    BY <2>1, PutResultsAre
<1>4. UNCHANGED <<mono, wall, backup>>
  BY DEF PutPrimary, clocks
<1>5. CASE put.verdict # "ok"
  <2>1. Spend("mishap") /\ CommitFails(put.verdict)
    BY <1>2, <1>5
  <2>2. spent' \in [BoundNames -> Nat]
    BY <2>1, SpendType DEF Inv, BoundNames
  <2>3. \A slot \in {primary', backup'} : slot \in Document \cup {NoDocument}
                                          /\ (slot # NoDocument => Sound(slot))
    BY <1>1, <1>2, <1>3, <1>4, Parts DEF Inv
  <2>4. \A k \in cleared : primary' # NoDocument /\ primary'[k] = NoPolicy
    BY <1>1, <1>2, <1>3, AttentionAssumption DEF Inv, ClearedInv
  <2> QED
    BY <1>1, <1>4, <2>1, <2>2, <2>3, <2>4, FailedKeeps DEF clocks
<1>6. CASE put.verdict = "ok"
  BY <1>1, <1>2, <1>3, <1>4, <1>6, StoredKeeps
<1> QED
  BY <1>5, <1>6

(* What a boot finds: the primary slot wherever it can be read.             *)
LEMMA SelectIs ==
  ASSUME TypeInv, NEW readable
  PROVE  LET document == Select(primary, backup, readable, NoDocument)
         IN  /\ document \in Document \cup {NoDocument}
             /\ document # NoDocument => Sound(document)
             /\ "primary" \in readable /\ primary # NoDocument => document = primary
BY Parts DEF Select

(* A boot keeps it: no policy and no log is in memory yet.                  *)
LEMMA InitializeKeeps ==
  ASSUME Inv, Initialize
  PROVE  Inv'
<1>1. PICK readable \in SUBSET {"primary", "backup"} :
       LET document == Select(primary, backup, readable, NoDocument)
           intact   == readable = {"primary", "backup"}
           fresh    == intact /\ primary = NoDocument /\ backup = NoDocument
           start    == IF document = NoDocument THEN Empty ELSE Prune(document, wall)
       IN  /\ spent' = [spent EXCEPT !["boot"] = @ + 1,
                                     !["mishap"] = IF intact THEN @ ELSE @ + 1]
           /\ \/ /\ document = NoDocument /\ ~fresh
                 /\ svc' = [phase |-> "inert", ready |-> FALSE]
                 /\ UNCHANGED <<commit, cleared>>
              \/ /\ document # NoDocument \/ fresh
                 /\ svc' = [phase |-> "booting", ready |-> FALSE]
                 /\ commit' = [op |-> "boot", stage |-> "backup", previous |-> start,
                               candidate |-> start, keys |-> {}]
                 /\ cleared' = IF "primary" \in readable THEN cleared ELSE {}
  BY DEF Initialize
<1>2. PICK document : document = Select(primary, backup, readable, NoDocument)
  OBVIOUS
<1>3. PICK start : start = IF document = NoDocument THEN Empty ELSE Prune(document, wall)
  OBVIOUS
<1>4. /\ document \in Document \cup {NoDocument} /\ (document # NoDocument => Sound(document))
      /\ "primary" \in readable /\ primary # NoDocument => document = primary
  BY <1>2, SelectIs DEF Inv
<1>5. /\ start \in Document /\ Sound(start)
      /\ \A k \in Key : start[k] \in {NoPolicy, document[k]}
  <2>1. CASE document = NoDocument
    BY <1>3, <2>1, EmptyIs
  <2>2. CASE document # NoDocument
    <3>1. document \in Document /\ Sound(document) /\ start = Prune(document, wall)
      BY <1>3, <1>4, <2>2
    <3> QED
      BY <3>1, PruneIs
  <2> QED
    BY <2>1, <2>2
<1>6. /\ UNCHANGED <<mono, wall, policies, primary, backup>>
      /\ guard' \in [Key -> GuardSlot \cup {NoSlot}] /\ log' \in [Key -> Seq(Entry)]
      /\ \A k \in Key : log'[k] = <<>> /\ guard'[k] = NoSlot
      /\ commit = NoCommit
  BY FreshMemory DEF Initialize, clocks, slots, Inv, CommitInv
<1>7. spent' \in [BoundNames -> Nat]
  <2>1. spent \in [BoundNames -> Nat]
    BY Parts DEF Inv
  <2>2. PICK m \in Nat : spent' = [spent EXCEPT !["boot"] = @ + 1, !["mishap"] = m]
    <3>1. spent["mishap"] \in Nat /\ spent["mishap"] + 1 \in Nat
      BY <2>1 DEF BoundNames
    <3>2. spent["mishap"] = [spent EXCEPT !["boot"] = @ + 1]["mishap"]
      BY <2>1 DEF BoundNames
    <3>3. PICK m : /\ m \in {spent["mishap"], spent["mishap"] + 1}
                   /\ spent' = [spent EXCEPT !["boot"] = @ + 1, !["mishap"] = m]
      BY <1>1, <3>2
    <3> QED
      BY <3>1, <3>3
  <2> QED
    BY <2>1, <2>2 DEF BoundNames
<1>8. \/ /\ commit' = NoCommit /\ cleared' = cleared
         /\ svc' = [phase |-> "inert", ready |-> FALSE]
      \/ /\ svc' = [phase |-> "booting", ready |-> FALSE]
         /\ commit' = [op |-> "boot", stage |-> "backup", previous |-> start,
                       candidate |-> start, keys |-> {}]
         /\ cleared' = IF "primary" \in readable THEN cleared ELSE {}
  BY <1>1, <1>2, <1>3, <1>6
<1>9. /\ svc' \in [phase: {"off", "booting", "active", "inert", "stopping", "stopped"},
                   ready: BOOLEAN]
      /\ svc'.ready = FALSE /\ svc'.phase \notin {"off", "stopped"}
  <2>1. CASE svc' = [phase |-> "inert", ready |-> FALSE]
    BY <2>1
  <2>2. CASE svc' = [phase |-> "booting", ready |-> FALSE]
    BY <2>2
  <2> QED
    BY <1>8, <2>1, <2>2
<1>10. \/ commit' = NoCommit
       \/ /\ commit' \in CommitRecord /\ commit'.op = "boot" /\ svc'.phase = "booting"
          /\ commit'.previous = start /\ commit'.candidate = start
  BY <1>5, <1>8 DEF CommitRecord
<1>11. TypeInv'
  <2>1. cleared' \subseteq Key
    BY <1>8, Parts DEF Inv
  <2> QED
    BY <1>5, <1>6, <1>7, <1>9, <1>10, <2>1, TypesKept, Parts DEF Inv
<1>12. CommitInv'
  BY <1>6, <1>9, <1>10 DEF CommitInv
<1>13. ASSUME NEW k \in Present(policies)' PROVE KeyInv(k)'
  <2>1. k \in Key /\ mono' \in Nat
    BY <1>6, Parts DEF Present, Inv
  <2> QED
    BY <1>6, <2>1, FreshKeeps
<1>14. ClearedInv'
  <2>1. ASSUME NEW k \in cleared'
        PROVE  /\ primary' # NoDocument /\ primary'[k] = NoPolicy
               /\ commit' # NoCommit => commit'.candidate[k] = NoPolicy
    <3>1. k \in cleared /\ k \in Key /\ primary # NoDocument /\ primary[k] = NoPolicy
      BY <1>8, Parts DEF Inv, ClearedInv
    <3>2. CASE commit' = NoCommit
      BY <1>6, <3>1, <3>2
    <3>3. CASE commit' # NoCommit
      <4>1. "primary" \in readable
        BY <1>8, <3>3
      <4>2. document = primary
        BY <1>4, <3>1, <4>1
      <4>3. start[k] = NoPolicy
        BY <1>5, <3>1, <4>2
      <4> QED
        BY <1>6, <1>10, <3>1, <3>3, <4>3
    <3> QED
      BY <3>2, <3>3
  <2> QED
    BY <1>9, <2>1 DEF ClearedInv
<1> QED
  BY <1>11, <1>12, <1>13, <1>14 DEF Inv

(* The memory is emptied, by terminate or with the process.                 *)
LEMMA EndKeeps ==
  ASSUME Inv, Terminated \/ Crash
  PROVE  Inv'
<1>1. /\ guard' \in [Key -> GuardSlot \cup {NoSlot}] /\ log' \in [Key -> Seq(Entry)]
      /\ \A k \in Key : log'[k] = <<>> /\ guard'[k] = NoSlot
  BY FreshMemory DEF Terminated, Crash
<1>2. UNCHANGED <<mono, wall, primary, backup, cleared>> /\ commit' = NoCommit
  BY DEF Terminated, Crash, clocks, slots
<1>3. /\ svc' \in [phase: {"off", "booting", "active", "inert", "stopping", "stopped"},
                   ready: BOOLEAN]
      /\ svc'.ready = FALSE
  <2>1. CASE Terminated
    <3>1. svc' = [svc EXCEPT !.phase = "stopped"] /\ svc.phase = "stopping"
      BY <2>1 DEF Terminated
    <3>2. ~svc.ready
      BY <3>1 DEF Inv, CommitInv
    <3> QED
      BY <3>1, <3>2, Parts DEF Inv
  <2>2. CASE Crash
    BY <2>2 DEF Crash
  <2> QED
    BY <2>1, <2>2
<1>4. policies' \in Document /\ Sound(policies')
  BY EmptyIs, Parts DEF Terminated, Crash, Inv
<1>5. spent' \in [BoundNames -> Nat]
  <2>1. spent' = spent \/ Spend("mishap")
    BY DEF Terminated, Crash
  <2>2. "mishap" \in BoundNames
    BY DEF BoundNames
  <2> QED
    BY <2>1, <2>2, SpendType, Parts DEF Inv
<1>6. TypeInv'
  BY <1>1, <1>2, <1>3, <1>4, <1>5, TypesKept, Parts DEF Inv
<1>7. CommitInv'
  BY <1>2, <1>3 DEF CommitInv
<1>8. ASSUME NEW k \in Present(policies)' PROVE KeyInv(k)'
  <2>1. k \in Key /\ mono' \in Nat
    BY <1>2, Parts DEF Present, Inv
  <2> QED
    BY <1>1, <2>1, FreshKeeps
<1>9. ClearedInv'
  BY <1>2, <1>3 DEF Inv, ClearedInv
<1> QED
  BY <1>6, <1>7, <1>8, <1>9 DEF Inv
----------------------------------------------------------------------------
(* The invariant holds at the start.                                        *)
LEMMA InitHolds == Init => Inv
<1> SUFFICES ASSUME Init PROVE Inv
  OBVIOUS
<1>1. policies = Empty /\ Empty \in Document /\ Sound(Empty) /\ Present(policies) = {}
  BY EmptyIs DEF Init, Present
<1>2. MaxTime \in Nat /\ cleared = {} /\ commit = NoCommit
  BY AttentionAssumption DEF Init
<1>3. TypeInv
  <2>1. mono = 0 /\ wall = 0 /\ 0 \in 0 .. MaxTime /\ primary = NoDocument /\ backup = NoDocument
    BY <1>2 DEF Init
  <2>2. guard \in [Key -> GuardSlot \cup {NoSlot}] /\ spent \in [BoundNames -> Nat]
    BY DEF Init
  <2>3. log \in [Key -> Seq([at: Nat, wall: Nat,
                              verdict: {"passed", "triggered", "ignored", "lapsed"}])]
    BY DEF Init
  <2>4. svc \in [phase: {"off", "booting", "active", "inert", "stopping", "stopped"},
                 ready: BOOLEAN]
    BY DEF Init
  <2> QED
    BY <1>1, <1>2, <2>1, <2>2, <2>3, <2>4 DEF TypeInv, TypeOK
<1>4. CommitInv
  BY <1>2 DEF CommitInv, Init
<1> QED
  BY <1>1, <1>2, <1>3, <1>4 DEF Inv, ClearedInv

(* Every step keeps the invariant.                                          *)
LEMMA NextHolds == Inv /\ [Next]_vars => Inv'
<1> SUFFICES ASSUME Inv, [Next]_vars PROVE Inv'
  OBVIOUS
<1>1. CASE Tick \/ SetBack \/ Terminate
  BY <1>1, QuietKeeps
<1>2. CASE \E k \in Key : Message(k)
  BY <1>2, MessageKeeps
<1>3. CASE \E s \in Scope, targets \in Batches : Clear(s, targets)
  BY <1>3, ClearKeeps
<1>4. CASE \E s \in Scope, targets \in Batches : \E setting \in Settings : Set(s, targets, setting)
  BY <1>4, SetKeeps
<1>5. CASE PutBackup
  BY <1>5, PutBackupKeeps
<1>6. CASE PutPrimary
  BY <1>6, PutPrimaryKeeps
<1>7. CASE Initialize
  BY <1>7, InitializeKeeps
<1>8. CASE Terminated \/ Crash
  BY <1>8, EndKeeps
<1>9. CASE UNCHANGED vars
  <2>1. /\ UNCHANGED <<mono, wall, policies, guard, svc, commit, primary, backup>>
        /\ UNCHANGED <<spent, log, cleared>>
    BY <1>9 DEF vars
  <2>2. mono \in Nat /\ mono >= mono /\ wall \in Nat /\ wall - wall <= mono - mono
    BY Parts DEF Inv
  <2>3. TypeInv'
    BY <2>1, TypesKept, Parts DEF Inv
  <2>4. CommitInv' /\ ClearedInv'
    BY <2>1 DEF Inv, CommitInv, ClearedInv
  <2>5. ASSUME NEW k \in Present(policies)' PROVE KeyInv(k)'
    <3>1. k \in Key /\ policies[k] # NoPolicy /\ k \in Present(policies)
      BY <2>1 DEF Present
    <3> QED
      BY <2>1, <2>2, <3>1, KeptKeeps DEF Inv
  <2> QED
    BY <2>3, <2>4, <2>5 DEF Inv
<1> QED
  BY <1>1, <1>2, <1>3, <1>4, <1>5, <1>6, <1>7, <1>8, <1>9 DEF Next

(* The invariant holds in every reachable state.                            *)
LEMMA InvHolds == Spec => []Inv
BY InitHolds, NextHolds, PTL DEF Spec

(* Every variable has its type, the policies live after they were created.  *)
THEOREM AttentionTypes == Spec => []TypeOK
<1>1. Inv => TypeOK
  BY DEF Inv, TypeInv
<1> QED
  BY <1>1, InvHolds, PTL

(* The flood is cut.  Between two loads, under one policy, fewer than count *)
(* messages pass in a window since the last block began or the policy was   *)
(* last seen expired, none passes before the end of a block, and after such *)
(* a lapse the policy judges only at earlier instants of the wall clock:    *)
(* for any policies, clocks that are set back, mutations and failed puts.   *)
THEOREM FloodCut == Spec => []FloodIsCut
<1>1. Inv => FloodIsCut
  BY DEF Inv, KeyInv, Judgement, FloodIsCut
<1> QED
  BY <1>1, InvHolds, PTL

(* Nobody is ignored without cause: a message triggers only as the count-th *)
(* of its window since the policy was last seen expired, and is ignored     *)
(* only within the ignore duration of such a trigger.                       *)
THEOREM IgnoreCaused == Spec => []IgnoreHasCause
<1>1. Inv => IgnoreHasCause
  BY DEF Inv, KeyInv, Judgement, IgnoreHasCause
<1> QED
  BY <1>1, InvHolds, PTL

(* A cleared policy stays cleared until it is set again, or a boot has to   *)
(* fall back to the backup slot.                                            *)
THEOREM ClearFinal == Spec => []ClearIsFinal
<1>1. Inv => ClearIsFinal
  BY DEF Inv, ClearedInv, ClearIsFinal, Present
<1> QED
  BY <1>1, InvHolds, PTL
=============================================================================

----------------------- MODULE PriorityMatchingProofs -----------------------
(* The order of matching, proved for any number of tasks, any aging step   *)
(* and any ages.                                                           *)
EXTENDS PriorityMatching, FiniteSetTheorems, TLAPS

USE TasksAssumption, AgingAssumption, RetryAssumption, SubmissionAssumption

----------------------------------------------------------------------------
(* Ages.                                                                   *)

Ages == [Tasks -> Nat]

(* The tasks that are older than three aging steps, and not older than t.  *)
OldUpTo(a, t) == {u \in Tasks : 3 * Aging < a[u] /\ a[u] <= a[t]}

(* A rank is a number, it is positive for a task older than three steps,   *)
(* and it grows with the age.                                              *)
LEMMA Ranks ==
    ASSUME NEW a \in Ages, NEW t \in Tasks, NEW u \in Tasks
    PROVE  /\ Cardinality(OldUpTo(a, t)) \in Nat
           /\ 3 * Aging < a[t] => Cardinality(OldUpTo(a, t)) > 0
           /\ a[t] = a[u] =>
                Cardinality(OldUpTo(a, t)) = Cardinality(OldUpTo(a, u))
           /\ 3 * Aging < a[u] /\ a[t] < a[u] =>
                Cardinality(OldUpTo(a, t)) < Cardinality(OldUpTo(a, u))
<1>1. /\ OldUpTo(a, t) \in SUBSET Tasks /\ OldUpTo(a, u) \in SUBSET Tasks
      /\ IsFiniteSet(OldUpTo(a, t)) /\ IsFiniteSet(OldUpTo(a, u))
  BY FS_Subset DEF OldUpTo
<1>2. /\ Cardinality(OldUpTo(a, t)) \in Nat
      /\ Cardinality(OldUpTo(a, u)) \in Nat
  BY <1>1, FS_CardinalityType
<1>3. ASSUME 3 * Aging < a[t] PROVE Cardinality(OldUpTo(a, t)) > 0
  <2>1. t \in OldUpTo(a, t)
    BY <1>3 DEF OldUpTo, Ages
  <2> QED
    BY <1>1, <1>2, <2>1, FS_EmptySet
<1>4. ASSUME a[t] = a[u] PROVE OldUpTo(a, t) = OldUpTo(a, u)
  BY <1>4 DEF OldUpTo
<1>5. ASSUME 3 * Aging < a[u], a[t] < a[u]
      PROVE  Cardinality(OldUpTo(a, t)) < Cardinality(OldUpTo(a, u))
  <2>1. \A x \in Tasks : a[x] \in Nat
    BY DEF Ages
  <2>2. OldUpTo(a, t) \in SUBSET OldUpTo(a, u)
    <3>1. \A x \in Tasks : a[x] <= a[t] => a[x] <= a[u]
      BY <1>5, <2>1
    <3> QED
      BY <3>1, Zenon DEF OldUpTo
  <2>3. u \in OldUpTo(a, u)
    BY <1>5, <2>1 DEF OldUpTo
  <2>4. u \notin OldUpTo(a, t)
    BY <1>5, <2>1 DEF OldUpTo
  <2> QED
    BY <1>1, <1>2, <2>2, <2>3, <2>4, FS_Subset
<1> QED
  BY <1>2, <1>3, <1>4, <1>5

(* Compressed ages are ages, and compress no further.                      *)
LEMMA CompressType ==
    ASSUME NEW a \in Ages
    PROVE  Compress(a) \in Ages
<1>1. \A t \in Tasks : Cardinality(OldUpTo(a, t)) \in Nat
  BY Ranks
<1> QED
  BY <1>1 DEF Compress, OldUpTo, Ages

(* The matching sees no difference between ages and compressed ages: they  *)
(* are in the same order, and count the same for every priority.  This is  *)
(* what allows PriorityMatching to keep compressed ages only.              *)
THEOREM CompressionIsExact ==
    ASSUME NEW a \in Ages, NEW t \in Tasks, NEW u \in Tasks
    PROVE  /\ Compress(a)[t] < Compress(a)[u] <=> a[t] < a[u]
           /\ \A p \in TaskPriority :
                effective_priority(p, Compress(a)[t])
                    = effective_priority(p, a[t])
<1> DEFINE c == Compress(a)
           N(x) == Cardinality(OldUpTo(a, x))
<1>1. \A x \in Tasks :
        /\ a[x] \in Nat /\ N(x) \in Nat
        /\ c[x] = IF a[x] <= 3 * Aging THEN a[x] ELSE 3 * Aging + N(x)
        /\ 3 * Aging < a[x] => N(x) > 0
  BY Ranks DEF Compress, OldUpTo, Ages
<1>2. /\ a[t] = a[u] => N(t) = N(u)
      /\ 3 * Aging < a[u] /\ a[t] < a[u] => N(t) < N(u)
      /\ 3 * Aging < a[t] /\ a[u] < a[t] => N(u) < N(t)
  BY Ranks
<1>3. c[t] < c[u] <=> a[t] < a[u]
  <2> HIDE DEF N, c
  <2> QED
    BY <1>1, <1>2
<1>4. ASSUME NEW p \in TaskPriority
      PROVE  effective_priority(p, c[t]) = effective_priority(p, a[t])
  <2>1. CASE Aging = 0
    BY <2>1 DEF effective_priority
  <2>2. CASE a[t] <= 3 * Aging
    BY <1>1, <2>2
  <2>3. CASE Aging > 0 /\ a[t] > 3 * Aging
    <3> HIDE DEF N, c
    <3>1. c[t] \in Nat /\ c[t] > 3 * Aging
      BY <1>1, <2>3
    <3>2. ASSUME NEW n \in Nat, n > 3 * Aging PROVE n \div Aging >= 3
      BY <2>3, <3>2, Z3
    <3>3. Lesser(c[t] \div Aging, 3) = 3 /\ Lesser(a[t] \div Aging, 3) = 3
      BY <1>1, <2>3, <3>1, <3>2 DEF Lesser
    <3> QED
      BY <3>3 DEF effective_priority
  <2> QED
    BY <1>1, <2>1, <2>2, <2>3
<1> QED
  BY <1>3, <1>4

(* A priority never ages past Urgent, and reaches it after three steps.    *)
LEMMA EffectivePriority ==
    ASSUME NEW p \in TaskPriority, NEW w \in Nat
    PROVE  /\ effective_priority(p, w) \in TaskPriority
           /\ Aging > 0 /\ w >= 3 * Aging => effective_priority(p, w) = Urgent
<1>1. CASE Aging = 0
  BY <1>1 DEF effective_priority
<1>2. CASE Aging > 0
  <2>1. w \div Aging \in Nat
    BY <1>2, Z3
  <2>2. w >= 3 * Aging => w \div Aging >= 3
    BY <1>2, Z3
  <2> QED
    BY <1>2, <2>1, <2>2 DEF effective_priority, Lesser, TaskPriority, Urgent
<1> QED
  BY <1>1, <1>2

----------------------------------------------------------------------------
(* The order.                                                              *)

(* Every variable keeps its type.                                          *)
LEMMA TypeStep == TypeOK /\ [Next]_vars => TypeOK'
<1> SUFFICES ASSUME TypeOK, [Next]_vars PROVE TypeOK'
  OBVIOUS
<1> USE DEF TypeOK
<1>1. CASE Advance
  <2>1. [t \in Tasks |-> IF place[t] = "unused" THEN 0 ELSE age[t] + 1] \in Ages
    BY DEF Ages
  <2> QED
    BY <1>1, <2>1, CompressType DEF Advance, Ages
<1>2. ASSUME NEW n \in 1..Candidates, StartRound(n) PROVE TypeOK'
  BY <1>2 DEF StartRound, Pending, task
<1>3. ASSUME NEW t \in Tasks, Requeue(t) PROVE TypeOK'
  BY <1>3 DEF Requeue
<1>4. ASSUME NEW t \in Tasks, Finish(t) PROVE TypeOK'
  BY <1>4 DEF Finish, Clear, TaskPriority, Urgent
<1>5. ASSUME NEW t \in Tasks, Visit(t) PROVE TypeOK'
  <2>1. CASE Assign(t)
    <3>1. free' \in 0..Candidates
      BY <2>1 DEF Assign
    <3>2. todo' \subseteq Tasks
      BY <2>1 DEF Assign
    <3> QED
      BY <2>1, <3>1, <3>2 DEF Assign
  <2>2. CASE Defer(t) \/ RollBack(t)
    BY <2>2 DEF Defer, RollBack, task
  <2>3. CASE Refuse(t)
    BY <2>3 DEF Refuse, task
  <2>4. CASE Drop(t)
    BY <2>4 DEF Drop, Clear, TaskPriority, Urgent
  <2> QED
    BY <1>5, <2>1, <2>2, <2>3, <2>4 DEF Visit
<1>6. ASSUME NEW t \in Tasks, NEW p \in Priorities, NEW d \in Delays,
             Submit(t, p, d)
      PROVE  TypeOK'
  <2>1. p \in TaskPriority /\ d \in Nat
    OBVIOUS
  <2> QED
    BY <1>6, <2>1 DEF Submit
<1>7. CASE UNCHANGED vars
  BY <1>7 DEF vars, task
<1> QED
  BY <1>1, <1>2, <1>3, <1>4, <1>5, <1>6, <1>7 DEF Next

(* Ages are numbers however often they are compressed, and no retry count  *)
(* passes the limit.                                                       *)
THEOREM Typing == Spec => []TypeOK
<1>1. Init => TypeOK
  BY DEF Init, TypeOK, TaskPriority, Urgent
<1> QED
  BY <1>1, TypeStep, PTL DEF Spec

(* Only an assignment takes a task out of the pending table to a robot.    *)
LEMMA HandOut ==
    ASSUME TypeOK, [Next]_vars, NEW u \in Tasks, place[u] # "out",
           place'[u] = "out"
    PROVE  Assign(u)
<1> USE DEF TypeOK
<1>1. CASE Advance
  BY <1>1 DEF Advance
<1>2. ASSUME NEW n \in 1..Candidates, StartRound(n) PROVE FALSE
  BY <1>2 DEF StartRound, task
<1>3. ASSUME NEW t \in Tasks, Requeue(t) \/ Finish(t) PROVE FALSE
  BY <1>3 DEF Requeue, Finish, Clear
<1>4. ASSUME NEW t \in Tasks, Visit(t) PROVE Assign(u)
  BY <1>4 DEF Visit, Assign, Defer, Refuse, Drop, RollBack, Clear, task
<1>5. ASSUME NEW t \in Tasks, NEW p \in Priorities, NEW d \in Delays,
             Submit(t, p, d)
      PROVE  FALSE
  BY <1>5 DEF Submit
<1>6. CASE UNCHANGED vars
  BY <1>6 DEF vars, task
<1> QED
  BY <1>1, <1>2, <1>3, <1>4, <1>5, <1>6 DEF Next

(* A task that has waited for three aging steps has a greater key than any *)
(* one created after it.                                                   *)
LEMMA AgedIsGreater ==
    ASSUME TypeOK, Aging > 0, NEW t \in Tasks, NEW u \in Tasks,
           age[t] >= 3 * Aging, age[u] < age[t]
    PROVE  Greater(t, u)
<1>1. /\ priority[t] \in TaskPriority /\ priority[u] \in TaskPriority
      /\ age[t] \in Nat /\ age[u] \in Nat
  BY DEF TypeOK
<1>2. Level(t) = Urgent /\ Level(u) \in TaskPriority
  BY <1>1, EffectivePriority DEF Level
<1> QED
  BY <1>1, <1>2 DEF Greater, TaskPriority, Urgent

(* An aged task is never overtaken by a younger one, however urgent.       *)
THEOREM FirstComeFirstServedWhenAged == Spec => AgedNotOvertaken
<1> DEFINE Kept ==
        \A t, u \in Tasks :
          (/\ Aging > 0
           /\ t \in todo /\ age[t] >= 3 * Aging
           /\ age[u] < age[t]
           /\ place[u] = "pending")
          => place'[u] # "out"
<1>1. Init => TypeOK
  BY DEF Init, TypeOK, TaskPriority, Urgent
<1>2. TypeOK /\ [Next]_vars => [Kept]_vars
  <2> SUFFICES ASSUME TypeOK, [Next]_vars, NEW t \in Tasks, NEW u \in Tasks,
                      Aging > 0, t \in todo, age[t] >= 3 * Aging,
                      age[u] < age[t], place[u] = "pending",
                      place'[u] = "out"
               PROVE  FALSE
    OBVIOUS
  <2>1. Assign(u)
    BY HandOut
  <2>2. ~Greater(t, u)
    BY <2>1 DEF Assign, IsNext
  <2> QED
    BY <2>2, AgedIsGreater
<1> QED
  BY <1>1, <1>2, TypeStep, PTL DEF Spec, AgedNotOvertaken
=============================================================================

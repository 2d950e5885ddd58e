-------------------------- MODULE PriorityMatching --------------------------
(***************************************************************************)
(* The order in which a matching round hands out the pending tasks         *)
(* (run_matching in src/src/engine/scheduler.rs, with the priorities and   *)
(* sort keys of src/src/domain/task.rs).  Module Scheduler says what a     *)
(* round does to the store and leaves the order open; here the store is    *)
(* reduced to where a task is, and the order is exact.                     *)
(*                                                                         *)
(* A member of Tasks is a place for a task.  Once its task is over it can  *)
(* take another one, so that the stream of submissions never ends.         *)
(*                                                                         *)
(* created_at is kept as an age, now - created_at.  The code uses an age   *)
(* in two ways: effective_priority counts the aging steps in it, up to     *)
(* three, and the sort compares it with other ages.  Past three steps only *)
(* the comparison is left, and Compress keeps no more than that, so the    *)
(* ages stay bounded although tasks wait for ever longer.                  *)
(***************************************************************************)
EXTENDS Naturals, FiniteSets

CONSTANTS
    Tasks,       \* TaskId
    Aging,       \* config.priority_aging_ms, in units of time; 0: no aging
    MaxRetries,  \* config.max_task_retries
    Candidates,  \* most candidates that a round can have
    Priorities,  \* priorities that tasks are submitted with
    Delays       \* ages that tasks can have when the scheduler takes them up

Urgent == 3
TaskPriority == 0..Urgent  \* Low, Normal, High, Urgent

ASSUME TasksAssumption == IsFiniteSet(Tasks) /\ Tasks \subseteq Nat
ASSUME AgingAssumption == Aging \in Nat /\ Candidates \in Nat \ {0}
ASSUME RetryAssumption == MaxRetries \in Nat
ASSUME SubmissionAssumption ==
    Priorities \subseteq TaskPriority /\ Delays \subseteq 0 .. 3 * Aging

VARIABLES
    place,     \* "unused", in the scheduler's "pending" table, or "out"
    priority,  \* Task.priority
    age,       \* now - Task.created_at, compressed
    retries,   \* Task.retry_count
    free,      \* candidates left to the round
    todo       \* sorted keys that the round has yet to visit

task == <<place, priority, age, retries>>
vars == <<task, free, todo>>

TypeOK ==
    /\ place \in [Tasks -> {"unused", "pending", "out"}]
    /\ priority \in [Tasks -> TaskPriority]
    /\ age \in [Tasks -> Nat]
    /\ retries \in [Tasks -> 0..MaxRetries]
    /\ free \in 0..Candidates
    /\ todo \subseteq Tasks

Init ==
    /\ place = [t \in Tasks |-> "unused"]
    /\ priority = [t \in Tasks |-> 0]
    /\ age = [t \in Tasks |-> 0]
    /\ retries = [t \in Tasks |-> 0]
    /\ free = 0
    /\ todo = {}

----------------------------------------------------------------------------
(* Ages and keys.                                                          *)

\* Ages up to three aging steps as they are, older ones by their rank.
Compress(a) ==
    [t \in Tasks |->
        IF a[t] <= 3 * Aging THEN a[t]
        ELSE 3 * Aging
              + Cardinality({u \in Tasks : 3 * Aging < a[u] /\ a[u] <= a[t]})]

Lesser(m, n) == IF m < n THEN m ELSE n

MutantNoAging(p, waited) == p

\* At most three bumps, each one level up and none past Urgent.  (The count of
\* steps is cut to 32 bits first; an age never gets near 2^32 steps.)
effective_priority(p, waited) ==
    IF Aging = 0 THEN p
    ELSE Lesser(p + Lesser(waited \div Aging, 3), Urgent)

Level(t) == effective_priority(priority[t], age[t])

MutantYoungestFirst(t, u) ==
    \/ Level(t) > Level(u)
    \/ Level(t) = Level(u) /\ age[t] < age[u]

\* TaskKey::cmp: t's key is greater than u's.  The id in the key is not used.
Greater(t, u) ==
    \/ Level(t) > Level(u)
    \/ Level(t) = Level(u) /\ age[t] > age[u]

\* t can be the next of the sorted keys.  Equal keys come in the order in which
\* the hash table lists them, which is any.
IsNext(t) == t \in todo /\ \A u \in todo : ~Greater(u, t)

----------------------------------------------------------------------------
(* Between rounds.                                                         *)

\* The task in t is over; the place is as good as new.
Clear(t) ==
    /\ place' = [place EXCEPT ![t] = "unused"]
    /\ priority' = [priority EXCEPT ![t] = 0]
    /\ age' = [age EXCEPT ![t] = 0]
    /\ retries' = [retries EXCEPT ![t] = 0]

\* A task is taken up d after its creation: it waited in the event channel.
Submit(t, p, d) ==
    /\ todo = {}
    /\ place[t] = "unused"
    /\ place' = [place EXCEPT ![t] = "pending"]
    /\ priority' = [priority EXCEPT ![t] = p]
    /\ age' = [age EXCEPT ![t] = d]
    /\ UNCHANGED <<retries, free, todo>>

MutantRequeueOneMore(t) ==
    /\ todo = {}
    /\ place[t] = "out" /\ retries[t] <= MaxRetries
    /\ place' = [place EXCEPT ![t] = "pending"]
    /\ retries' = [retries EXCEPT ![t] = @ + 1]
    /\ UNCHANGED <<priority, age, free, todo>>

\* A reclaimed task keeps its creation time, and with it its age.
Requeue(t) ==
    /\ todo = {}
    /\ place[t] = "out" /\ retries[t] < MaxRetries
    /\ place' = [place EXCEPT ![t] = "pending"]
    /\ retries' = [retries EXCEPT ![t] = @ + 1]
    /\ UNCHANGED <<priority, age, free, todo>>

\* Completed, or given up by the reclaim when the retries are used up.
Finish(t) ==
    /\ todo = {}
    /\ place[t] = "out"
    /\ Clear(t)
    /\ UNCHANGED <<free, todo>>

\* A tick reads the clock once, so the keys of a round are of one moment.
Advance ==
    /\ todo = {}
    /\ age' = Compress([t \in Tasks |->
                            IF place[t] = "unused" THEN 0 ELSE age[t] + 1])
    /\ UNCHANGED <<place, priority, retries, free, todo>>

----------------------------------------------------------------------------
(* A round.                                                                *)

Pending == {t \in Tasks : place[t] = "pending"}

StartRound(n) ==
    /\ todo = {}
    /\ Pending # {}
    /\ todo' = Pending
    /\ free' = n
    /\ UNCHANGED task

\* Assigned and sent.  The last candidate to go ends the round.
Assign(t) ==
    /\ IsNext(t) /\ free > 0
    /\ place' = [place EXCEPT ![t] = "out"]
    /\ free' = free - 1
    /\ todo' = IF free' = 0 THEN {} ELSE todo \ {t}
    /\ UNCHANGED <<priority, age, retries>>

\* No candidate is near, or the nearest has no route.
Defer(t) ==
    /\ IsNext(t)
    /\ todo' = todo \ {t}
    /\ UNCHANGED <<task, free>>

\* The nearest candidate turned out not to be Idle any more.
Refuse(t) ==
    /\ IsNext(t) /\ free > 0
    /\ free' = free - 1
    /\ todo' = todo \ {t}
    /\ UNCHANGED task

\* The goal is no node of the map.
Drop(t) ==
    /\ IsNext(t)
    /\ Clear(t)
    /\ todo' = todo \ {t}
    /\ UNCHANGED free

\* The dispatch channel is full: the assignment is undone, the round over.
RollBack(t) ==
    /\ IsNext(t) /\ free > 0
    /\ todo' = {}
    /\ UNCHANGED <<task, free>>

Visit(t) == Assign(t) \/ Defer(t) \/ Refuse(t) \/ Drop(t) \/ RollBack(t)

----------------------------------------------------------------------------

Next ==
    \/ Advance
    \/ \E n \in 1..Candidates : StartRound(n)
    \/ \E t \in Tasks : Requeue(t) \/ Finish(t) \/ Visit(t)
    \/ \E t \in Tasks, p \in Priorities, d \in Delays : Submit(t, p, d)

Spec == Init /\ [][Next]_vars

\* Time passes, ticks come and find a candidate again and again, a round runs
\* to its end, and a task whose turn has come again and again is not put off
\* for ever: at last the candidate is there, has a route, and the dispatch
\* channel has room.
Fairness ==
    /\ SF_vars(Advance)
    /\ SF_vars(\E n \in 1..Candidates : StartRound(n))
    /\ WF_vars(\E t \in Tasks : Visit(t))
    /\ \A t \in Tasks : SF_vars(Assign(t))

FairSpec == Spec /\ Fairness

----------------------------------------------------------------------------
(* What aging is for.                                                      *)

(* A task that has waited for three aging steps is never overtaken by one  *)
(* created after it, whatever the priority of the other: the other is not  *)
(* handed out in a round that has yet to come to the aged one.             *)
AgedNotOvertaken ==
    [][\A t, u \in Tasks :
          (/\ Aging > 0
           /\ t \in todo /\ age[t] >= 3 * Aging
           /\ age[u] < age[t]
           /\ place[u] = "pending")
          => place'[u] # "out"
      ]_vars

(* No pending task starves, although urgent ones keep coming and each tick *)
(* may have one candidate only (README.md: aging prevents starvation).     *)
NoStarvation ==
    \A t \in Tasks : place[t] = "pending" ~> place[t] # "pending"

(* scheduler.rs:216: the order is by priority, then by creation, and "then *)
(* stable by id".  So of two tasks with equal keys the one with the        *)
(* smaller id is not passed over for the other.                            *)
TiesGoToSmallerId ==
    [][\A t, u \in Tasks :
          (/\ t < u /\ t \in todo /\ place[u] = "pending"
           /\ Level(t) = Level(u) /\ age[t] = age[u])
          => place'[u] # "out"
      ]_vars
=============================================================================

----------------------------- MODULE Scheduler -----------------------------
(***************************************************************************)
(* The dispatch core: the scheduler task (src/src/engine/scheduler.rs), the *)
(* two bounded channels at its ends, and around it whatever else acts on   *)
(* the store while a tick is under way.                                    *)
(*                                                                         *)
(* The scheduler is one task that serves an event or runs a tick; a tick   *)
(* is the sequence reclaim, evict, match (assign, send), parole that pc    *)
(* walks through, one store section at a time.  Heartbeats and             *)
(* registrations come from the connection handlers and interleave with     *)
(* every step.  The fleet is seen through what reaches the server: `work`  *)
(* holds the assignments that robots have received and not finished, and   *)
(* any of them can be lost with a connection.  A robot that is given the   *)
(* same task a second time drives it twice.                                *)
(*                                                                         *)
(* Positions are abstracted.  Which free robot is the nearest, and which   *)
(* waiting robots form cycles, depends on where the fleet happens to be:   *)
(* both are choices here.  So is the order in which a tick visits the      *)
(* pending tasks, which module PriorityMatching makes precise.             *)
(***************************************************************************)
EXTENDS MemoryStore, Sequences

CONSTANTS
    EventCapacity,     \* config.event_channel_capacity, events
    DispatchCapacity,  \* config.event_channel_capacity, dispatches
    Cooldown,          \* config.deadlock_cooldown_ms, in units of time
    EnableDeadlockResolution,  \* config.enable_deadlock_resolution
    Reports,           \* the heartbeats that robots send
    MaxCopies,         \* bound of the model on the copies of one assignment
                       \* that a robot has to drive
    BadGoals,          \* tasks whose goal is no node of the map
    RouteMayFail       \* <<r, t>> such that r may stand where t has no route

ASSUME CapacityAssumption ==
    EventCapacity \in Nat \ {0} /\ DispatchCapacity \in Nat \ {0}
ASSUME CooldownAssumption == Cooldown \in Nat
ASSUME CopiesAssumption == MaxCopies \in Nat \ {0}
ASSUME ResolutionAssumption == EnableDeadlockResolution \in BOOLEAN
ASSUME ReportsAssumption == Reports \subseteq Heartbeat
ASSUME GoalsAssumption ==
    BadGoals \subseteq Tasks /\ RouteMayFail \subseteq Robots \X Tasks

VARIABLES
    pc,          \* where the scheduler task is
    pending,     \* keys of its `pending` table
    cooldown,    \* time left of its `cooldown` entry, 0 if it has none
    stale,       \* tasks the reclaim scan collected and has yet to process
    evicting,    \* robots the eviction scan collected and has yet to process
    free,        \* candidates of the matching round
    todo,        \* tasks the matching round has yet to visit
    offer,       \* the assignment being sent, <<NoRobot, NoTask>> if none
    cycles,      \* deadlock cycles of the report that await their victim
    robot_task,  \* the bindings in the snapshot the report was made from
    events,      \* SchedulerEvent channel
    dispatch,    \* Dispatch channel
    work         \* how many times each assignment has been received by its
                 \* robot and not finished

scratch == <<stale, evicting, free, todo, offer, cycles, robot_task>>
channels == <<events, dispatch, work>>
vars == <<storeVars, pc, pending, cooldown, scratch, channels>>

NoOffer == <<NoRobot, NoTask>>
NoBindings == [r \in Robots |-> NoTask]

TaskSubmitted(t) == [type |-> "TaskSubmitted", robot |-> NoRobot, task |-> t]
TaskCompleted(r, t) == [type |-> "TaskCompleted", robot |-> r, task |-> t]
Shutdown == [type |-> "Shutdown", robot |-> NoRobot, task |-> NoTask]

SchedulerEvent ==
    {TaskSubmitted(t) : t \in Tasks}
        \cup {TaskCompleted(r, t) : r \in Robots, t \in Tasks}
        \cup {Shutdown}

TypeOK ==
    /\ StoreTypeOK
    /\ pc \in {"select", "reclaim", "evict", "match", "send", "parole", "stopped"}
    /\ pending \subseteq Tasks
    /\ cooldown \in [Robots -> 0..Cooldown]
    /\ stale \subseteq Tasks
    /\ evicting \subseteq Robots
    /\ free \subseteq Robots
    /\ todo \subseteq Tasks
    /\ offer \in (Robots \X Tasks) \cup {NoOffer}
    /\ cycles \subseteq SUBSET Robots
    /\ robot_task \in [Robots -> Tasks \cup {NoTask}]
    /\ events \in Seq(SchedulerEvent)
    /\ dispatch \in Seq(Robots \X Tasks)
    /\ work \in [Robots \X Tasks -> 0..MaxCopies]

Init ==
    /\ StoreInit
    /\ pc = "select"
    /\ pending = {}
    /\ cooldown = [r \in Robots |-> 0]
    /\ stale = {} /\ evicting = {} /\ free = {} /\ todo = {}
    /\ offer = NoOffer
    /\ cycles = {}
    /\ robot_task = NoBindings
    /\ events = <<>> /\ dispatch = <<>>
    /\ work = [d \in Robots \X Tasks |-> 0]

----------------------------------------------------------------------------
(* SchedulerHandle: the blocking send waits for room, and finds the channel *)
(* disconnected once the scheduler has stopped.                            *)

Send(e) ==
    /\ pc # "stopped"
    /\ Len(events) < EventCapacity
    /\ events' = Append(events, e)

\* Ids are drawn from one counter, so a task is submitted once.
SubmitTask(t) ==
    /\ task_status[t] = "Absent"
    /\ \A i \in 1..Len(events) : events[i] # TaskSubmitted(t)
    /\ Send(TaskSubmitted(t))
    /\ UNCHANGED <<storeVars, pc, pending, cooldown, scratch, dispatch, work>>

ReportComplete(r, t) ==
    /\ work[<<r, t>>] > 0
    /\ Send(TaskCompleted(r, t))
    /\ work' = [work EXCEPT ![<<r, t>>] = @ - 1]
    /\ UNCHANGED <<storeVars, pc, pending, cooldown, scratch, dispatch>>

RequestShutdown ==
    /\ \A i \in 1..Len(events) : events[i] # Shutdown
    /\ Send(Shutdown)
    /\ UNCHANGED <<storeVars, pc, pending, cooldown, scratch, dispatch, work>>

----------------------------------------------------------------------------
(* What the connection handlers, the dispatch pump and the fleet do.       *)

\* The first frame of a connection, the robot's first or a later one.
Register(r, low) ==
    /\ register_robot(r, low)
    /\ UNCHANGED <<pc, pending, cooldown, scratch, channels>>

HeartbeatArrives(r, hb) ==
    /\ apply_heartbeat(r, hb)
    /\ UNCHANGED <<pc, pending, cooldown, scratch, channels>>

\* dispatch_pump hands the assignment to the robot's connection.
Deliver ==
    /\ dispatch # <<>> /\ work[Head(dispatch)] < MaxCopies
    /\ work' = [work EXCEPT ![Head(dispatch)] = @ + 1]
    /\ dispatch' = Tail(dispatch)
    /\ UNCHANGED <<storeVars, pc, pending, cooldown, scratch, events>>

\* The robot has no connection, or the connection dies with the frame in it.
DeliveryLost ==
    /\ dispatch # <<>>
    /\ dispatch' = Tail(dispatch)
    /\ UNCHANGED <<storeVars, pc, pending, cooldown, scratch, events, work>>

\* The connection dies and the robot, or its report, with it.
WorkLost(r, t) ==
    /\ work[<<r, t>>] > 0
    /\ work' = [work EXCEPT ![<<r, t>>] = @ - 1]
    /\ UNCHANGED <<storeVars, pc, pending, cooldown, scratch, events, dispatch>>

\* Ticks are far shorter than a unit of time and read the clock once, so time
\* passes between them.
Advance ==
    /\ pc \in {"select", "stopped"}
    /\ advance
    /\ cooldown' = [r \in Robots |->
                        IF cooldown[r] > 0 THEN cooldown[r] - 1 ELSE 0]
    /\ UNCHANGED <<pc, pending, scratch, channels>>

----------------------------------------------------------------------------
(* The select! loop of Scheduler::run: events.                             *)

HandleSubmitted(t) ==
    /\ pc = "select"
    /\ events # <<>> /\ Head(events) = TaskSubmitted(t)
    /\ events' = Tail(events)
    /\ submit_task(t)
    /\ pending' = pending \cup {t}
    /\ UNCHANGED <<pc, cooldown, scratch, dispatch, work>>

HandleCompleted(r, t) ==
    /\ pc = "select"
    /\ events # <<>> /\ Head(events) = TaskCompleted(r, t)
    /\ events' = Tail(events)
    /\ complete_task(r, t)
    /\ UNCHANGED <<pc, pending, cooldown, scratch, dispatch, work>>

\* What is still queued behind the request is dropped with the receiver.
HandleShutdown ==
    /\ pc = "select"
    /\ events # <<>> /\ Head(events) = Shutdown
    /\ events' = <<>>
    /\ pc' = "stopped"
    /\ UNCHANGED <<storeVars, pending, cooldown, scratch, dispatch, work>>

----------------------------------------------------------------------------
(* The tick.                                                               *)

\* The ticker fires and the reclaim scan runs.  Expired cooldown entries are
\* those with no time left, so dropping them changes nothing here.
Tick ==
    /\ pc = "select"
    /\ pc' = "reclaim"
    /\ stale' = {t \in Tasks : Reclaimable(t)}
    /\ UNCHANGED <<storeVars, pending, cooldown, evicting, free, todo, offer,
                   cycles, robot_task, channels>>

MutantReclaimDrops(t) ==
    /\ pc = "reclaim"
    /\ t \in stale
    /\ stale' = stale \ {t}
    /\ reclaim(t)
    /\ UNCHANGED <<pc, pending, cooldown, evicting, free, todo, offer, cycles,
                   robot_task, channels>>

MutantReclaimRequeuesAll(t) ==
    /\ pc = "reclaim"
    /\ t \in stale
    /\ stale' = stale \ {t}
    /\ reclaim(t)
    /\ pending' = pending \cup {t}
    /\ UNCHANGED <<pc, cooldown, evicting, free, todo, offer, cycles,
                   robot_task, channels>>

\* A requeued task goes back to the table; the failed ones are only logged.
ReclaimTask(t) ==
    /\ pc = "reclaim"
    /\ t \in stale
    /\ stale' = stale \ {t}
    /\ reclaim(t)
    /\ pending' = IF exhausted(t) THEN pending ELSE pending \cup {t}
    /\ UNCHANGED <<pc, cooldown, evicting, free, todo, offer, cycles,
                   robot_task, channels>>

\* run_matching begins with the scan of evict_stale_robots.
ScanForEviction ==
    /\ pc = "reclaim" /\ stale = {}
    /\ pc' = "evict"
    /\ evicting' = {r \in Robots : Evictable(r)}
    /\ UNCHANGED <<storeVars, pending, cooldown, stale, free, todo, offer,
                   cycles, robot_task, channels>>

EvictRobot(r) ==
    /\ pc = "evict"
    /\ r \in evicting
    /\ evicting' = evicting \ {r}
    /\ evict(r)
    /\ UNCHANGED <<pc, pending, cooldown, stale, free, todo, offer, cycles,
                   robot_task, channels>>

Candidates ==
    {r \in available_robots : ~low_battery[r] /\ cooldown[r] = 0}

\* The snapshot of candidates and the list of keys; with either empty the
\* round is over before it begins.
StartMatching ==
    /\ pc = "evict" /\ evicting = {}
    /\ pc' = "match"
    /\ free' = IF pending = {} THEN {} ELSE Candidates
    /\ todo' = IF free' = {} THEN {} ELSE pending
    /\ UNCHANGED <<storeVars, pending, cooldown, stale, evicting, offer,
                   cycles, robot_task, channels>>

\* The goal is no node of the map: the scheduler forgets the task.
DropInvalid(t) ==
    /\ pc = "match"
    /\ t \in todo \cap BadGoals
    /\ todo' = todo \ {t}
    /\ pending' = pending \ {t}
    /\ UNCHANGED <<storeVars, pc, cooldown, stale, evicting, free, offer,
                   cycles, robot_task, channels>>

\* The nearest candidate has no route: the task waits for the next tick.
DeferTask(r, t) ==
    /\ pc = "match"
    /\ t \in todo \ BadGoals
    /\ r \in free /\ <<r, t>> \in RouteMayFail
    /\ todo' = todo \ {t}
    /\ UNCHANGED <<storeVars, pc, pending, cooldown, stale, evicting, free,
                   offer, cycles, robot_task, channels>>

MutantAssignStale(r, t) ==
    /\ pc = "match"
    /\ t \in todo \ BadGoals
    /\ r \in free
    /\ status' = [status EXCEPT ![r] = "Busy"]
    /\ current_task' = [current_task EXCEPT ![r] = t]
    /\ UNCHANGED <<silent, low_battery, taskVars>>
    /\ offer' = <<r, t>>
    /\ pc' = "send"
    /\ UNCHANGED <<pending, cooldown, stale, evicting, free, todo, cycles,
                   robot_task, channels>>

\* The nearest candidate r gets t in the store.
AssignTask(r, t) ==
    /\ pc = "match"
    /\ t \in todo \ BadGoals
    /\ r \in free
    /\ assign(r, t)
    /\ offer' = <<r, t>>
    /\ pc' = "send"
    /\ UNCHANGED <<pending, cooldown, stale, evicting, free, todo, cycles,
                   robot_task, channels>>

\* r is no longer what the snapshot said: it is struck from the candidates,
\* and t waits for the next tick.
AssignRefused(r, t) ==
    /\ pc = "match"
    /\ t \in todo \ BadGoals
    /\ r \in free /\ status[r] # "Idle"
    /\ free' = free \ {r}
    /\ todo' = todo \ {t}
    /\ UNCHANGED <<storeVars, pc, pending, cooldown, stale, evicting, offer,
                   cycles, robot_task, channels>>

MutantKeepPending ==
    LET r == offer[1]
        t == offer[2]
    IN  /\ pc = "send" /\ Len(dispatch) < DispatchCapacity
        /\ dispatch' = Append(dispatch, offer)
        /\ free' = free \ {r}
        /\ todo' = IF free' = {} THEN {} ELSE todo \ {t}
        /\ offer' = NoOffer
        /\ pc' = "match"
        /\ UNCHANGED <<storeVars, pending, cooldown, stale, evicting, cycles,
                       robot_task, events, work>>

\* dispatch.try_send has room: r and t leave the round, t the pending table.
\* The last candidate to go ends the round.
SendDispatch ==
    LET r == offer[1]
        t == offer[2]
    IN  /\ pc = "send" /\ Len(dispatch) < DispatchCapacity
        /\ dispatch' = Append(dispatch, offer)
        /\ free' = free \ {r}
        /\ todo' = IF free' = {} THEN {} ELSE todo \ {t}
        /\ pending' = pending \ {t}
        /\ offer' = NoOffer
        /\ pc' = "match"
        /\ UNCHANGED <<storeVars, cooldown, stale, evicting, cycles,
                       robot_task, events, work>>

\* It has none: the assignment is undone and the round ends.
RollBack ==
    /\ pc = "send" /\ Len(dispatch) >= DispatchCapacity
    /\ unassign(offer[1], offer[2])
    /\ offer' = NoOffer
    /\ free' = {} /\ todo' = {}
    /\ pc' = "match"
    /\ UNCHANGED <<pending, cooldown, stale, evicting, cycles, robot_task,
                   channels>>

MutantWaiting == {r \in Robots : status[r] = "Busy"}

\* Only a Busy robot with a target waits for another.
Waiting == {r \in Robots : status[r] = "Busy" /\ current_task[r] # NoTask}

\* The round is over (without a candidate the rest of the list is only looked
\* through for goals off the map): the tick ends, or resolve_deadlocks takes
\* its snapshot and finds the cycles in it.
FinishMatching ==
    /\ pc = "match"
    /\ todo = {} \/ (free = {} /\ todo \cap BadGoals = {})
    /\ free' = {} /\ todo' = {}
    /\ cycles' \in IF EnableDeadlockResolution
                   THEN SUBSET {c \in SUBSET Waiting :
                                    \E r, s \in c : r # s}
                   ELSE {{}}
    /\ robot_task' = [r \in Robots |-> IF r \in UNION cycles'
                                       THEN current_task[r] ELSE NoTask]
    /\ pc' = IF cycles' = {} THEN "select" ELSE "parole"
    /\ UNCHANGED <<storeVars, pending, cooldown, stale, evicting, offer,
                   channels>>

\* One cycle is broken: its victim v gives up the task that the snapshot,
\* not the store, has it bound to, and rests.
Parole(c, v) ==
    /\ pc = "parole"
    /\ c \in cycles /\ v \in c
    /\ cycles' = cycles \ {c}
    /\ unassign(v, robot_task[v])
    /\ cooldown' = [cooldown EXCEPT ![v] = Cooldown]
    /\ robot_task' = IF cycles' = {} THEN NoBindings ELSE robot_task
    /\ pc' = IF cycles' = {} THEN "select" ELSE "parole"
    /\ UNCHANGED <<pending, stale, evicting, free, todo, offer, channels>>

----------------------------------------------------------------------------

HandleEvent ==
    \/ HandleShutdown
    \/ \E t \in Tasks : HandleSubmitted(t)
    \/ \E r \in Robots, t \in Tasks : HandleCompleted(r, t)

\* The steps of a tick after its first.
TickStep ==
    \/ ScanForEviction
    \/ StartMatching
    \/ SendDispatch
    \/ RollBack
    \/ FinishMatching
    \/ \E t \in Tasks : ReclaimTask(t) \/ DropInvalid(t)
    \/ \E r \in Robots : EvictRobot(r)
    \/ \E r \in Robots, t \in Tasks :
            DeferTask(r, t) \/ AssignTask(r, t) \/ AssignRefused(r, t)
    \/ \E c \in cycles : \E v \in c : Parole(c, v)

Environment ==
    \/ RequestShutdown
    \/ Deliver
    \/ DeliveryLost
    \/ Advance
    \/ \E t \in Tasks : SubmitTask(t)
    \/ \E r \in Robots, t \in Tasks : ReportComplete(r, t) \/ WorkLost(r, t)
    \/ \E r \in Robots, hb \in Reports :
            Register(r, hb.low) \/ HeartbeatArrives(r, hb)

Next == HandleEvent \/ Tick \/ TickStep \/ Environment

Spec == Init /\ [][Next]_vars

\* The runtime polls the scheduler task as long as it is ready.  select! draws
\* among its ready branches, so a waiting event is not passed over for ever in
\* favour of ticks; time passes whatever the scheduler does (Advance waits for
\* the end of a tick only to keep a tick's readings equal).  The pump and the
\* robots get on with their work.
Fairness ==
    /\ SF_vars(HandleEvent)
    /\ WF_vars(Tick)
    /\ WF_vars(TickStep)
    /\ SF_vars(Advance)
    /\ WF_vars(Deliver \/ DeliveryLost)
    /\ WF_vars(\E r \in Robots, t \in Tasks : ReportComplete(r, t))

FairSpec == Spec /\ Fairness
=============================================================================

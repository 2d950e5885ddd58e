------------------------------- MODULE Fleet -------------------------------
(***************************************************************************)
(* The robots at work: the simulated robot (src/src/simulator.rs) as the   *)
(* client of the server, the store that knows it by its heartbeats only,   *)
(* and the part of the scheduler that sends it on tours.                   *)
(*                                                                         *)
(* A robot is one task: it waits for its heartbeat timer or for an         *)
(* assignment, and while it drives it looks at neither.  What it sends     *)
(* waits in its socket (`up`) for the connection handler; what it is sent  *)
(* waits in the other direction (`down`), be it in the dispatch channel,   *)
(* in the connection's channel or in the socket, all of which keep the     *)
(* order.  So the scheduler plans from what a robot said a while ago.      *)
(*                                                                         *)
(* The operations of the store are those of module MemoryStore.  Its       *)
(* clocks stand still here: whether a task is late is a choice (Reclaim),  *)
(* connections hold and heartbeats are in time, so nobody is evicted.      *)
(* Modules Scheduler and Transport are about what happens otherwise.       *)
(*                                                                         *)
(* The path finder is a parameter, as it is one of the scheduler's.        *)
(***************************************************************************)
EXTENDS MemoryStore, Sequences

CONSTANTS
    Nodes, NoNode,     \* NodeId; Option::<NodeId>::None
    FindPath,          \* FindPath[<<a, b>>], Pathfinder::find_path
    NearestCharger,    \* NearestCharger[n], nearest_charger
    Distance,          \* Distance[<<a, b>>], an order of straight distances
    Goals,             \* Task.kind: pickup and dropoff of each transport
    StartBattery,      \* the battery of a robot that comes on line
    LowThreshold, FullThreshold, MaxBattery,  \* Battery: 20, 95, 100
    ChargeStep,        \* CHARGE_STEP
    LoadDwell,         \* LOAD_DWELL
    SocketCapacity,    \* frames that a socket holds before the sender waits
    EventCapacity      \* config.event_channel_capacity, events

ASSUME NodeAssumption == NoNode \notin Nodes
\* A path leads from one end to the other.
ASSUME PathfinderAssumption ==
    \A a, b \in Nodes :
        LET path == FindPath[<<a, b>>]
        IN  /\ path \in Seq(Nodes)
            /\ path # <<>>
            /\ Head(path) = a
            /\ path[Len(path)] = b
ASSUME GoalsAssumption == Goals \in [Tasks -> [pickup : Nodes, dropoff : Nodes]]
ASSUME ChargerAssumption == NearestCharger \in [Nodes -> Nodes]
ASSUME DistanceAssumption == Distance \in [Nodes \X Nodes -> Nat]
ASSUME BatteryAssumption ==
    /\ LowThreshold \in Nat /\ FullThreshold \in Nat
    /\ MaxBattery \in Nat /\ ChargeStep \in Nat
    /\ FullThreshold <= MaxBattery
    /\ StartBattery \subseteq 0..MaxBattery
ASSUME DwellAssumption == LoadDwell \in Nat
ASSUME ChannelAssumption ==
    SocketCapacity \in Nat \ {0} /\ EventCapacity \in Nat \ {0}

VARIABLES
    \* the store and the scheduler, with the variables of MemoryStore
    location,  \* RobotState.location; NoNode when the table has no entry
    carrying,  \* RobotState.carrying
    pending,   \* keys of the scheduler's `pending` table
    free,      \* the candidates of the matching round and where they were
    todo,      \* the tasks that the round has yet to visit
    events,    \* SchedulerEvent channel: the completion reports in it
    \* between the robots and the server
    up, down,
    \* the robots
    loc, battery, charging,  \* locals of simulate_robot
    trip       \* the call of `drive` under way, and what it is for

centreVars == <<location, carrying, pending, free, todo, events>>
robotsOwn == <<loc, battery, charging, trip>>
vars == <<storeVars, centreVars, up, down, robotsOwn>>

is_low(b) == b < LowThreshold
MutantOverfull(b) == b > MaxBattery
is_full(b) == b >= FullThreshold

Register(n, b) == [type |-> "Register", node |-> n, battery |-> b]
Beat(n, b, st, c) ==
    [type |-> "Heartbeat", node |-> n, battery |-> b, status |-> st,
     carrying |-> c]
TaskDone(t) == [type |-> "TaskDone", task |-> t]
TaskAssign(t, path, pickup) == [task |-> t, path |-> path, pickup |-> pickup]

\* status: Busy on a tour, Charging on the way to a charger, Idle at rest.
Trip(st, t, path, pickup) ==
    [status |-> st, task |-> t, path |-> path, pickup |-> pickup,
     carrying |-> FALSE, dwell |-> 0]
Parked == Trip("Idle", NoTask, <<>>, NoNode)

Batteries == 0..MaxBattery
Reports == {"Idle", "Busy", "Charging"}
ClientMsg ==
    [type : {"Register"}, node : Nodes, battery : Batteries]
        \cup [type : {"Heartbeat"}, node : Nodes, battery : Batteries,
              status : Reports, carrying : BOOLEAN]
        \cup [type : {"TaskDone"}, task : Tasks]
ServerMsg == [task : Tasks, path : Seq(Nodes), pickup : Nodes]
Trips == [status : Reports, task : Tasks \cup {NoTask}, path : Seq(Nodes),
          pickup : Nodes \cup {NoNode}, carrying : BOOLEAN,
          dwell : 0..LoadDwell]
Candidates == [robot : Robots, node : Nodes]

TypeOK ==
    /\ StoreTypeOK
    /\ location \in [Robots -> Nodes \cup {NoNode}]
    /\ carrying \in [Robots -> BOOLEAN]
    /\ pending \subseteq Tasks
    /\ free \subseteq Candidates
    /\ todo \subseteq Tasks
    /\ events \in Seq(Robots \X Tasks)
    /\ up \in [Robots -> Seq(ClientMsg)]
    /\ down \in [Robots -> Seq(ServerMsg)]
    /\ loc \in [Robots -> Nodes]
    /\ battery \in [Robots -> Batteries]
    /\ charging \in [Robots -> BOOLEAN]
    /\ trip \in [Robots -> Trips]

\* The robots have connected, and their first frame is on its way.
Init ==
    /\ StoreInit
    /\ location = [r \in Robots |-> NoNode]
    /\ carrying = [r \in Robots |-> FALSE]
    /\ pending = {} /\ free = {} /\ todo = {}
    /\ events = <<>>
    /\ loc \in [Robots -> Nodes]
    /\ battery \in [Robots -> StartBattery]
    /\ charging = [r \in Robots |-> FALSE]
    /\ trip = [r \in Robots |-> Parked]
    /\ up = [r \in Robots |-> <<Register(loc[r], battery[r])>>]
    /\ down = [r \in Robots |-> <<>>]

----------------------------------------------------------------------------
(* The robot.                                                              *)

Send(r, m) ==
    /\ Len(up[r]) < SocketCapacity
    /\ up' = [up EXCEPT ![r] = Append(up[r], m)]

AtRest(r) == trip[r].status = "Idle"

\* The timer of a robot that is charging: a charge step, wherever it stands.
TickCharging(r) ==
    LET b == IF battery[r] + ChargeStep < MaxBattery
             THEN battery[r] + ChargeStep ELSE MaxBattery
    IN  /\ AtRest(r)
        /\ charging[r]
        /\ battery' = [battery EXCEPT ![r] = b]
        /\ charging' = [charging EXCEPT ![r] = ~is_full(b)]
        /\ Send(r, Beat(loc[r], b, "Charging", FALSE))
        /\ UNCHANGED <<storeVars, centreVars, down, loc, trip>>

\* The timer of a robot that has run low: it leaves for the nearest charger.
TickLow(r) ==
    LET path == FindPath[<<loc[r], NearestCharger[loc[r]]>>]
    IN  /\ AtRest(r)
        /\ ~charging[r]
        /\ is_low(battery[r])
        /\ charging' = [charging EXCEPT ![r] = TRUE]
        /\ trip' = [trip EXCEPT ![r] = Trip("Charging", NoTask, path, NoNode)]
        /\ UNCHANGED <<storeVars, centreVars, up, down, loc, battery>>

TickIdle(r) ==
    /\ AtRest(r)
    /\ ~charging[r]
    /\ ~is_low(battery[r])
    /\ Send(r, Beat(loc[r], battery[r], "Idle", FALSE))
    /\ UNCHANGED <<storeVars, centreVars, down, robotsOwn>>

Tick(r) == TickCharging(r) \/ TickLow(r) \/ TickIdle(r)

MutantTakeSkipsStart(r) ==
    LET a == Head(down[r])
    IN  /\ AtRest(r)
        /\ down[r] # <<>>
        /\ down' = [down EXCEPT ![r] = Tail(down[r])]
        /\ trip' = [trip EXCEPT ![r] =
                        Trip("Busy", a.task, Tail(a.path), a.pickup)]
        /\ UNCHANGED <<storeVars, centreVars, up, loc, battery, charging>>

\* An assignment is taken without a look at `charging`.
Take(r) ==
    LET a == Head(down[r])
    IN  /\ AtRest(r)
        /\ down[r] # <<>>
        /\ down' = [down EXCEPT ![r] = Tail(down[r])]
        /\ trip' = [trip EXCEPT ![r] =
                        Trip("Busy", a.task, a.path, a.pickup)]
        /\ UNCHANGED <<storeVars, centreVars, up, loc, battery, charging>>

MutantDriveWraps(r) ==
    LET d == trip[r]
        n == Head(d.path)
        b == battery[r] - 1
        loads == ~d.carrying /\ n = d.pickup
    IN  /\ d.path # <<>>
        /\ d.dwell = 0
        /\ loc' = [loc EXCEPT ![r] = n]
        /\ battery' = [battery EXCEPT ![r] = b]
        /\ Send(r, Beat(n, b, d.status, d.carrying))
        /\ trip' = [trip EXCEPT
                ![r].path = Tail(d.path),
                ![r].carrying = d.carrying \/ loads,
                ![r].dwell = IF loads THEN LoadDwell ELSE 0]
        /\ UNCHANGED <<storeVars, centreVars, down, charging>>

MutantDriveReportsLate(r) ==
    LET d == trip[r]
        n == Head(d.path)
        b == IF battery[r] > 0 THEN battery[r] - 1 ELSE 0
        loads == ~d.carrying /\ n = d.pickup
    IN  /\ d.path # <<>>
        /\ d.dwell = 0
        /\ loc' = [loc EXCEPT ![r] = n]
        /\ battery' = [battery EXCEPT ![r] = b]
        /\ Send(r, Beat(loc[r], battery[r], d.status, d.carrying))
        /\ trip' = [trip EXCEPT
                ![r].path = Tail(d.path),
                ![r].carrying = d.carrying \/ loads,
                ![r].dwell = IF loads THEN LoadDwell ELSE 0]
        /\ UNCHANGED <<storeVars, centreVars, down, charging>>

\* One turn of the loop of `drive`: move, drain, report; at the pickup, the
\* first time, begin to load.
Drive(r) ==
    LET d == trip[r]
        n == Head(d.path)
        b == IF battery[r] > 0 THEN battery[r] - 1 ELSE 0
        loads == ~d.carrying /\ n = d.pickup
    IN  /\ d.path # <<>>
        /\ d.dwell = 0
        /\ loc' = [loc EXCEPT ![r] = n]
        /\ battery' = [battery EXCEPT ![r] = b]
        /\ Send(r, Beat(n, b, d.status, d.carrying))
        /\ trip' = [trip EXCEPT
                ![r].path = Tail(d.path),
                ![r].carrying = d.carrying \/ loads,
                ![r].dwell = IF loads THEN LoadDwell ELSE 0]
        /\ UNCHANGED <<storeVars, centreVars, down, charging>>

\* A beat of the stop for loading.
Load(r) ==
    /\ trip[r].dwell > 0
    /\ Send(r, Beat(loc[r], battery[r], trip[r].status, trip[r].carrying))
    /\ trip' = [trip EXCEPT ![r].dwell = trip[r].dwell - 1]
    /\ UNCHANGED <<storeVars, centreVars, down, loc, battery, charging>>

\* `drive` has returned: the tour is reported done, or the robot is at the
\* charger and says so.
Arrive(r) ==
    /\ ~AtRest(r)
    /\ trip[r].path = <<>>
    /\ trip[r].dwell = 0
    /\ \/ /\ trip[r].status = "Busy"
          /\ Send(r, TaskDone(trip[r].task))
       \/ /\ trip[r].status = "Charging"
          /\ Send(r, Beat(loc[r], battery[r], "Charging", FALSE))
    /\ trip' = [trip EXCEPT ![r] = Parked]
    /\ UNCHANGED <<storeVars, centreVars, down, loc, battery, charging>>

----------------------------------------------------------------------------
(* The connection handler of r serves the next frame.                      *)

ApplyRegister(r, m) ==
    /\ m.type = "Register"
    /\ register_robot(r, is_low(m.battery))
    /\ location' = [location EXCEPT ![r] = m.node]
    /\ carrying' = [carrying EXCEPT ![r] = FALSE]
    /\ UNCHANGED events

ApplyHeartbeat(r, m) ==
    /\ m.type = "Heartbeat"
    /\ apply_heartbeat(r, [status |-> m.status, low |-> is_low(m.battery),
                           delay |-> 0])
    /\ location' = [location EXCEPT ![r] = m.node]
    /\ carrying' = [carrying EXCEPT ![r] = m.carrying]
    /\ UNCHANGED events

\* report_complete waits for room in the event channel.
ForwardDone(r, m) ==
    /\ m.type = "TaskDone"
    /\ Len(events) < EventCapacity
    /\ events' = Append(events, <<r, m.task>>)
    /\ UNCHANGED <<storeVars, location, carrying>>

Handle(r) ==
    /\ up[r] # <<>>
    /\ up' = [up EXCEPT ![r] = Tail(up[r])]
    /\ \/ ApplyRegister(r, Head(up[r]))
       \/ ApplyHeartbeat(r, Head(up[r]))
       \/ ForwardDone(r, Head(up[r]))
    /\ UNCHANGED <<pending, free, todo, down, robotsOwn>>

----------------------------------------------------------------------------
(* The scheduler: between two rounds it takes submissions and reports and  *)
(* takes late tasks back.                                                  *)

BetweenRounds == free = {}

\* make_random_task draws the ends of t, which may be the same node.
Submit(t) ==
    /\ BetweenRounds
    /\ task_status[t] = "Absent"
    /\ submit_task(t)
    /\ pending' = pending \cup {t}
    /\ UNCHANGED <<location, carrying, free, todo, events, up, down, robotsOwn>>

MutantCompleteKeepsCargo ==
    /\ BetweenRounds
    /\ events # <<>>
    /\ complete_task(Head(events)[1], Head(events)[2])
    /\ events' = Tail(events)
    /\ UNCHANGED <<location, carrying, pending, free, todo, up, down,
                   robotsOwn>>

Complete ==
    LET r == Head(events)[1]
    IN  /\ BetweenRounds
        /\ events # <<>>
        /\ complete_task(r, Head(events)[2])
        /\ carrying' = [carrying EXCEPT ![r] = FALSE]
        /\ events' = Tail(events)
        /\ UNCHANGED <<location, pending, free, todo, up, down, robotsOwn>>

\* The task has been out for longer than it may.  Its robot is not told.
Reclaim(t) ==
    LET r == assigned_robot[t]
    IN  /\ BetweenRounds
        /\ task_status[t] = "Assigned"
        /\ reclaim(t)
        /\ carrying' = IF r \in Robots /\ current_task[r] = t
                       THEN [carrying EXCEPT ![r] = FALSE] ELSE carrying
        /\ pending' = IF exhausted(t) THEN pending ELSE pending \cup {t}
        /\ UNCHANGED <<location, free, todo, events, up, down, robotsOwn>>

MutantOfferLow == available_robots

\* Whom a round considers.
Offered == {r \in available_robots : ~low_battery[r]}

\* run_matching takes its snapshots.
BeginRound ==
    /\ BetweenRounds
    /\ pending # {}
    /\ Offered # {}
    /\ free' = {[robot |-> r, node |-> location[r]] : r \in Offered}
    /\ todo' = pending
    /\ UNCHANGED <<storeVars, location, carrying, pending, events,
                   up, down, robotsOwn>>

\* The candidates that nearest_robot can return: its table has no order.
nearest_robot(target) ==
    {f \in free : \A h \in free :
        Distance[<<f.node, target>>] <= Distance[<<h.node, target>>]}

MutantTourRepeatsPickup(from, g) ==
    FindPath[<<from, g.pickup>>] \o FindPath[<<g.pickup, g.dropoff>>]

\* The tour of a transport: to the pickup and on to the dropoff.
plan_task_route(from, g) ==
    IF g.pickup = g.dropoff THEN FindPath[<<from, g.pickup>>]
    ELSE FindPath[<<from, g.pickup>>] \o Tail(FindPath[<<g.pickup, g.dropoff>>])

\* The next task of the round: hand it to the nearest candidate, if that one
\* is still free.  The candidate leaves the round either way, and the round is
\* over when there are no candidates or no tasks left.
Match(t) ==
    /\ t \in todo
    /\ \E f \in nearest_robot(Goals[t].pickup) :
        /\ \/ /\ assign(f.robot, t)
              /\ down' = [down EXCEPT ![f.robot] = Append(down[f.robot],
                    TaskAssign(t, plan_task_route(f.node, Goals[t]),
                               Goals[t].pickup))]
              /\ pending' = pending \ {t}
           \/ /\ status[f.robot] # "Idle"
              /\ UNCHANGED <<storeVars, down, pending>>
        /\ IF free = {f} \/ todo = {t}
           THEN free' = {} /\ todo' = {}
           ELSE free' = free \ {f} /\ todo' = todo \ {t}
    /\ UNCHANGED <<location, carrying, events, up, robotsOwn>>

----------------------------------------------------------------------------
Next ==
    \/ \E r \in Robots :
        Tick(r) \/ Take(r) \/ Drive(r) \/ Load(r) \/ Arrive(r) \/ Handle(r)
    \/ \E t \in Tasks : Submit(t) \/ Reclaim(t) \/ Match(t)
    \/ Complete \/ BeginRound

Spec == Init /\ [][Next]_vars

\* A robot task and a handler are always driven on; the timer of a robot that
\* waits fires; the random choice of select! passes over no branch for ever.
Fairness ==
    /\ \A r \in Robots :
        /\ WF_vars(Tick(r))
        /\ WF_vars(Take(r))
        /\ WF_vars(Drive(r) \/ Load(r) \/ Arrive(r))
        /\ WF_vars(Handle(r))
    /\ WF_vars(Complete)
    /\ WF_vars(\E t \in Tasks : Match(t))

FairSpec == Spec /\ Fairness

----------------------------------------------------------------------------
(* Safety.                                                                 *)

\* Behind the i-th frame in r's socket nothing tells where r is.
NoNewsAfter(r, i) ==
    \A j \in (i + 1)..Len(up[r]) : up[r][j].type = "TaskDone"

\* The store is behind the robot by what is in the socket and by nothing
\* else: whatever the robot does to its place and its battery, it reports;
\* the last report it made is true as long as it waits, and once the socket
\* is empty the store knows the place and the state of the battery.
StoreIsBehind ==
    \A r \in Robots :
        /\ NoNewsAfter(r, 0) => /\ location[r] = loc[r]
                               /\ low_battery[r] = is_low(battery[r])
        /\ \A i \in 1..Len(up[r]) :
            up[r][i].type # "TaskDone" /\ NoNewsAfter(r, i) =>
                up[r][i].node = loc[r] /\ up[r][i].battery = battery[r]

\* A robot that the store shows loaded is one it shows at work: "空闲/完成/
\* 回充时为 false" (src/src/domain/robot.rs:95), though heartbeats write the
\* one, and the scheduler and heartbeats between them the other.
LoadedIsBusy == \A r \in Robots : carrying[r] => status[r] = "Busy"

\* A tour ends at the dropoff, and with the cargo: when a robot is about to
\* report a task done, it has been at the pickup before.
ArrivesLoaded ==
    \A r \in Robots :
        trip[r].status = "Busy" /\ trip[r].path = <<>> =>
            /\ trip[r].carrying
            /\ loc[r] = Goals[trip[r].task].dropoff

\* The first time that a task is taken back it is counted, if it may be tried
\* again at all, and the count is never reset.
NothingReclaimed == MaxRetries > 0 /\ \A t \in Tasks : retry_count[t] = 0

\* A robot moves, never jumps ("连续移动而非瞬移", src/src/simulator.rs:56): the
\* path that waits for a robot at rest starts where it stands, though it was
\* planned from what the store knew.  This takes that no task was reclaimed;
\* a robot whose task was taken back can be sent on a tour from a node it has left.
ToursStartHere ==
    NothingReclaimed =>
        \A r \in Robots :
            AtRest(r) /\ down[r] # <<>> => Head(Head(down[r]).path) = loc[r]

\* While a robot is charging it is on its way to a charger or standing at
\* one, and takes no task ("为 true 时正在驶回/停靠充电桩回充，不接普通任务",
\* src/src/simulator.rs:134).
ChargingTakesNoTask ==
    \A r \in Robots : charging[r] => trip[r].status # "Busy"

\* What the fleet does to a task is what its submitter sees of the dispatch
\* core: it is handed out only from the line, out of which it goes with that;
\* a late report, of a robot nobody counts on any more, completes its task but
\* neither gives a try back nor moves it in or out of line.
Lifecycle == INSTANCE TaskLifecycle WITH
    phase <- task_status,
    tries <- retry_count,
    line <- pending,
    holder <- [t \in Tasks |-> IF task_status[t] = "Assigned"
                               THEN assigned_robot[t] ELSE NoRobot]

LifecycleSpec == Lifecycle!Spec

----------------------------------------------------------------------------
(* Liveness.                                                               *)

\* A robot that has run low is in the end offered to the scheduler again,
\* charged: it finds a charger, fills up, says so, and the store believes it.
DrainedReturns ==
    \A r \in Robots :
        is_low(battery[r]) ~> status[r] = "Idle" /\ ~low_battery[r]

\* Busy, which no heartbeat takes away and a late heartbeat can bring back
\* after a reclaim, is taken away in the end.
BusyEnds == \A r \in Robots : status[r] = "Busy" ~> status[r] # "Busy"
=============================================================================

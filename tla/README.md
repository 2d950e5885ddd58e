# TLA+ models of the dispatch center

A verification project for the intelligent dispatch center in `src/`: a
scheduler that hands tasks to a fleet of robots connected by TCP. The modules
model the code under `src/src/`; comments in them give the names used there.
Line numbers below refer to files under `src/src/`.

## The system

| Part | Code | State | Operations |
| --- | --- | --- | --- |
| Store | `storage/memory_store.rs` | robot table and task table (DashMaps), counters, trails | register, heartbeat, submit, assign, complete, unassign, parole, reclaim, evict, reads |
| Scheduler | `engine/scheduler.rs` | `pending` table, `cooldown` table, event channel, dispatch channel | serve an event; tick = reclaim, evict, match, resolve deadlocks |
| Matching order | `domain/task.rs` | priority, creation time, retry count of a task | effective priority, sort keys |
| Conflict analysis | `engine/conflict.rs` | none (a pure function of a snapshot) | crowded nodes, contested goals, wait-for graph, cycles |
| Transport | `transport/server.rs`, `codec.rs` | connection registry, one downlink channel and two tasks per connection | accept, register, read loop, write loop, dispatch pump, framing |
| Fleet | `simulator.rs` | per robot: position, battery, charging flag | heartbeat, drive, charge, report completion |
| Path finding | `engine/pathfinding.rs`, `domain/map.rs` | none | A*, route stitching |
| Assembly, metrics, front ends | `service.rs`, `metrics.rs`, `main.rs`, `bin/headless.rs` | display data | start, sample, draw |

How they interact. Front ends and the fleet's task stream send `TaskSubmitted`
through the bounded event channel; connection handlers send `TaskCompleted`
through it and call `register_robot` and `apply_heartbeat` on the store from
their own threads. The scheduler is one task: it alone writes the task table
and the `pending` table. It sends assignments through the bounded dispatch
channel to the pump, which passes them to the robot's connection, if there is
one. Nothing is acknowledged: the only way back is a `TaskDone` frame.

What is hard here: heartbeats and registrations come in between any two steps
of a tick; the robot table is scanned, and acted on later; an assignment lives
in four places (robot entry, task entry, `pending`, channel) that are updated
one after the other; a dispatch, a robot or a report can be lost, and a report
can come after its task was timed out and handed on; both channels fill up;
a task may wait behind more urgent ones for ever. `PROJECT.json` lists these
hazards at their lines, with the properties that watch them.

What makes each part correct: the tables agree with each other and with
`pending` (store, scheduler); no task is lost and no assignment lasts for ever
(scheduler, transport); retries are counted exactly (store); nobody starves
(matching order); exactly the waiting cycles are found and each one is broken
once (conflict analysis); a downlink belongs to the robot's newest connection
(transport); a robot drives one task at a time and never jumps (fleet).

## Modules

| Module | Models |
| --- | --- |
| `MemoryStore` | the two tables and the store's operations, as actions on them |
| `Scheduler` (extends `MemoryStore`) | the scheduler task with its channels, and around it handlers, pump, fleet and clock |
| `SchedulerProperties` | what the dispatch core promises |
| `SchedulerMC` | small fleets for TLC |
| `SchedulerProofs` | invariants of `Scheduler` for all parameters, checked by TLAPS |
| `TaskLifecycle` | the abstract specification: what a task goes through, as its submitter sees it; `SchedulerProperties` maps `Scheduler` to it, and `Fleet` has a mapping of its own |
| `PriorityMatching` | the order in which rounds hand out tasks, with aging |
| `PriorityMatchingProofs` | that order, for all parameters |
| `Transport` | connections, their handlers and writers, the registry, the dispatch pump |
| `TransportProofs` | its registry and delivery, for any number of robots and connections |
| `Codec` | the frames on a connection: length prefix and body; operators only |
| `CodecProofs` | that frames are read back, wherever they are cut |
| `TransportMC` (extends `Transport`, `Codec`) | a small instance of the connections; short streams of frames, cut in every way |
| `ConflictAnalysis` | the wait-for graph, the search for cycles, the choice of victims |
| `ConflictProofs` | that reported cycles are cycles, that no jam is missed, who gives way and what a frame achieves, for any fleet |
| `Pathfinding` | the grid map, A*, chargers; operators only |
| `Fleet` (extends `MemoryStore`) | simulated robots, their sockets, and the part of the scheduler that sends them on tours |
| `FleetMC` (extends `Fleet`, `Pathfinding`) | small grids for TLC, with A* as the path finder |
| `FleetProofs` | invariants of `Fleet` for any map and any path finder, and that it implements `TaskLifecycle` |
| `FleetTourProofs` (extends `FleetProofs`) | that tours start where the robot stands |
| `FleetPathProofs` (extends `FleetMC`, `FleetProofs`) | that tours are shortest, on a grid of any size |

How they fit. `Scheduler` and `Fleet` are built on the same operations of
`MemoryStore`. `Scheduler` has them step by step, with failures, clocks and
deadlock resolution, and takes geometry and the robots' doings as choices;
`Fleet` has robots that really drive and a scheduler that works out who is
nearest and which way to go, with clocks that stand still and connections that
hold. `Transport` is the part between the two: what `Scheduler` calls
`Deliver` or `DeliveryLost` is the pump, the registry and a writer there.
`ConflictAnalysis` and `PriorityMatching` are what `Scheduler` leaves open in
`FinishMatching` and in the order of a round. `TaskLifecycle` is above all of
them.

### MemoryStore and Scheduler

`status`, `current_task`, `silent` and `low_battery` are the fields of
`RobotState` that decisions read (`silent` is the age of `last_heartbeat`);
`task_status`, `assigned_robot`, `assigned_age` and `retry_count` those of
`Task`. `"Absent"` is a missing entry. Left out: location, target, route,
carrying and trail (`Fleet` has location and carrying). Target and route are set and cleared together with
`current_task`, except that an eviction leaves the route, which only drawing
reads. `TaskStatus::Executing` is left out because nothing writes it.

`pc` walks through a tick: `select` (the `select!` loop), `reclaim`, `evict`,
`match`, `send`, `parole`. Each action is one step on the store:

| Action | Code (scheduler.rs unless named) |
| --- | --- |
| `HandleSubmitted`, `HandleCompleted`, `HandleShutdown` | event branches, 122-139 |
| `Tick`, `ReclaimTask` | `reclaim_stale_tasks`: its scan, then one collected task at a time, with the refill of `pending` (148-154) |
| `ScanForEviction`, `EvictRobot` | `evict_stale_robots`: its scan, then one robot at a time |
| `StartMatching` | early returns, candidates, keys (205-225) |
| `DropInvalid`, `DeferTask`, `AssignTask`, `AssignRefused` | one visit of the matching loop (229-296) |
| `SendDispatch`, `RollBack` | `try_send` and its failure (272-288) |
| `FinishMatching`, `Parole` | `resolve_deadlocks`: snapshot and report, then one cycle at a time |
| `SubmitTask`, `ReportComplete`, `RequestShutdown` | `SchedulerHandle` |
| `Register`, `HeartbeatArrives` | connection handlers (transport/server.rs 117-127, 159-163) |
| `Deliver`, `DeliveryLost`, `WorkLost` | dispatch pump, connections that die |
| `Advance` | the monotonic clock |

Why these steps are fine enough. Only the scheduler task writes and scans the
task table, so the task half of an operation can be seen by nobody between the
robot half and the end of the operation (front ends read it, and decide
nothing). Each robot is read and written under its shard lock; in a scan the
reading of one robot commutes with everything that happens to another, so a
scan is as good as one snapshot. Where the code reads a robot and writes it
later (eviction, reclaim, candidates, deadlock report), there is a step in
between. Time passes between ticks only: a tick takes well under a
millisecond and works with one reading of the clock.

Choices where the code computes. Which candidate is the nearest, whether a
route exists (`RouteMayFail`), and which sets of waiting robots form cycles
depend on positions; the model allows every outcome. The victim of a cycle is
any member of it. The order of a round is any order; `PriorityMatching` makes
it exact. So the properties hold whatever the geometry is.

The fleet is what reaches the server: `work` counts, per assignment, how many
times it was received and is not reported yet. Robots may send any heartbeat of
`Reports` at any time, also a robot that is in the middle of a task, since
robots learn nothing of reclaims and paroles. Ids are drawn from one
counter (simulator.rs 299), so a task is submitted once.

### PriorityMatching

The store is reduced to where a task is: in the `pending` table, out with a
robot, or over. A place whose task is over can take a new one: the stream of
submissions is endless, which starvation needs. `created_at` is kept as an age.
Past three aging steps an age only matters in comparison with others, and
`Compress` keeps just the rank; theorem `CompressionIsExact` shows that the
matching sees no difference. A round visits a task that has no greater key in
the rest (`IsNext`), since the sort is stable over the arbitrary order of a hash
table. The cast of the number of aging steps to 32 bits is not modelled: it
would take 2^32 steps.

### TaskLifecycle

What the one who submitted a task sees of it: its `phase`, its `holder` while it
is Assigned, how often it was taken back (`tries`), and whether it is in the
`line` of those that wait to be handed out. The refinement mapping is
`phase = task_status`, `tries = retry_count`, `holder` the `assigned_robot` of an
Assigned task, and `line` the `pending` table of the scheduler. (The code takes a
task out of `pending` after its dispatch was accepted, 279; the mapping takes it
out at the assignment, so `line` is `pending` without the offer under way.)
`LifecycleSpec` says so of `Scheduler` in `SchedulerProperties` and, with
`line = pending`, of `Fleet`.

The line is apart from the phase because it is apart in the code, and this is
where the code goes further than one would think: a late report completes a task
that waits in `pending` and does not take it out of there (memory_store.rs 257),
so it is handed out once more, and a parole makes a task Pending that is in no line.
A late report also makes a Failed task Completed, which the store counts as
a success. What the life cycle does promise: a task is in one pair of hands at
most; it is handed out only from the line, and comes into the line only by its
submission, by a dispatch that could not be sent, or by a reclaim that has a try
left; tries are counted one by one, only by a reclaim, up to the limit and never
reset; a task is given up exactly when they are used up. From this follows that a
task that nobody has and that is in no line is `Over`: it never comes back.
`NoComeback` says that of every step of `Scheduler`, `GivenUpForGood` says it of
tasks that were given up, whatever is reported of them later, and
`OnlyLateTasksReopen` that a Completed task is handed out again only when it was
reclaimed before.

### Transport

A connection is a number, given in the order of opening. `handler[c]` is where
`handle_connection` is between two awaits: waiting for the first Register, in
the gap between `register_robot` and `registry.insert` (`onboarded`), before the
acknowledgement (`listed`), in the read loop, and in the three steps of its end
(`unlisting`, `releasing`, `joining`), which come one after the other with
other tasks in between. `writer[c]` is the writer task and `down[c]` the
unbounded channel that it empties; `Senders` are the handler's own end and the
clone in the registry, and the writer ends when both are gone. A robot may open
its next connection at any time, also before the server has noticed that the
last one is over, as front ends do that relaunch a fleet (main.rs 293). The
pump sends under the registry's lock, in one step. Frames on the way up are
abstracted to what the handler does with them: `Register`, another one, or one
that cannot be decoded.

### Codec

`Encode` and `Decode` are the two functions of `codec.rs` over sequences of bytes:
the prefix is four bytes with the most significant first, `Decode` asks for more,
fails, or returns a message with what is left of the buffer, in the order of the
code's tests. What bincode makes of a message is the parameter `Body`. It is
assumed that no body starts with the body of another message: bincode reads from
the front, knows from the bytes read how many more it needs, and ignores what
comes after. The limit may be any up to 1 GiB (the code has 1 MiB). `TransportMC`
adds the reader around it, tokio_util's `Framed`: what has arrived is decoded until
the codec asks for more, and after an error nothing is read any more. In
`Transport` a frame is one item, decodable or not, which is what the handler sees
of it.

### ConflictAnalysis

`adj` is the wait-for graph of a snapshot, `path` the recursion stack of `dfs`,
and `rest` what each robot on it has still to look at. `TakeRoot`, `Descend`,
`Break`, `CloseCycle`, `SkipDone` and `Retreat` are the branches of the search;
roots and neighbours come in any order, as hash maps give them. `Parole` takes
one cycle of the report, finds its victim and releases it, also when an earlier
victim has broken the cycle already. Then the next frame begins. Robots stay
where they are in between, so a run shows what the resolution does to one jam.
The priorities that decide on the victim are chosen when the search ends: they
age from frame to frame. The test for a cycle that was seen before is in the
model, as it is in the code; it happens never to be needed, since an edge is
looked at once. A frame whose graph has no edges searches nothing. Robots
without a position and the crowded and contested nodes of the report are left
out: only drawing reads them.

### Pathfinding and Fleet

`find_path` is A* as the code has it: the heap with entries that may be out of
date, `g_score`, `came_from`, the estimate by straight distance with equal estimates
going to the smaller node id (`Before`, pathfinding.rs 35-40), and the
reconstruction. A search is a record that `Expand` takes one turn further.
Estimates are compared as the real numbers they are, with the roots squared away
(`RootLess`), where the code has `f32`. On grids as small as these the two
orders are the same: the roots differ by far more than an `f32` rounds, and where
two estimates are equal both are whole numbers, or have the same distance.
That `RootLess` and `Before` are what they should be is not left to the eye:
`FleetMC` compares them with references of their own on the grids it searches.
`RootsAreCompared` compares the roots in thousandths, and `HeapIsOrdered` says
that of two entries exactly one comes before the other, and the smaller node when
their estimates are the same.

In `Fleet`, a robot is `loc`, `battery`, `charging` (the locals of
`simulate_robot`) and `trip`, the call of `drive` under way: `Drive` is one turn
of its loop, `Load` one beat of the stop at the pickup, `Arrive` the end. `Tick`
is the timer branch of the robot's `select!`, in its three cases, and `Take` the
branch of an incoming assignment. While a robot drives it looks at neither.
`up[r]` is the socket to the server, `down[r]` everything between the scheduler
and the robot: dispatch channel, connection channel and socket keep the order,
so one sequence does for the three; what else can happen there is in
`Transport`. `Handle` is one turn of the read loop. The scheduler takes
submissions and reports and reclaims tasks between rounds; `BeginRound` takes the
two snapshots of `run_matching`, and `Match` visits one task: nearest candidate,
tour, assignment. `location` and `carrying` are the fields of `RobotState` that
`Scheduler` left out.

The path finder, the map and the chargers are constants of `Fleet`: the proofs
need of a path only that it leads from one end to the other, and TLC gets A*.
Also left out: time (a task is late by choice, `Reclaim`; nobody is evicted),
the event of a submission (it is in the table at once), parole, tasks other
than transports, which nothing creates, and the fallback of a robot without a
way to a charger, as every grid is connected. A robot of the model has one
connection for life.

## Runs

| Run | What it checks | Bounds |
| --- | --- | --- |
| `scheduler_safety` | types, tables, pending table, verdicts, notes of a tick, what is sent; robots are bound only when Idle; only tasks that were taken back are handed out after a completion; what is over never comes back | 2 robots, 2 tasks, channels of 1, all timeouts 0, 1 retry, resolution on, any route may fail |
| `scheduler_recovery` | no task is forgotten; every assignment ends | 2 robots, 2 tasks, one with a goal off the map, channels of 1, task timeout longer than the heartbeat timeout, 1 retry, resolution off |
| `priority_matching` | types and retry limit; aged tasks are not overtaken; nobody starves | 2 places, 3 priorities, aging step 2, up to 2 candidates, 1 retry |
| `transport` | types; the registry names served connections; delivery in order and once; connections end, nothing is lost with the server's doing, channels drain | 1 robot that connects twice, 2 assignments, 1 frame in a socket |
| `conflict_analysis` | types; cycles are real; no jam is missed below the limit; of every jam somebody gives way in the same frame; the least urgent gives way; jams end | 4 robots on 2 nodes in all positions with all goals, 2 priorities, a limit of 2 cycles |
| `fleet` | types; the store knows what was reported last; a loaded robot is Busy; tasks go through the life cycle; drained robots come back; Busy ends | 1 robot, 2 transports (one with its pickup as its dropoff) on a row of 3 nodes, battery 4 with low below 2, 1 retry, sockets of 2 frames |
| `fleet_grid` | tours are shortest, start where the robot is and are driven loaded; before it, A* and its heap against references | as `fleet`, on a grid of 3 by 2 with a transport from corner to corner, paths by A* |
| `stale_completion` | finding: a completed task does not free its robot | 2 robots, 1 task |
| `parole_forgets` | finding: a paroled task is not scheduled again | 2 robots, 2 tasks |
| `priority_ties` | finding: ties are not broken by id | 2 places |
| `stale_registry` | finding: a dispatch to a robot on line is dropped | 1 robot that connects twice |
| `charging_accepts` | finding: a charging robot takes a task | 1 robot on a square of 4 nodes |

`scheduler_safety` and `fleet` also check the refinement of `TaskLifecycle`
(`LifecycleSpec`).

Why the bounds are enough. What can go wrong needs two robots at one task (a
timeout and its successor, a parole and its snapshot) or two tasks at one robot
(a late report, a second assignment); channels of one message are full as soon
as they are not empty, so congestion and rollback happen in every run; a
timeout of 0 is exceeded by the first unit of time, and the recovery
run uses unequal timeouts so that eviction and reclaim come in both orders. One
retry makes both outcomes of a reclaim happen. `MaxCopies` bounds how often a
robot has the same assignment at hand: 2 in the recovery run, 1 in
the others, where a second copy would only repeat a report. `MovingReports` leaves
out the heartbeats of robots that charge: to the scheduler these are robots that are
not Idle, as are those that report Busy, and what a low battery does is in `Fleet`.
The proofs take any set of reports. Ages stop at
`AgeCap`, one past the longest timeout. What these bounds might hide is
what the proofs are for.

`TransportMC` also states what the codec does to streams, as assumptions that TLC
evaluates before the run: of every stream of up to two messages, one of which may
be too large, cut into three chunks anywhere and ending anywhere, the reader has
the messages whose frames have arrived whole, up to the first too large
(`FramesSurviveCuts`). Two frames are enough for one to begin in the chunk where the
other ends. `OddBodies` has bodies that are no message, or more than one.

In `transport`, what can go wrong between two connections needs two of them,
and two assignments give an order to keep; the one that the pump takes while
the registry changes hands can be the first or the second. In
`conflict_analysis`, four robots form cycles of two to four, cycles that overlap,
and two jams at once; with a limit of 2, reports at the limit and beyond it
happen. In `fleet`, a row of three nodes has a middle, so that a robot can be on
its way; a full battery does not last for one tour and the way there, so that
robots run low and flat; the tasks may be late once each, at any time. The map
of `fleet` is a row because TLC computes a path anew wherever it asks whether an action
is enabled, and on a row `RowPaths` does that without a search; `RowsAreSearched`
says that A* gives the same. What needs a choice of ways is checked in `fleet_grid`,
which has no fairness and so can afford A*: on 3 by 2 nodes the tours between two
corners have three ways to go. What A* does on larger grids, `FleetMC` checks of its
own, for all pairs of nodes on grids of 4 by 3 and 2 by 5: the comparison of
estimates and the order of the heap (`WideRootsAreCompared`, `WideHeapIsOrdered` and
their `Tall` twins), and the paths (`WidePathsAreShortest`, `TallPathsAreShortest`).
`GridIsSearched` assumes in each run that the path finder in use finds shortest
paths, which is what theorem `ShortestTours` takes of it.

Robots and tasks are interchangeable, and the safety run has no liveness
property, so it uses symmetry. Only the two runs of `Transport` turn off the
check for deadlock: connections and assignments are bounded there and come to
an end. In the others time always passes, frames follow each other, or timers
fire.

### Fairness

`Scheduler!Fairness`: the runtime polls the scheduler task as long as it is
ready, so a tick that has begun goes on (WF of `TickStep`) and a tick begins
when it is due (WF of `Tick`). `select!` draws at random among its ready
branches, so a waiting event is not passed over for ever (SF of `HandleEvent`:
it is disabled during ticks). Time passes (SF of `Advance`, which the model
disables during ticks). The pump and the robots get on with their work; that
may be in vain, as `DeliveryLost` and `WorkLost` are always possible. Nothing is
assumed of heartbeats, registrations or submissions.

`PriorityMatching!Fairness`: time passes, ticks find a candidate again and
again, a round goes on, and a task whose turn comes again and again is at last
assigned (SF of `Assign`). The last one is about the fleet, not about the
order: it says that not every robot is out of reach or refused for ever. It
does not give a task its turn, which is what aging has to do: without aging
`NoStarvation` is violated, and so it is without the retry limit, since
a task that is reclaimed again and again always is the oldest.

`Transport!Fairness`: each handler, each writer and the pump is a task that the
runtime polls as long as it is ready (WF of each). A writer is ready when the socket
has room, so this takes it that a robot whose connection is open reads its socket
again and again: simulated robots do, as every drive ends (simulator.rs 229-251).
`ChannelDrains` and `ConnectionEnds` rest on that where the server hangs up first; a
robot that stops reading and keeps the connection open would hold its writer, its
handler and an ever longer channel. Nothing is assumed of what robots send, or that
they close or connect again.

`ConflictAnalysis!FairSpec`: the scheduler task goes on (WF of `Next`), whatever
way the search takes.

`Fleet!Fairness`: the timer of a robot that waits fires and an assignment that
waits is at last drawn by `select!` (WF of `Tick` and of `Take`; weak fairness
does, as both are enabled as long as the robot waits and has room to send); a
drive goes on (WF); handlers serve the socket (WF); the scheduler serves events
and goes on with a round (WF of `Complete` and `Match`; for `Complete` the code
gives more, as rounds interrupt it, but less is enough). Nothing is assumed of
submissions, of reclaims, or of a round being begun.

## What the runs found

1. **A late report completes a task under its new robot** (`stale_completion`).
   `complete_task` (storage/memory_store.rs 255) looks at neither the task's
   robot nor the robot's task. The task of a robot that is too slow is
   reclaimed and handed to another; then the first one reports. The task is
   `Completed`, and if the second robot's dispatch was lost, the second robot
   stays Busy and bound for as long as it sends heartbeats, as the reclaim only
   looks at `Assigned` tasks.
2. **A paroled task is forgotten** (`parole_forgets`). Its documentation
   (memory_store.rs 292) says that it is scheduled again in a later tick. It is
   set to `Pending` in the store, but the scheduler matches its own `pending`
   table, which the task left when it was assigned. Only if its robot drives on
   and reports, is the task ever over.
3. **Ties are not broken by id** (`priority_ties`), though the comment at
   scheduler.rs 216 says so: `TaskKey::cmp` ignores the id.
4. **An old connection takes the new one off the registry** (`stale_registry`).
   `registry.remove(&robot_id)` (transport/server.rs 179) does not ask whose
   entry it removes. When a robot connects again before its former handler has
   come to an end, the robot is on line, sends heartbeats, is offered tasks, and
   each of them is dropped by the pump. The comment at server.rs 187 takes it
   that this happens to robots off line only. The task timeout brings the
   tasks back (`AssignmentEnds`), only for the next of them to be dropped.
5. **A charging robot takes tasks** (`charging_accepts`), though simulator.rs 134
   says that it does not: the branch that takes an assignment does not look at
   `charging`. The scheduler keeps low robots out, by what the store knows; but
   an assignment may wait in the socket while the robot, at the end of a drive,
   finds its battery low and goes to a charger. It then drives the tour, and goes
   on charging wherever the tour ended.

Smaller things that modelling brought up and no property is about: an eviction
leaves the route of the robot in the store, for the front end to draw; a report
of deadlocks can be longer than its limit, as cycles closed by edges back are
added without a look at it; the depth-first search does not list every cycle, so
`JamsEnd` can take several frames where one would do; a robot whose task was
reclaimed shows Idle in the middle of its drive, is given a tour from where it
was, and jumps there (`ToursStartHere` excepts it). A tick that rolls an
assignment back does not roll back the counter of assignments.

## Proofs

All theorems are proved from the named assumptions on the constants (a
`None` that is no robot, task or node, timeouts, capacities, limits and battery
levels that are numbers, bodies none of which starts with another, a retry limit that is a `u8`, paths that lead from one end to
the other), for any number of robots, tasks, connections and nodes.

`SchedulerProofs`. `Inv` is the conjunction of the type invariant, the four
state invariants of the safety run, and `NotesHold`. `Invariance` proves that
it is inductive; none of its parts is so alone. The argument:

* The tables agree (`HolderIsAssignee`) because an assignment only takes a task
  that is in no robot's hands, and because what takes a task from its robot
  also takes it from the robot that holds it.
* A task of `pending` is in no robot's hands (`PendingTaskIsFree`) because a
  submission is of a new task and a reclaim frees the task it puts back.
* Both rest on what the scheduler wrote down earlier in the tick still being
  true (`NotesHold`): the tasks of a reclaim are still Assigned, the offer being
  sent is still the store's, the victim of a cycle is still the only one that
  may hold its task. Lemma `OutsideSteps` says why: what handlers, fleet and clock
  do to the scheduler's side is at most to take a binding away.
* Submissions queued in the event channel are of tasks the store does not know
  (`QueueStep`), so no submission overwrites a task under way.

`Typing`, `Bound`, `Agreement`, `PendingFree`, `Verdict` and `Notes` restate
its parts; `Exclusion` (no two robots hold one task) follows from agreement;
`Sending` proves the action property of the safety run; `Remembering` proves
`NoTaskForgotten` when deadlock resolution is off, with the invariant that no
cycle is ever noted. With resolution on it is false: finding 2.

`ImplementsLifecycle` proves that `Scheduler` implements `TaskLifecycle`: lemma
`LifecycleStep` maps each action to an action of it or to a stutter. It takes the
whole of `Inv`: a submission is a first one because queued submissions are of
new tasks, an assignment starts from Pending or Completed because pending tasks
are free, and a parole puts back what its victim holds because the notes hold.
Lemma `LineSteps` says which steps move the line: the assignment takes a task out
of it, and the dispatch that follows, which takes it out of `pending`, does not
move it any more.

`Finality` (`NoComeback`) and `NeverAgain` (`GivenUpForGood`) follow: no step of the
life cycle leads out of `Over` (`OverStays`), and a task that fails is over
(`FailedIsOver`), since only a task that is Assigned, and so in no line, can fail.

`Reopening` proves `OnlyLateTasksReopen`. A task is fresh while it waits for its first
try. The invariant `FreshIsUntouched` says that no robot, dispatch or queued report
knows of a fresh task, so none can complete it; a task that comes back to the table
after it was sent has been counted (`FreshBefore`), and one whose dispatch could not
be sent was known to nobody.

`Binding` proves `BoundWhenIdle`: what protects a robot that is no longer Idle is
`assign_task`'s own test, and what protects one that rests is that cooldowns are set
and run out between rounds only (`Rested`).

`PriorityMatchingProofs`. `CompressionIsExact` justifies the data
abstraction: compressed ages are ordered as the ages are, and age every
priority alike. `FirstComeFirstServedWhenAged` proves `AgedNotOvertaken`: after
three steps every task is Urgent, and then the older key is the greater one.
`Typing` is the type invariant, which the steps of the order rest on.

`TransportProofs`. `Inv` is the type invariant with `Opened` (a connection that
was not opened has no handler and no frames), `EntryIsServed` and
`InOrderAndOnce`. An entry is served because it goes when its handler reaches
`unlisting`, and an entry that a later connection has put there is that
connection's own business. Delivery is in order because the pump numbers what it
takes upwards and every number in a channel is of the past; it is once because a
number is taken once. That the registry may lose the entry of a connection
(finding 4) breaks neither. `Lossless` proves `NothingLost`: of the steps that take
a frame off a downlink, `Write` hands it to the robot, and `WriteInVain` needs a
robot that has gone; the writer ends only when the channel is empty. `Typing` is
the type invariant.

`CodecProofs`. `PrefixLemma`: four bytes read back to the length they were made of.
`WholeFrame`: the frame of a message that fits is decoded to it and leaves the
bytes behind it, so the next frame is found. `PartOfFrame`: of a frame cut anywhere
before its end nothing is taken. Together they say that a stream is read back
however it is cut. `TooLarge`: a message beyond the limit is encoded like any
other, since `encode` has no limit, and the receiver fails on its prefix; the server
then ends the connection (`Hangup`). Assignments are the only messages that grow,
with the length of the path.

`ConflictProofs`. `Inv` is the type invariant with `OnPath` (the stack is a path
of the graph that does not cross itself, and grey robots are those on it),
`AtRest` (nobody waits for himself; outside the search the stack is empty) and
`CyclesAreReal`. A grey neighbour is on the path by `OnPath`, so the path from
there on is a cycle, and it has two robots at least by `AtRest`.

`Completeness` proves `NoJamMissed`, for any order of roots and neighbours. The
search does not list every cycle, so what has to be inductive is what it cannot
overlook. While there is room for another report, an edge to a robot that is
done or on the path is *settled*: it leads to a robot that is done, or it was
reported as part of a cycle (`DoneSettled` for robots that are done,
`PathSettled` for those on the path, but for what they have still to look at).
`NoHiddenCycle` is the invariant that this serves: in every set of robots that
are done there is one whose edges into the set were all reported. That stays so
when a robot is left: the one of the set without it still is one, since its edge
to the robot that is left now was settled while that was on the path, so it was
reported. In the end everybody who waits is done, so the set of robots that wait
for each other has a robot with an edge within it, and that edge is on a report,
whose robots all are in the set. `CloseReports` says that an edge that closes a
cycle is on a report, also when the cycle was seen before. Reachability is a
matter of path lengths, so the lemmas on it need induction over numbers. The
library states it with an operator as a parameter, which the provers cannot
instantiate; lemma `Least`, that a set of numbers that is not empty has a least
one, follows from the library's theorem on well-founded relations, and does as
well (`Onward`, `Greatest`).

`LeastUrgentFirst` proves the action property `LeastUrgentGivesWay`: `pick_victim`
does find a robot that yields to all others of the cycle (`VictimYields`), which
takes that a cycle is finite and has a robot. `Headway` proves `EveryJamGivesWay`
from `Completeness` and `CyclesAreCut`: of each report that was resolved a robot
is bound nowhere. That stays so because nothing binds a robot within a frame.

`FleetProofs`. `Inv` is the type invariant with what the messages on the way and
the trips promise. `StoreIsBehind`: a robot sends whenever its place or its
battery changes (lemma `SendNews`) and frames are served in order (`ServeNews`),
so the last news in the socket is true, and once it is served the store knows.
`LoadedIsBusy`: heartbeats that say "loaded" say "Busy" (`HonestReports`), which is
because only tours have a cargo (`TripsInOrder`). `ArrivesLoaded`: every tour on
its way leads over its pickup to its dropoff (`SoundTours`, from `TourLemma`), so
does what is left of it while the robot is not loaded, and at the end nothing is
left. A tour can only be planned when the store has a place for the robot
(`Placed`). The path finder is arbitrary here, so these hold for any map.

`ImplementsLifecycle` proves that `Fleet` implements `TaskLifecycle`. Beside `Inv`
it takes `Waiting`: a pending task was submitted and is in no robot's hands, and
so is what a round has still to hand out, since rounds, reclaims and reports
are steps of one scheduler. The line is the pending table here, as assignment and
dispatch are one step.

`FleetTourProofs`. `Continuity` proves `ToursStartHere`. `TourInv` says where a
tour can be: on its way to the robot, driven, in the robot's report, or in the
queue of the scheduler, and that it is in one of them only (`OneTour`), so that
a robot that the store does not show Busy has none (`ToursAreBusy`). The tour
that is planned next starts at the place that the store has. `HeardStands` and
`SaidStands` say that the last thing heard of a robot after its tour, and each
thing on the way that could become it, is where the robot stands and will wait;
only a robot with a low battery goes away by itself, and of that one the store
knows that it is low when it has its report, as the heartbeat goes out before.
`OrderStands` is the property, `OfferStands` the same for the candidates of a
round, which are a snapshot. The invariant holds while nothing was reclaimed;
`CountedIsKnown` says that a reclaim, once counted, is never forgotten again.

`FleetPathProofs`. `ShortestTours` proves `ToursAreShortest` for a grid of any
size, from `FinderIsShortest`: joining two shortest legs repeats no node, keeps
to the edges and has no step too many (`ShortTourLemma`), and a channel changes
no tour (`Channels`). That A* is such a path finder is what recursive functions
compute; TLC checks it for several grids.

Only model-checked, as liveness under fairness is out of the prover's reach:
`AssignmentEnds`, `NoStarvation`, `ConnectionEnds`, `ChannelDrains`,
`JamsEnd`, `DrainedReturns` and `BusyEnds`. So is what recursive functions
compute: A* (`PathsAreShortest`), and with it the order of its heap
(`RootsAreCompared`, `HeapIsOrdered`), and the reader of a whole stream
(`FramesSurviveCuts`). Every other property of a passing run is a theorem.

## Not modelled, and the plan

* Back pressure on the runtime: `submit_task` and `report_complete` block a
  worker while the event channel is full (scheduler.rs 50). Planned as
  `EventBackpressure`, with workers as a resource, the scheduler as one of the
  tasks that need one, and the question whether it always gets one.
* Trails, routes for display, and the monotone counters of the store with the
  metrics that sample them: nothing reads them back. The samples are torn (each
  counter is read by itself), which only shows in the display.
* `main.rs`, `bin/headless.rs`, `ui/`: rendering and controls. What they do to the
  core is in the models: they submit tasks, abort and launch robots, stop the
  scheduler.
* `service.rs` beyond the grid map: it wires the parts together.

Worth proving next: the step lemmas of A* (`Expand` keeps `g_score` an upper bound
that some path attains), which need no recursion; that `RootLess` compares any
two estimates, and `Before` orders any heap; and that `Codec`'s
reader of a stream, stated as a state machine, keeps in step with the writer.

-------------------------- MODULE ConflictAnalysis --------------------------
(***************************************************************************)
(* Deadlock detection (src/src/engine/conflict.rs) and its use by the      *)
(* scheduler (resolve_deadlocks and pick_victim of engine/scheduler.rs).   *)
(* A frame takes a snapshot of the fleet, derives who waits for whom,      *)
(* searches the graph depth-first for cycles, and then takes the task of   *)
(* one robot of each cycle away.                                           *)
(*                                                                         *)
(* The search is a state machine: its recursion is the stack `path`, with  *)
(* what each robot on it has still to look at in `rest`.  Roots come out   *)
(* of a hash map and neighbours in the order of the snapshot, which is     *)
(* that of another, so the model takes both in any order.                  *)
(*                                                                         *)
(* Robots stay where they are and get no new task: the frames of a run     *)
(* show what the resolution does to one jam.                               *)
(***************************************************************************)
EXTENDS Integers, Sequences, Functions

CONSTANTS
    Robots,     \* RobotId, numbers: ties go to the largest
    Nodes,      \* NodeId
    NoNode,     \* target is None
    Priorities, \* effective priorities, numbers
    Low,        \* the least of them
    MaxCycles   \* MAX_CYCLES: where the search stops

ASSUME RobotsAssumption == Robots \subseteq Nat
ASSUME NodesAssumption == NoNode \notin Nodes
ASSUME PrioritiesAssumption == Priorities \subseteq Nat /\ Low \in Priorities
ASSUME MaxCyclesAssumption == MaxCycles \in Nat \ {0}

VARIABLES
    status,    \* as the store has it
    node,      \* the node a robot stands on: robots report no other places
    target,    \* the goal of its task
    pc,        \* "analyze", "search" or "resolve"
    adj,       \* the wait-for graph of the snapshot
    roots,     \* robots the search has yet to start from
    color,     \* "white", "grey" (on the path) or "black" (done)
    path,      \* robots from the root to where the search is
    rest,      \* neighbours of a robot on the path not yet looked at
    result,    \* deadlock_cycles
    priority,  \* effective priorities of the robots' tasks when resolving
    resolved   \* how many of these are resolved

fleetVars == <<status, node, target>>
searchVars == <<adj, roots, color, path, rest, result>>
vars == <<fleetVars, searchVars, pc, priority, resolved>>

\* A bound robot has a target, and is Busy (theorem Bound of Scheduler).  A
\* robot that was released may report that it is Busy and has no target.
TypeOK ==
    /\ status \in [Robots -> {"Idle", "Busy", "Offline"}]
    /\ node \in [Robots -> Nodes]
    /\ target \in [Robots -> Nodes \cup {NoNode}]
    /\ pc \in {"analyze", "search", "resolve"}
    /\ adj \in [Robots -> SUBSET Robots]
    /\ roots \subseteq Robots
    /\ color \in [Robots -> {"white", "grey", "black"}]
    /\ path \in Seq(Robots)
    /\ rest \in [Robots -> SUBSET Robots]
    /\ result \in Seq(Seq(Robots))
    /\ priority \in [Robots -> Priorities]
    /\ resolved \in 0..Len(result)

Init ==
    /\ status \in [Robots -> {"Idle", "Busy", "Offline"}]
    /\ node \in [Robots -> Nodes]
    /\ target \in [Robots -> Nodes \cup {NoNode}]
    /\ \A r \in Robots : status[r] # "Busy" => target[r] = NoNode
    /\ pc = "analyze"
    /\ adj = [r \in Robots |-> {}]
    /\ roots = {}
    /\ color = [r \in Robots |-> "white"]
    /\ path = <<>>
    /\ rest = [r \in Robots |-> {}]
    /\ result = <<>>
    /\ priority = [r \in Robots |-> Low]
    /\ resolved = 0

----------------------------------------------------------------------------
(* The wait-for graph.                                                     *)

\* Robots that are off line occupy nothing.
Occupancy(n) ==
    {r \in Robots : status[r] # "Offline" /\ node[r] = n}

\* A busy robot waits for all others on the node it is bound for.
WaitsFor(b) ==
    IF status[b] = "Busy" /\ target[b] # NoNode
    THEN Occupancy(target[b]) \ {b} ELSE {}

\* all_robots and analyze, up to find_cycles.
Analyze ==
    /\ pc = "analyze"
    /\ adj' = [b \in Robots |-> WaitsFor(b)]
    /\ roots' = {b \in Robots : WaitsFor(b) # {}}
    /\ pc' = "search"
    /\ UNCHANGED <<fleetVars, color, path, rest, result, priority, resolved>>

----------------------------------------------------------------------------
(* find_cycles and dfs.                                                    *)

\* Where the search is.
Top == path[Len(path)]

\* dfs is called for r.
Enter(r) ==
    /\ color' = [color EXCEPT ![r] = "grey"]
    /\ path' = Append(path, r)

TakeRoot(r) ==
    /\ pc = "search" /\ path = <<>> /\ Len(result) < MaxCycles
    /\ r \in roots
    /\ roots' = roots \ {r}
    /\ IF color[r] = "black"
       THEN UNCHANGED <<color, path, rest>>
       ELSE Enter(r) /\ rest' = [rest EXCEPT ![r] = adj[r]]
    /\ UNCHANGED <<fleetVars, pc, adj, result, priority, resolved>>

\* A neighbour that was not visited, if there is room for another cycle.
Descend(v) ==
    /\ pc = "search" /\ path # <<>>
    /\ v \in rest[Top] /\ color[v] = "white" /\ Len(result) < MaxCycles
    /\ Enter(v)
    /\ rest' = [rest EXCEPT ![Top] = @ \ {v}, ![v] = adj[v]]
    /\ UNCHANGED <<fleetVars, pc, adj, roots, result, priority, resolved>>

\* Otherwise the loop over the neighbours is left.
Break(v) ==
    /\ pc = "search" /\ path # <<>>
    /\ v \in rest[Top] /\ color[v] = "white" /\ Len(result) >= MaxCycles
    /\ rest' = [rest EXCEPT ![Top] = {}]
    /\ UNCHANGED <<fleetVars, pc, adj, roots, color, path, result, priority,
                   resolved>>

\* The position of a robot that is on the path.
Position(v) == CHOOSE i \in 1..Len(path) : path[i] = v

MutantCycle(v) == path

\* From v to where the search is.
Cycle(v) == SubSeq(path, Position(v), Len(path))

\* Cycles are told apart by the robots on them.
Seen(c) == \E i \in 1..Len(result) : Range(result[i]) = Range(c)

MutantCloseCycle(v) ==
    /\ pc = "search" /\ path # <<>>
    /\ v \in rest[Top] /\ color[v] = "grey"
    /\ result' = IF Seen(Cycle(v)) \/ v # path[1]
                 THEN result ELSE Append(result, Cycle(v))
    /\ rest' = [rest EXCEPT ![Top] = @ \ {v}]
    /\ UNCHANGED <<fleetVars, pc, adj, roots, color, path, priority, resolved>>

\* An edge back to a robot on the path closes a cycle.
CloseCycle(v) ==
    /\ pc = "search" /\ path # <<>>
    /\ v \in rest[Top] /\ color[v] = "grey"
    /\ result' = IF Seen(Cycle(v)) THEN result ELSE Append(result, Cycle(v))
    /\ rest' = [rest EXCEPT ![Top] = @ \ {v}]
    /\ UNCHANGED <<fleetVars, pc, adj, roots, color, path, priority, resolved>>

SkipDone(v) ==
    /\ pc = "search" /\ path # <<>>
    /\ v \in rest[Top] /\ color[v] = "black"
    /\ rest' = [rest EXCEPT ![Top] = @ \ {v}]
    /\ UNCHANGED <<fleetVars, pc, adj, roots, color, path, result, priority,
                   resolved>>

\* dfs returns.
Retreat ==
    /\ pc = "search" /\ path # <<>> /\ rest[Top] = {}
    /\ color' = [color EXCEPT ![Top] = "black"]
    /\ path' = SubSeq(path, 1, Len(path) - 1)
    /\ UNCHANGED <<fleetVars, pc, adj, roots, rest, result, priority, resolved>>

\* deadlock_robots.
Deadlocked == UNION {Range(result[k]) : k \in 1..Len(result)}

\* What priorities the tasks have by now; those of robots on no cycle are
\* read by nobody.
EndSearch ==
    /\ pc = "search" /\ path = <<>>
    /\ roots = {} \/ Len(result) >= MaxCycles
    /\ priority' \in [Robots -> Priorities]
    /\ \A r \in Robots :
            r \notin Deadlocked => priority'[r] = Low
    /\ roots' = {}
    /\ color' = [r \in Robots |-> "white"]
    /\ rest' = [r \in Robots |-> {}]
    /\ pc' = "resolve"
    /\ UNCHANGED <<fleetVars, adj, path, result, resolved>>

----------------------------------------------------------------------------
(* resolve_deadlocks.                                                      *)

MutantYields(a, b) ==
    \/ priority[a] > priority[b]
    \/ priority[a] = priority[b] /\ a >= b

\* a has to give way rather than b.
Yields(a, b) ==
    \/ priority[a] < priority[b]
    \/ priority[a] = priority[b] /\ a >= b

\* pick_victim.
Victim(c) == CHOOSE a \in Range(c) : \A b \in Range(c) : Yields(a, b)

MutantParole ==
    /\ pc = "resolve" /\ resolved < Len(result)
    /\ LET v == Victim(result[resolved + 1])
       IN  IF target[v] # NoNode /\ priority[v] = Low
           THEN /\ target' = [target EXCEPT ![v] = NoNode]
                /\ status' = [status EXCEPT ![v] = "Idle"]
           ELSE UNCHANGED <<target, status>>
    /\ resolved' = resolved + 1
    /\ UNCHANGED <<node, searchVars, pc, priority>>

\* parole_robot, for the next cycle of the report.  The task is that of the
\* snapshot: a robot that gave way to an earlier cycle has lost it already.
Parole ==
    /\ pc = "resolve" /\ resolved < Len(result)
    /\ LET v == Victim(result[resolved + 1])
       IN  IF target[v] # NoNode
           THEN /\ target' = [target EXCEPT ![v] = NoNode]
                /\ status' = [status EXCEPT ![v] = "Idle"]
           ELSE UNCHANGED <<target, status>>
    /\ resolved' = resolved + 1
    /\ UNCHANGED <<node, searchVars, pc, priority>>

MutantEndFrame ==
    /\ pc = "resolve" /\ resolved = Len(result)
    /\ adj' = [r \in Robots |-> {}]
    /\ result' = <<>>
    /\ priority' = [r \in Robots |-> Low]
    /\ pc' = "analyze"
    /\ UNCHANGED <<fleetVars, roots, color, path, rest, resolved>>

EndFrame ==
    /\ pc = "resolve" /\ resolved = Len(result)
    /\ adj' = [r \in Robots |-> {}]
    /\ result' = <<>>
    /\ priority' = [r \in Robots |-> Low]
    /\ resolved' = 0
    /\ pc' = "analyze"
    /\ UNCHANGED <<fleetVars, roots, color, path, rest>>

----------------------------------------------------------------------------

Look(v) == Descend(v) \/ Break(v) \/ CloseCycle(v) \/ SkipDone(v)

Next ==
    \/ Analyze
    \/ \E r \in Robots : TakeRoot(r) \/ Look(r)
    \/ Retreat
    \/ EndSearch
    \/ Parole
    \/ EndFrame

Spec == Init /\ [][Next]_vars

\* The scheduler task goes on from tick to tick.
FairSpec == Spec /\ WF_vars(Next)

----------------------------------------------------------------------------
(* What the analysis promises.                                             *)

\* v can be reached from u along one edge of g, or more.
Reaches(g, u, v) ==
    \A S \in SUBSET Robots :
        (g[u] \subseteq S /\ \A w \in S : g[w] \subseteq S) => v \in S

(* What is reported as a deadlock is one: at least two robots, all         *)
(* different, each waiting for the next and the last for the first.  The   *)
(* code sees colours and a path only; that there is an edge from one robot *)
(* of the path to the next is nowhere looked up.                           *)
CyclesAreReal ==
    \A k \in 1..Len(result) :
        LET c == result[k]
        IN  /\ Len(c) >= 2
            /\ \A i, j \in 1..Len(c) : c[i] = c[j] => i = j
            /\ \A i \in 1..(Len(c) - 1) : c[i + 1] \in adj[c[i]]
            /\ c[1] \in adj[c[Len(c)]]

(* The search does not find every cycle, as it looks at a robot once only. *)
(* But of robots that wait for each other it reports at least one cycle,   *)
(* unless it stopped at the limit: a robot that waits for itself in the    *)
(* end waits for, and is waited for by, all robots of a reported cycle.    *)
NoJamMissed ==
    pc = "resolve" /\ Len(result) < MaxCycles =>
        \A r \in Robots : Reaches(adj, r, r) =>
            \E k \in 1..Len(result) : \A s \in Range(result[k]) :
                Reaches(adj, r, s) /\ Reaches(adj, s, r)

(* A frame makes headway with every jam it saw: when its reports are       *)
(* resolved, one of the robots that wait for each other is bound nowhere.  *)
(* The victims are chosen by what the snapshot said, and one of them may   *)
(* have lost its task to an earlier report of the same frame.              *)
EveryJamGivesWay ==
    pc = "resolve" /\ resolved = Len(result) /\ Len(result) < MaxCycles =>
        \A r \in Robots : Reaches(adj, r, r) =>
            \E s \in Robots : /\ Reaches(adj, r, s) /\ Reaches(adj, s, r)
                             /\ target[s] = NoNode

(* An urgent task is not taken away for a lesser one: who loses its task   *)
(* is on a deadlock with nobody whose priority is lower.                   *)
LeastUrgentGivesWay ==
    [][\A r \in Robots : target[r] # NoNode /\ target'[r] = NoNode =>
          \E k \in 1..Len(result) :
              /\ r \in Range(result[k])
              /\ \A s \in Range(result[k]) : priority[s] >= priority[r]]_vars

(* Nobody moves, and yet the jams come to an end: whatever cycles a frame  *)
(* misses or cuts off, in the end nobody waits for himself.                *)
JamsEnd ==
    <>[](\A r \in Robots : ~Reaches([b \in Robots |-> WaitsFor(b)], r, r))
=============================================================================

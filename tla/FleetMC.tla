------------------------------ MODULE FleetMC ------------------------------
(* Small fleets on small grids for model-checking Fleet, with A* as the    *)
(* path finder.                                                            *)
EXTENDS Fleet, Pathfinding

AStarPaths == [p \in NodeId \X NodeId |-> find_path(p[1], p[2])]
Chargers == [n \in NodeId |-> nearest_charger(n)]
Straight == [p \in NodeId \X NodeId |-> distance_to(p[1], p[2])]

\* The same on a map of one row, where there is but one way.  The run with
\* fairness takes it: it costs TLC less than a search wherever it asks whether
\* an action is enabled.
RowPath(a, b) == [i \in 1..(Abs(a - b) + 1) |-> IF a <= b THEN a + i - 1
                                                         ELSE a - i + 1]
RowPaths == [p \in NodeId \X NodeId |-> RowPath(p[1], p[2])]
ASSUME RowsAreSearched == Rows = 1 => RowPaths = AStarPaths

\* From one corner to the opposite one, and one that ends where it begins.
SomeGoals == [t \in Tasks |->
    IF t = 1 THEN [pickup |-> 0, dropoff |-> Cols * Rows - 1]
             ELSE [pickup |-> 1, dropoff |-> 1]]

\* A* and its heap against the references, on grids larger than a fleet can be
\* checked on.
Wide == INSTANCE Pathfinding WITH Cols <- 4, Rows <- 3
Tall == INSTANCE Pathfinding WITH Cols <- 2, Rows <- 5
ASSUME WideRootsAreCompared == Wide!RootsAreCompared
ASSUME TallRootsAreCompared == Tall!RootsAreCompared
ASSUME WideHeapIsOrdered == Wide!HeapIsOrdered
ASSUME TallHeapIsOrdered == Tall!HeapIsOrdered
ASSUME WidePathsAreShortest == Wide!PathsAreShortest
ASSUME TallPathsAreShortest == Tall!PathsAreShortest

\* The path finder of the fleet finds shortest paths on its map: what theorem
\* ShortestTours takes of it, here for the grid of the run.
FinderIsShortest ==
    /\ Nodes = NodeId
    /\ \A a, b \in NodeId : IsShortest(FindPath[<<a, b>>], a, b)
ASSUME GridIsSearched == FinderIsShortest

\* What a robot is sent is a tour: node by node along edges of the map to the
\* pickup and on to the dropoff, each leg as short as the grid allows and the
\* pickup not driven twice (plan_task_route and A* under it).
ToursAreShortest ==
    \A r \in Robots : \A i \in DOMAIN down[r] :
        LET a == down[r][i]
            g == Goals[a.task]
            legs == Manhattan(Head(a.path), g.pickup)
                        + Manhattan(g.pickup, g.dropoff)
        IN  /\ \A k \in 1..(Len(a.path) - 1) :
                    a.path[k + 1] \in edges_from(a.path[k])
            /\ Len(a.path) = legs + 1
            /\ a.path[Manhattan(Head(a.path), g.pickup) + 1] = g.pickup
            /\ a.path[Len(a.path)] = g.dropoff
=============================================================================

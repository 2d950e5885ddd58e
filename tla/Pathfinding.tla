---------------------------- MODULE Pathfinding ----------------------------
(***************************************************************************)
(* The road map and the ways on it: the grid that the service builds       *)
(* (src/src/service.rs), A* (src/src/engine/pathfinding.rs), the tour of a *)
(* transport task (src/src/engine/scheduler.rs) and the chargers.          *)
(*                                                                         *)
(* A node is its NodeId, row by row from 0; its coordinates are its column *)
(* and its row, so a Location is a node here.  Every edge costs 1.  The    *)
(* estimates of A* are reals g + sqrt(d): they are compared exactly, by    *)
(* squaring, where the code compares them in f32.  On small grids that is  *)
(* the same: a root that is a whole number is exact in f32, two other      *)
(* estimates are equal only when both terms are, and what differs does so  *)
(* by more than f32 rounds.                                                *)
(***************************************************************************)
EXTENDS Integers, Sequences

CONSTANTS Cols, Rows  \* arguments of build_grid_map

ASSUME GridAssumption == Cols \in Nat \ {0} /\ Rows \in Nat \ {0}

NodeId == 0..(Cols * Rows - 1)
X(n) == n % Cols
Y(n) == n \div Cols

Abs(i) == IF i < 0 THEN -i ELSE i
Manhattan(a, b) == Abs(X(a) - X(b)) + Abs(Y(a) - Y(b))

\* Location::distance_to, squared: what is compared is the same.
distance_to(a, b) ==
    (X(a) - X(b)) * (X(a) - X(b)) + (Y(a) - Y(b)) * (Y(a) - Y(b))

\* build_grid_map joins each node with its neighbours, both ways.
edges_from(n) ==
    {m \in NodeId : \/ Y(m) = Y(n) /\ X(m) \in {X(n) - 1, X(n) + 1}
                    \/ X(m) = X(n) /\ Y(m) \in {Y(n) - 1, Y(n) + 1}}

----------------------------------------------------------------------------
(* A*.  A search is the record of what find_path keeps in its variables:   *)
(* g_score (Infinity where there is no entry), came_from, and the heap     *)
(* `open`, whose entries keep the g they were pushed with.                 *)

Infinity == Cols * Rows

\* sqrt(c) < e + sqrt(d), for integers c, d >= 0 and e: the root that has a
\* positive e beside it is squared with it.
RootLess(c, d, e) ==
    LET right == c - d - e * e  \* to be less than 2 * e * sqrt(d)
        left == d - c - e * e   \* to be more than -2 * e * sqrt(c)
    IN  IF e >= 0 THEN right < 0 \/ right * right < 4 * e * e * d
                  ELSE left > 0 /\ left * left > 4 * e * e * c

\* The order of OpenNode: the estimate, then the node.
Before(o, p, goal) ==
    LET c == distance_to(o.node, goal)
        d == distance_to(p.node, goal)
    IN  \/ RootLess(c, d, p.g - o.g)
        \/ ~RootLess(d, c, o.g - p.g) /\ o.node < p.node

First(open, goal) ==
    CHOOSE o \in open : \A p \in open \ {o} : Before(o, p, goal)

Start(start) ==
    [g |-> [n \in NodeId |-> IF n = start THEN 0 ELSE Infinity],
     came_from |-> [n \in NodeId |-> n],
     open |-> {[node |-> start, g |-> 0]}]

\* One turn of the loop: pop, and improve what can be reached from there.
Expand(s, goal) ==
    LET o == First(s.open, goal)
        tentative == s.g[o.node] + 1
        better == {n \in edges_from(o.node) : tentative < s.g[n]}
    IN  [g |-> [n \in NodeId |-> IF n \in better THEN tentative ELSE s.g[n]],
         came_from |-> [n \in NodeId |-> IF n \in better THEN o.node
                                                         ELSE s.came_from[n]],
         open |-> (s.open \ {o})
                    \cup {[node |-> n, g |-> tentative] : n \in better}]

\* The loop ends when the goal comes out of the heap.  A grid is connected,
\* so the heap never runs empty before that.  Turns bounds the loop:
\* PathsAreShortest would be false if it cut a search short.
Turns == 2 * Infinity
Found(s, goal) == First(s.open, goal).node = goal

Search(start, goal) ==
    LET after[k \in 0..Turns] ==
            IF k = 0 THEN Start(start)
            ELSE LET s == after[k - 1]
                 IN  IF Found(s, goal) THEN s ELSE Expand(s, goal)
    IN  after[Turns]

\* The way back from n over the predecessors, turned round.
reconstruct(came_from, goal, start) ==
    LET to[k \in 1..Infinity] ==  \* the last k nodes of the path, or all of it
            IF k = 1 THEN <<goal>>
            ELSE LET path == to[k - 1]
                 IN  IF Head(path) = start THEN path
                     ELSE <<came_from[Head(path)]>> \o path
    IN  to[Infinity]

find_path(start, goal) ==
    IF start = goal THEN <<start>>
    ELSE reconstruct(Search(start, goal).came_from, goal, start)

----------------------------------------------------------------------------
(* Chargers.                                                               *)

\* The corners of the map, each once (on a single row or column there are
\* fewer than four).
charger_nodes ==
    LET corners == <<0, Cols - 1, Cols * (Rows - 1), Cols * Rows - 1>>
        New(i) == \A j \in 1..(i - 1) : corners[j] # corners[i]
        Keep[i \in 0..4] == IF i = 0 THEN <<>>
                            ELSE IF New(i) THEN Append(Keep[i - 1], corners[i])
                            ELSE Keep[i - 1]
    IN  Keep[4]

\* The first of those that are nearest in a straight line.
nearest_charger(from) ==
    LET D(i) == distance_to(charger_nodes[i], from)
    IN  charger_nodes[CHOOSE i \in DOMAIN charger_nodes :
                        \A j \in DOMAIN charger_nodes :
                            D(i) < D(j) \/ (D(i) = D(j) /\ i <= j)]

----------------------------------------------------------------------------
(* The references.  Estimates are compared with roots in thousandths, which *)
(* tell all estimates of a small grid apart; on a grid a path is shortest  *)
(* when it has as many steps as its ends are apart.                        *)

Thousandths(c) ==
    CHOOSE k \in 0..(1000 * (Cols + Rows)) :
        k * k <= 1000000 * c /\ 1000000 * c < (k + 1) * (k + 1)

\* RootLess compares the estimates of any two nodes of the grid.
RootsAreCompared ==
    \A c, d \in {distance_to(0, n) : n \in NodeId} :
        LET left == Thousandths(c)
            right == Thousandths(d)
        IN  \A e \in (-Infinity)..Infinity :
                RootLess(c, d, e) <=> left < 1000 * e + right

\* So the heap has a first entry: of two, one comes before the other, the
\* smaller node when the estimates are the same.
HeapIsOrdered ==
    \A goal \in NodeId :
        \A o, p \in [node : NodeId, g : 0..(Cols + Rows)] :
            LET c == distance_to(o.node, goal)
                d == distance_to(p.node, goal)
            IN  /\ ~(Before(o, p, goal) /\ Before(p, o, goal))
                /\ o # p => Before(o, p, goal) \/ Before(p, o, goal)
                /\ o.g = p.g /\ c = d => (Before(o, p, goal) <=> o.node < p.node)

IsShortest(path, a, b) ==
    /\ path # <<>>
    /\ Head(path) = a /\ path[Len(path)] = b
    /\ \A i \in 1..(Len(path) - 1) : Manhattan(path[i], path[i + 1]) = 1
    /\ Len(path) = Manhattan(a, b) + 1

\* find_path finds a shortest path between any two nodes of the grid
\* ("A* 能找到最优路径", src/src/engine/pathfinding.rs:44).
PathsAreShortest ==
    \A a, b \in NodeId : IsShortest(find_path(a, b), a, b)
=============================================================================

-------------------------- MODULE FleetPathProofs --------------------------
(* The tours that robots are sent on a grid of any size are shortest ones, *)
(* if the path finder finds shortest paths: joining the legs loses nothing *)
(* and no tour is changed on its way.  Checked by TLAPS.                   *)
EXTENDS FleetMC, FleetProofs

USE NodeAssumption, GoalsAssumption

(* What ToursAreShortest asks of one assignment.                           *)
ShortTour(a) ==
    LET g == Goals[a.task]
        legs == Manhattan(Head(a.path), g.pickup)
                    + Manhattan(g.pickup, g.dropoff)
    IN  /\ \A k \in 1..(Len(a.path) - 1) :
                a.path[k + 1] \in edges_from(a.path[k])
        /\ Len(a.path) = legs + 1
        /\ a.path[Manhattan(Head(a.path), g.pickup) + 1] = g.pickup
        /\ a.path[Len(a.path)] = g.dropoff

----------------------------------------------------------------------------
(* The grid.                                                               *)

LEMMA Coordinates ==
    ASSUME NEW n \in NodeId PROVE X(n) \in Int /\ Y(n) \in Int
<1>1. n \in Int /\ Cols \in Nat \ {0}
  BY GridAssumption DEF NodeId
<1>2. n % Cols \in Int
  BY <1>1
<1>3. n \div Cols \in Int
  BY <1>1
<1> QED
  BY <1>2, <1>3 DEF X, Y

(* Distances are numbers, and who is where he wants to be has none to go.  *)
LEMMA Distances ==
    ASSUME NEW a \in NodeId, NEW b \in NodeId
    PROVE  Manhattan(a, b) \in Nat /\ Manhattan(a, a) = 0
<1>1. X(a) \in Int /\ Y(a) \in Int /\ X(b) \in Int /\ Y(b) \in Int
  BY Coordinates
<1>2. \A i \in Int : Abs(i) \in Nat
  BY DEF Abs
<1>3. Manhattan(a, b) \in Nat
  BY <1>1, <1>2 DEF Manhattan
<1>4. Manhattan(a, a) = 0
  BY <1>1 DEF Manhattan, Abs
<1> QED
  BY <1>3, <1>4

(* Nodes at a distance of one are joined by an edge.                       *)
LEMMA NextDoor ==
    ASSUME NEW a \in NodeId, NEW b \in NodeId, Manhattan(a, b) = 1
    PROVE  b \in edges_from(a)
<1>1. X(a) \in Int /\ Y(a) \in Int /\ X(b) \in Int /\ Y(b) \in Int
  BY Coordinates
<1> DEFINE i == X(a) - X(b)
           j == Y(a) - Y(b)
<1>2. i \in Int /\ j \in Int
  BY <1>1
<1>3. Abs(i) + Abs(j) = 1
  BY DEF Manhattan
<1>4. \A u, v \in Int :
        Abs(u) + Abs(v) = 1 => \/ v = 0 /\ u \in {1, -1}
                               \/ u = 0 /\ v \in {1, -1}
  BY DEF Abs
<1>5. \/ j = 0 /\ i \in {1, -1}
      \/ i = 0 /\ j \in {1, -1}
  <2> HIDE DEF i, j
  <2> QED
    BY <1>2, <1>3, <1>4
<1>6. \/ Y(b) = Y(a) /\ X(b) \in {X(a) - 1, X(a) + 1}
      \/ X(b) = X(a) /\ Y(b) \in {Y(a) - 1, Y(a) + 1}
  BY <1>1, <1>5
<1> QED
  BY <1>6 DEF edges_from

----------------------------------------------------------------------------
(* The tour.                                                               *)

(* One leg: as many steps as its ends are apart, each along an edge.       *)
LEMMA LegLemma ==
    ASSUME FinderIsShortest, NEW a \in Nodes, NEW b \in Nodes
    PROVE  LET leg == FindPath[<<a, b>>]
           IN  /\ leg \in Seq(Nodes) /\ leg # <<>>
               /\ leg[1] = a /\ leg[Len(leg)] = b
               /\ Len(leg) = Manhattan(a, b) + 1
               /\ \A k \in 1..(Len(leg) - 1) : leg[k + 1] \in edges_from(leg[k])
<1> DEFINE leg == FindPath[<<a, b>>]
<1>1. leg \in Seq(Nodes) /\ Nodes = NodeId
  BY PathfinderAssumption DEF FinderIsShortest
<1>2. /\ leg # <<>> /\ Head(leg) = a /\ leg[Len(leg)] = b
      /\ \A i \in 1..(Len(leg) - 1) : Manhattan(leg[i], leg[i + 1]) = 1
      /\ Len(leg) = Manhattan(a, b) + 1
  BY DEF FinderIsShortest, IsShortest
<1> HIDE DEF leg
<1>3. leg[1] = a
  BY <1>1, <1>2, TailLemma
<1>4. ASSUME NEW k \in 1..(Len(leg) - 1) PROVE leg[k + 1] \in edges_from(leg[k])
  <2>1. k \in 1..Len(leg) /\ k + 1 \in 1..Len(leg)
    BY <1>1, EmptyLemma
  <2>2. leg[k] \in NodeId /\ leg[k + 1] \in NodeId
    BY <1>1, <2>1
  <2> QED
    BY <1>2, <2>2, NextDoor
<1> QED
  BY <1>1, <1>2, <1>3, <1>4 DEF leg

(* plan_task_route: two shortest legs, and the node where they meet once.  *)
LEMMA ShortTourLemma ==
    ASSUME FinderIsShortest, NEW n \in Nodes, NEW t \in Tasks, NEW x
    PROVE  ShortTour(TaskAssign(t, plan_task_route(n, Goals[t]), x))
<1> DEFINE p == Goals[t].pickup
           d == Goals[t].dropoff
           leg1 == FindPath[<<n, p>>]
           leg2 == FindPath[<<p, d>>]
           tour == plan_task_route(n, Goals[t])
<1>1. p \in Nodes /\ d \in Nodes /\ Nodes = NodeId
  BY DEF FinderIsShortest
<1>2. SUFFICES /\ \A k \in 1..(Len(tour) - 1) : tour[k + 1] \in edges_from(tour[k])
               /\ Head(tour) = n
               /\ Len(tour) = Manhattan(n, p) + Manhattan(p, d) + 1
               /\ tour[Manhattan(n, p) + 1] = p
               /\ tour[Len(tour)] = d
  <2> DEFINE a == TaskAssign(t, tour, x)
  <2>1. a.task = t /\ a.path = tour
    BY DEF TaskAssign
  <2> HIDE DEF a, tour
  <2>2. ShortTour(a)
    BY <1>2, <2>1 DEF ShortTour
  <2> QED
    BY <2>2 DEF a, tour
<1>3. /\ leg1 \in Seq(Nodes) /\ leg1 # <<>>
      /\ leg1[1] = n /\ leg1[Len(leg1)] = p
      /\ Len(leg1) = Manhattan(n, p) + 1
      /\ \A k \in 1..(Len(leg1) - 1) : leg1[k + 1] \in edges_from(leg1[k])
  BY <1>1, LegLemma
<1>4. /\ leg2 \in Seq(Nodes) /\ leg2 # <<>>
      /\ leg2[1] = p /\ leg2[Len(leg2)] = d
      /\ Len(leg2) = Manhattan(p, d) + 1
      /\ \A k \in 1..(Len(leg2) - 1) : leg2[k + 1] \in edges_from(leg2[k])
  BY <1>1, LegLemma
<1>5. tour = IF p = d THEN leg1 ELSE leg1 \o Tail(leg2)
  BY DEF plan_task_route
<1>6. /\ Manhattan(n, p) \in Nat /\ Manhattan(p, d) \in Nat
      /\ Manhattan(p, p) = 0
  BY <1>1, Distances
<1> HIDE DEF p, d, leg1, leg2, tour
<1>7. CASE p = d
  <2>1. Head(leg1) = leg1[1]
    BY <1>3, TailLemma
  <2> QED
    BY <1>3, <1>5, <1>6, <1>7, <2>1
<1>8. CASE p # d
  <2> DEFINE rest == Tail(leg2)
  <2>1. /\ rest \in Seq(Nodes)
        /\ Len(rest) = Len(leg2) - 1
        /\ \A k \in 1..Len(rest) : rest[k] = leg2[k + 1]
    BY <1>4, TailLemma
  <2>2. tour = leg1 \o rest
    BY <1>5, <1>8
  <2> HIDE DEF rest
  <2>3. /\ tour \in Seq(Nodes)
        /\ Len(tour) = Len(leg1) + Len(rest)
        /\ \A k \in 1..Len(leg1) : tour[k] = leg1[k]
        /\ \A k \in 1..Len(rest) : tour[Len(leg1) + k] = rest[k]
    <3> DEFINE path == leg1 \o rest
    <3>1. leg1 \in Seq(Nodes) /\ rest \in Seq(Nodes)
      BY <1>3, <2>1
    <3>2. /\ path \in Seq(Nodes)
          /\ Len(path) = Len(leg1) + Len(rest)
          /\ \A k \in 1..Len(leg1) : path[k] = leg1[k]
          /\ \A k \in 1..Len(rest) : path[Len(leg1) + k] = rest[k]
      BY <3>1, ConcatLemma
    <3> HIDE DEF path
    <3>3. tour = path
      BY <2>2 DEF path
    <3> QED
      BY <3>2, <3>3
  <2> DEFINE M == Len(leg1)
             N == Len(rest)
  <2>4. /\ M \in Nat /\ M = Manhattan(n, p) + 1
        /\ N \in Nat /\ N = Manhattan(p, d)
    BY <1>3, <1>4, <1>6, <2>1
  <2>5. N # 0
    <3>1. Len(leg2) = N + 1
      BY <1>4, <2>4
    <3>2. ASSUME N = 0 PROVE FALSE
      <4>1. Len(leg2) = 1
        BY <3>1, <3>2
      <4>2. p = d
        BY <1>4, <4>1
      <4> QED
        BY <1>8, <4>2
    <3> QED
      BY <3>2
  <2>6. /\ Len(tour) = M + N
        /\ \A k \in 1..M : tour[k] = leg1[k]
        /\ leg1[M] = p /\ leg2[N + 1] = d
        /\ \A k \in 1..(M - 1) : leg1[k + 1] \in edges_from(leg1[k])
    BY <1>3, <1>4, <2>3, <2>4
  <2>7. \A k \in 1..N : tour[M + k] = leg2[k + 1]
    BY <2>1, <2>3
  <2>8. \A k \in 1..N : leg2[k + 1] \in edges_from(leg2[k])
    <3>1. Len(leg2) - 1 = N
      BY <1>4, <2>4
    <3> QED
      BY <1>4, <3>1
  <2>9. Head(tour) = tour[1]
    <3>1. tour # <<>>
      <4>1. Len(tour) # 0
        BY <1>6, <2>4, <2>6
      <4> QED
        BY <2>3, <4>1, EmptyLemma
    <3> QED
      BY <2>3, <3>1, TailLemma
  <2> HIDE DEF M, N
  <2>10. Head(tour) = n /\ tour[M] = p /\ tour[M + N] = d
    <3>1. 1 \in 1..M /\ M \in 1..M /\ N \in 1..N
      BY <1>6, <2>4, <2>5
    <3>2. tour[1] = leg1[1] /\ tour[M] = leg1[M] /\ tour[M + N] = leg2[N + 1]
      BY <2>6, <2>7, <3>1
    <3> QED
      BY <1>3, <2>6, <2>9, <3>2
  <2>11. ASSUME NEW k \in 1..(M + N - 1) PROVE tour[k + 1] \in edges_from(tour[k])
    <3>1. CASE k < M
      <4>1. k \in 1..(M - 1) /\ k \in 1..M /\ k + 1 \in 1..M
        BY <2>4, <3>1
      <4> QED
        BY <2>6, <4>1
    <3>2. CASE k = M
      <4>1. tour[k + 1] = leg2[1 + 1] /\ leg2[1 + 1] \in edges_from(leg2[1])
        BY <2>4, <2>5, <2>7, <2>8, <3>2
      <4> QED
        BY <1>4, <2>10, <3>2, <4>1
    <3>3. CASE k > M
      <4> DEFINE l == k - M
      <4>1. /\ l \in 1..N /\ l + 1 \in 1..N
            /\ k = M + l /\ k + 1 = M + (l + 1)
        BY <2>4, <3>3
      <4> HIDE DEF l
      <4>2. tour[M + l] = leg2[l + 1] /\ tour[M + (l + 1)] = leg2[(l + 1) + 1]
        BY <2>7, <4>1
      <4>3. leg2[(l + 1) + 1] \in edges_from(leg2[l + 1])
        BY <2>8, <4>1
      <4> QED
        BY <4>1, <4>2, <4>3
    <3> QED
      BY <2>4, <3>1, <3>2, <3>3
  <2> QED
    BY <1>6, <2>4, <2>6, <2>10, <2>11
<1> QED
  BY <1>7, <1>8

----------------------------------------------------------------------------
(* The steps.                                                              *)

(* An assignment joins the end of a channel or leaves its head; every      *)
(* other step of the fleet leaves the channels alone.                      *)
LEMMA Channels ==
    ASSUME Inv, [Next]_vars
    PROVE  \/ down' = down
           \/ \E r \in Robots : /\ down[r] # <<>>
                                /\ down' = [down EXCEPT ![r] = Tail(down[r])]
           \/ \E r \in Robots, t \in Tasks, n \in Nodes, x \in Nodes :
                down' = [down EXCEPT ![r] = Append(down[r],
                            TaskAssign(t, plan_task_route(n, Goals[t]), x))]
<1>1. ASSUME NEW r \in Robots, Take(r)
      PROVE  down[r] # <<>> /\ down' = [down EXCEPT ![r] = Tail(down[r])]
  BY <1>1 DEF Take
<1>2. ASSUME NEW r \in Robots,
             Tick(r) \/ Drive(r) \/ Load(r) \/ Arrive(r) \/ Handle(r)
      PROVE  down' = down
  BY <1>2 DEF Tick, TickCharging, TickLow, TickIdle, Drive, Load, Arrive, Handle,
              ApplyRegister, ApplyHeartbeat, ForwardDone, centreVars, robotsOwn
<1>3. ASSUME NEW t \in Tasks, Submit(t) \/ Reclaim(t) PROVE down' = down
  BY <1>3 DEF Submit, Reclaim
<1>4. CASE Complete \/ BeginRound \/ UNCHANGED vars
  BY <1>4 DEF Complete, BeginRound, vars
<1>5. ASSUME NEW t \in Tasks, Match(t)
      PROVE  \/ down' = down
             \/ \E r \in Robots, n \in Nodes, x \in Nodes :
                  down' = [down EXCEPT ![r] = Append(down[r],
                              TaskAssign(t, plan_task_route(n, Goals[t]), x))]
  <2>1. PICK f \in free :
            \/ down' = [down EXCEPT ![f.robot] = Append(down[f.robot],
                    TaskAssign(t, plan_task_route(f.node, Goals[t]),
                               Goals[t].pickup))]
            \/ down' = down
    BY <1>5 DEF Match, nearest_robot
  <2>2. f.robot \in Robots /\ f.node \in Nodes /\ Goals[t].pickup \in Nodes
    BY DEF Inv, CentreTypeOK, Candidates
  <2> QED
    BY <2>1, <2>2
<1> QED
  BY <1>1, <1>2, <1>3, <1>4, <1>5 DEF Next

LEMMA ShortStep ==
    ASSUME FinderIsShortest, Inv, ToursAreShortest, [Next]_vars
    PROVE  ToursAreShortest'
<1>1. \A q \in Robots : \A i \in DOMAIN down[q] : ShortTour(down[q][i])
  BY DEF ToursAreShortest, ShortTour
<1>2. down \in [Robots -> Seq(SoundAssign)]
  BY DEF Inv, SoundTours
<1>3. SUFFICES \A q \in Robots : \A i \in DOMAIN down'[q] : ShortTour(down'[q][i])
  BY <1>3 DEF ToursAreShortest, ShortTour
<1>4. CASE down' = down
  BY <1>1, <1>4
<1>5. ASSUME NEW r \in Robots, down[r] # <<>>,
             down' = [down EXCEPT ![r] = Tail(down[r])]
      PROVE  \A q \in Robots : \A i \in DOMAIN down'[q] : ShortTour(down'[q][i])
  <2> SUFFICES ASSUME NEW q \in Robots, NEW i \in DOMAIN down'[q]
               PROVE  ShortTour(down'[q][i])
    OBVIOUS
  <2>1. CASE q # r
    <3>1. down'[q] = down[q]
      BY <1>2, <1>5, <2>1
    <3> QED
      BY <1>1, <3>1
  <2>2. CASE q = r
    <3> DEFINE s == down[r]
    <3>1. s \in Seq(SoundAssign) /\ s # <<>> /\ down'[q] = Tail(s)
      BY <1>2, <1>5, <2>2
    <3> HIDE DEF s
    <3>2. i \in 1..Len(Tail(s)) /\ Len(Tail(s)) = Len(s) - 1 /\ Len(s) \in Nat
      BY <3>1, TailLemma
    <3>3. down'[q][i] = s[i + 1] /\ i + 1 \in DOMAIN s
      BY <3>1, <3>2, TailLemma
    <3> QED
      BY <1>1, <3>3 DEF s
  <2> QED
    BY <2>1, <2>2
<1>6. ASSUME NEW r \in Robots, NEW t \in Tasks, NEW n \in Nodes, NEW x \in Nodes,
             down' = [down EXCEPT ![r] = Append(down[r],
                         TaskAssign(t, plan_task_route(n, Goals[t]), x))]
      PROVE  \A q \in Robots : \A i \in DOMAIN down'[q] : ShortTour(down'[q][i])
  <2> DEFINE a == TaskAssign(t, plan_task_route(n, Goals[t]), x)
             s == down[r]
  <2>1. ShortTour(a)
    BY ShortTourLemma
  <2>2. s \in Seq(SoundAssign) /\ down' = [down EXCEPT ![r] = Append(s, a)]
    BY <1>2, <1>6
  <2> HIDE DEF a
  <2> SUFFICES ASSUME NEW q \in Robots, NEW i \in DOMAIN down'[q]
               PROVE  ShortTour(down'[q][i])
    OBVIOUS
  <2>3. CASE q # r
    <3>1. down'[q] = down[q]
      BY <1>2, <2>2, <2>3
    <3> QED
      BY <1>1, <3>1
  <2>4. CASE q = r
    <3>1. down'[q] = Append(s, a) /\ \A j \in DOMAIN s : ShortTour(s[j])
      BY <1>1, <1>2, <2>2, <2>4
    <3> HIDE DEF s
    <3>2. s \in Seq(SoundAssign \cup {a})
      BY <2>2, SeqMonotone
    <3>3. /\ Len(s) \in Nat /\ Len(Append(s, a)) = Len(s) + 1
          /\ Append(s, a)[Len(s) + 1] = a
          /\ \A j \in 1..Len(s) : Append(s, a)[j] = s[j]
          /\ DOMAIN s = 1..Len(s)
      BY <3>2, AppendLemma
    <3>4. i \in 1..(Len(s) + 1)
      BY <3>1, <3>2, <3>3
    <3>5. CASE i = Len(s) + 1
      BY <2>1, <3>1, <3>3, <3>5
    <3>6. CASE i # Len(s) + 1
      <4>1. i \in 1..Len(s)
        BY <3>3, <3>4, <3>6
      <4> QED
        BY <3>1, <3>3, <4>1
    <3> QED
      BY <3>5, <3>6
  <2> QED
    BY <2>3, <2>4
<1> QED
  BY <1>4, <1>5, <1>6, Channels

(* Of what is on the way to a robot, each tour goes node by node along     *)
(* edges of the map, over the pickup to the dropoff, and has no step more  *)
(* than both legs need: for a grid, a fleet and tasks of any size, if the  *)
(* path finder is as good as its documentation says                        *)
(* (src/src/engine/pathfinding.rs:44).                                     *)
THEOREM ShortestTours ==
    ASSUME FinderIsShortest PROVE Spec => []ToursAreShortest
<1>1. Init => ToursAreShortest
  <2> SUFFICES ASSUME Init PROVE ToursAreShortest
    OBVIOUS
  <2>1. \A r \in Robots : down[r] = <<>>
    BY DEF Init
  <2>2. \A i : i \notin DOMAIN <<>>
    OBVIOUS
  <2> QED
    BY <2>1, <2>2 DEF ToursAreShortest
<1>2. Inv /\ ToursAreShortest /\ [Next]_vars => ToursAreShortest'
  BY ShortStep
<1> QED
  BY <1>1, <1>2, Invariance, PTL DEF Spec
=============================================================================

---------------------------- MODULE FleetProofs ----------------------------
(* The fleet at work, for any number of robots and tasks, any map, and any *)
(* path finder that returns a way from one node to the other.              *)
EXTENDS Fleet, TLAPS

USE NoneAssumption, NodeAssumption, BatteryAssumption, DwellAssumption,
    GoalsAssumption, RetryAssumption, TimeoutAssumption

(* Only a robot at work says that it is loaded.                            *)
HonestMsg ==
    {m \in ClientMsg : m.type = "Heartbeat" /\ m.carrying => m.status = "Busy"}

(* The path of an assignment leads over the pickup to the dropoff.         *)
SoundAssign ==
    {a \in ServerMsg :
        /\ a.pickup = Goals[a.task].pickup
        /\ a.path # <<>>
        /\ a.path[Len(a.path)] = Goals[a.task].dropoff
        /\ \E i \in 1..Len(a.path) : a.path[i] = a.pickup}

(* What is left of a tour ends at the dropoff, and while the robot is not  *)
(* loaded the pickup is ahead of it.  Only tours have a pickup and a cargo. *)
TripInOrder(r) ==
    IF trip[r].status = "Busy"
    THEN /\ trip[r].task \in Tasks
         /\ ~trip[r].carrying =>
                \E i \in 1..Len(trip[r].path) : trip[r].path[i] = trip[r].pickup
         /\ IF trip[r].path = <<>>
            THEN loc[r] = Goals[trip[r].task].dropoff
            ELSE trip[r].path[Len(trip[r].path)] = Goals[trip[r].task].dropoff
    ELSE trip[r].pickup = NoNode /\ ~trip[r].carrying

CentreTypeOK ==
    /\ location \in [Robots -> Nodes \cup {NoNode}]
    /\ carrying \in [Robots -> BOOLEAN]
    /\ pending \subseteq Tasks
    /\ free \subseteq Candidates
    /\ todo \subseteq Tasks
    /\ events \in Seq(Robots \X Tasks)

RobotsOwnTypeOK ==
    /\ loc \in [Robots -> Nodes]
    /\ battery \in [Robots -> Batteries]
    /\ charging \in [Robots -> BOOLEAN]
    /\ trip \in [Robots -> Trips]

(* A robot that is in the table has a place in it, and one that is not has *)
(* no task either.                                                         *)
Placed ==
    \A r \in Robots :
        IF status[r] = "Absent" THEN current_task[r] = NoTask
                                ELSE location[r] \in Nodes
HonestReports == up \in [Robots -> Seq(HonestMsg)]
SoundTours == down \in [Robots -> Seq(SoundAssign)]
TripsInOrder == \A r \in Robots : TripInOrder(r)

(* The store is on the robot's track because frames are served in order    *)
(* and tell what is so; that a tour arrives loaded needs that every tour   *)
(* on its way to a robot leads over the pickup, which in turn needs that   *)
(* the store has a place for whom a round offers.                          *)
Inv ==
    /\ StoreTypeOK /\ CentreTypeOK /\ RobotsOwnTypeOK
    /\ HonestReports /\ SoundTours
    /\ Placed /\ TripsInOrder
    /\ LoadedIsBusy /\ StoreIsBehind

----------------------------------------------------------------------------
(* Sequences.                                                              *)

(* Sending puts the message at the end.                                    *)
LEMMA AppendLemma ==
    ASSUME NEW S, NEW s \in Seq(S), NEW e \in S
    PROVE  /\ Append(s, e) \in Seq(S)
           /\ Len(s) \in Nat
           /\ Len(Append(s, e)) = Len(s) + 1
           /\ \A i \in 1..Len(s) : Append(s, e)[i] = s[i]
           /\ Append(s, e)[Len(s) + 1] = e
  OBVIOUS

(* Serving takes the message at the head; the rest moves up.               *)
LEMMA TailLemma ==
    ASSUME NEW S, NEW s \in Seq(S), s # <<>>
    PROVE  /\ Head(s) \in S
           /\ Head(s) = s[1]
           /\ Tail(s) \in Seq(S)
           /\ Len(Tail(s)) = Len(s) - 1
           /\ Len(s) \in Nat \ {0}
           /\ \A i \in 1..Len(Tail(s)) : Tail(s)[i] = s[i + 1]
  OBVIOUS

(* A sequence has no element exactly when its length is 0.                 *)
LEMMA EmptyLemma ==
    ASSUME NEW S, NEW s \in Seq(S)
    PROVE  /\ s = <<>> <=> Len(s) = 0
           /\ Len(s) \in Nat
  OBVIOUS

(* A sequence over a smaller set is one over a larger set.                 *)
LEMMA SeqMonotone ==
    ASSUME NEW S, NEW T, S \subseteq T, NEW s \in Seq(S)
    PROVE  s \in Seq(T)
  OBVIOUS

(* What a concatenation is made of.                                        *)
LEMMA ConcatLemma ==
    ASSUME NEW S, NEW s \in Seq(S), NEW t \in Seq(S)
    PROVE  /\ s \o t \in Seq(S)
           /\ Len(s) \in Nat /\ Len(t) \in Nat
           /\ Len(s \o t) = Len(s) + Len(t)
           /\ \A i \in 1..Len(s) : (s \o t)[i] = s[i]
           /\ \A i \in 1..Len(t) : (s \o t)[Len(s) + i] = t[i]
  OBVIOUS

----------------------------------------------------------------------------
(* Tours.                                                                  *)

(* plan_task_route returns a way that comes by the pickup and ends at the  *)
(* dropoff.                                                                *)
LEMMA TourLemma ==
    ASSUME NEW from \in Nodes, NEW t \in Tasks
    PROVE  LET path == plan_task_route(from, Goals[t])
           IN  /\ path \in Seq(Nodes)
               /\ path # <<>>
               /\ path[Len(path)] = Goals[t].dropoff
               /\ \E i \in 1..Len(path) : path[i] = Goals[t].pickup
<1> DEFINE p == Goals[t].pickup
           d == Goals[t].dropoff
           leg1 == FindPath[<<from, p>>]
           leg2 == FindPath[<<p, d>>]
<1>1. p \in Nodes /\ d \in Nodes
  OBVIOUS
<1>2. /\ leg1 \in Seq(Nodes) /\ leg1 # <<>> /\ leg1[Len(leg1)] = p
      /\ leg2 \in Seq(Nodes) /\ leg2 # <<>>
      /\ Head(leg2) = p /\ leg2[Len(leg2)] = d
  BY <1>1, PathfinderAssumption
<1>3. plan_task_route(from, Goals[t]) = IF p = d THEN leg1 ELSE leg1 \o Tail(leg2)
  BY DEF plan_task_route
<1> HIDE DEF p, d, leg1, leg2
<1>4. Len(leg1) \in Nat \ {0}
  BY <1>2, TailLemma
<1>5. CASE p = d
  BY <1>2, <1>3, <1>4, <1>5 DEF p, d
<1>6. CASE p # d
  <2>1. /\ Tail(leg2) \in Seq(Nodes)
        /\ Len(Tail(leg2)) = Len(leg2) - 1
        /\ Len(leg2) \in Nat \ {0}
        /\ Head(leg2) = leg2[1]
        /\ \A i \in 1..Len(Tail(leg2)) : Tail(leg2)[i] = leg2[i + 1]
    BY <1>2, TailLemma
  <2>2. Len(leg2) # 1
    BY <1>2, <1>6, <2>1
  <2> DEFINE rest == Tail(leg2)
             path == leg1 \o rest
  <2>3. /\ rest \in Seq(Nodes) /\ Len(rest) \in Nat \ {0}
        /\ rest[Len(rest)] = d
    BY <1>2, <2>1, <2>2
  <2> HIDE DEF rest
  <2>4. /\ path \in Seq(Nodes)
        /\ Len(path) = Len(leg1) + Len(rest)
        /\ \A i \in 1..Len(leg1) : path[i] = leg1[i]
        /\ \A i \in 1..Len(rest) : path[Len(leg1) + i] = rest[i]
    BY <1>2, <2>3, ConcatLemma
  <2>5. plan_task_route(from, Goals[t]) = path
    BY <1>3, <1>6 DEF rest
  <2> HIDE DEF path
  <2>6. path[Len(path)] = d /\ Len(path) \in Nat \ {0}
    BY <1>4, <2>3, <2>4
  <2>7. Len(leg1) \in 1..Len(path) /\ path[Len(leg1)] = p
    BY <1>2, <1>4, <2>3, <2>4
  <2> QED
    BY <2>4, <2>5, <2>6, <2>7 DEF p, d
<1> QED
  BY <1>5, <1>6

----------------------------------------------------------------------------
(* The robot's sending.                                                    *)

(* A robot that sends an honest message goes on being honest.              *)
LEMMA SendHonest ==
    ASSUME HonestReports, NEW r \in Robots, NEW m \in HonestMsg, Send(r, m)
    PROVE  HonestReports'
<1>1. up[r] \in Seq(HonestMsg)
  BY DEF HonestReports
<1>2. Append(up[r], m) \in Seq(HonestMsg)
  BY <1>1, AppendLemma
<1> QED
  BY <1>2 DEF HonestReports, Send

(* What a robot sends keeps the store on its track, if it is news and true *)
(* of the place and the battery it has now, or if it is a report of        *)
(* completion and neither has changed.                                     *)
LEMMA SendNews ==
    ASSUME HonestReports, StoreIsBehind, RobotsOwnTypeOK,
           NEW r \in Robots, NEW m \in HonestMsg, Send(r, m),
           UNCHANGED <<location, low_battery>>,
           \A q \in Robots \ {r} : loc'[q] = loc[q] /\ battery'[q] = battery[q],
           IF m.type = "TaskDone"
           THEN loc'[r] = loc[r] /\ battery'[r] = battery[r]
           ELSE m.node = loc'[r] /\ m.battery = battery'[r]
    PROVE  StoreIsBehind'
<1> SUFFICES ASSUME NEW q \in Robots
             PROVE  /\ NoNewsAfter(q, 0)' =>
                            /\ location[q] = loc'[q]
                            /\ low_battery[q] = is_low(battery'[q])
                    /\ \A i \in 1..Len(up'[q]) :
                        up'[q][i].type # "TaskDone" /\ NoNewsAfter(q, i)' =>
                            up'[q][i].node = loc'[q]
                                /\ up'[q][i].battery = battery'[q]
  BY DEF StoreIsBehind, is_low
<1>1. CASE q # r
  <2>1. up'[q] = up[q] /\ loc'[q] = loc[q] /\ battery'[q] = battery[q]
    BY <1>1 DEF Send, HonestReports
  <2>2. \A i : NoNewsAfter(q, i)' <=> NoNewsAfter(q, i)
    BY <2>1 DEF NoNewsAfter
  <2> QED
    BY <2>1, <2>2 DEF StoreIsBehind
<1>2. CASE q = r
  <2> DEFINE s == up[r]
             t == up'[r]
  <2>1. /\ Len(s) \in Nat
        /\ Len(t) = Len(s) + 1
        /\ \A i \in 1..Len(s) : t[i] = s[i]
        /\ t[Len(s) + 1] = m
    <3>1. s \in Seq(HonestMsg) /\ t = Append(s, m)
      BY DEF HonestReports, Send
    <3> HIDE DEF s, t
    <3> QED
      BY <3>1, AppendLemma
  <2>2. \A i : NoNewsAfter(q, i) <=> \A j \in (i + 1)..Len(s) : s[j].type = "TaskDone"
    BY <1>2 DEF NoNewsAfter
  <2>3. \A i : NoNewsAfter(q, i)' <=> \A j \in (i + 1)..Len(t) : t[j].type = "TaskDone"
    BY <1>2 DEF NoNewsAfter
  <2>4. /\ NoNewsAfter(q, 0) => location[r] = loc[r] /\ low_battery[r] = is_low(battery[r])
        /\ \A i \in 1..Len(s) :
            s[i].type # "TaskDone" /\ NoNewsAfter(q, i) =>
                s[i].node = loc[r] /\ s[i].battery = battery[r]
    BY <1>2 DEF StoreIsBehind
  <2> HIDE DEF s, t
  <2>5. CASE m.type = "TaskDone"
    <3>1. ASSUME NEW i \in 0..Len(s), NoNewsAfter(q, i)'
          PROVE  NoNewsAfter(q, i)
      <4>1. \A j \in (i + 1)..Len(t) : t[j].type = "TaskDone"
        BY <2>3, <3>1
      <4>2. \A j \in (i + 1)..Len(s) : s[j].type = "TaskDone"
        BY <2>1, <4>1
      <4> QED
        BY <2>2, <4>2
    <3>2. loc'[r] = loc[r] /\ battery'[r] = battery[r]
      BY <2>5
    <3>3. ASSUME NEW i \in 1..Len(t), t[i].type # "TaskDone", NoNewsAfter(q, i)'
          PROVE  t[i].node = loc[r] /\ t[i].battery = battery[r]
      <4>1. i \in 1..Len(s)
        BY <2>1, <2>5, <3>3
      <4> QED
        BY <2>1, <2>4, <3>1, <3>3, <4>1
    <3> QED
      BY <1>2, <2>1, <2>4, <3>1, <3>2, <3>3 DEF t
  <2>6. CASE m.type # "TaskDone"
    <3>1. ASSUME NEW i \in 0..Len(s), NoNewsAfter(q, i)'
          PROVE  FALSE
      <4>1. \A j \in (i + 1)..Len(t) : t[j].type = "TaskDone"
        BY <2>3, <3>1
      <4>2. Len(s) + 1 \in (i + 1)..Len(t)
        BY <2>1
      <4> QED
        BY <2>1, <2>6, <4>1, <4>2
    <3>2. m.node = loc'[r] /\ m.battery = battery'[r]
      BY <2>6
    <3>3. ASSUME NEW i \in 1..Len(t), t[i].type # "TaskDone", NoNewsAfter(q, i)'
          PROVE  t[i].node = loc'[r] /\ t[i].battery = battery'[r]
      <4>1. i = Len(s) + 1
        BY <2>1, <3>1, <3>3
      <4> QED
        BY <2>1, <3>2, <4>1
    <3> QED
      BY <1>2, <2>1, <3>1, <3>3 DEF t
  <2> QED
    BY <2>5, <2>6
<1> QED
  BY <1>1, <1>2

(* The store's track is not touched by what leaves the store's places, the *)
(* robots' places and batteries and the sockets alone.                     *)
LEMMA NoNews ==
    ASSUME StoreIsBehind, UNCHANGED <<location, low_battery, up, loc, battery>>
    PROVE  StoreIsBehind'
<1>1. \A r, i : NoNewsAfter(r, i)' <=> NoNewsAfter(r, i)
  BY DEF NoNewsAfter
<1> QED
  BY <1>1 DEF StoreIsBehind

----------------------------------------------------------------------------
(* The steps of a robot.                                                   *)

(* What a robot does changes nothing in the store.                         *)
LEMMA RobotStep ==
    ASSUME Inv, UNCHANGED <<storeVars, centreVars>>,
           RobotsOwnTypeOK', HonestReports', SoundTours', TripsInOrder',
           StoreIsBehind'
    PROVE  Inv'
<1>1. UNCHANGED <<status, current_task, silent, low_battery, task_status,
                  assigned_robot, assigned_age, retry_count, location, carrying,
                  pending, free, todo, events>>
  BY DEF storeVars, robotVars, taskVars, centreVars
<1>2. StoreTypeOK'
  BY <1>1 DEF Inv, StoreTypeOK, RobotsTypeOK, TasksTypeOK
<1>3. CentreTypeOK' /\ Placed' /\ LoadedIsBusy'
  BY <1>1 DEF Inv, CentreTypeOK, Placed, LoadedIsBusy
<1> QED
  BY <1>2, <1>3 DEF Inv

(* A robot that charges and stays where it is.                             *)
LEMMA TickChargingStep ==
    ASSUME Inv, NEW r \in Robots, TickCharging(r) PROVE Inv'
<1> DEFINE b == IF battery[r] + ChargeStep < MaxBattery
                THEN battery[r] + ChargeStep ELSE MaxBattery
           m == Beat(loc[r], b, "Charging", FALSE)
<1>1. /\ RobotsOwnTypeOK /\ HonestReports /\ StoreIsBehind /\ TripsInOrder
      /\ SoundTours
  BY DEF Inv
<1>2. /\ battery' = [battery EXCEPT ![r] = b]
      /\ charging' = [charging EXCEPT ![r] = ~is_full(b)]
      /\ Send(r, m)
      /\ UNCHANGED <<storeVars, centreVars, down, loc, trip>>
  BY DEF TickCharging
<1>3. b \in Batteries /\ loc[r] \in Nodes
  BY <1>1 DEF RobotsOwnTypeOK, Batteries
<1> HIDE DEF b
<1>4. RobotsOwnTypeOK'
  BY <1>1, <1>2, <1>3 DEF RobotsOwnTypeOK, is_full
<1>5. m \in HonestMsg /\ m.type # "TaskDone" /\ m.node = loc[r] /\ m.battery = b
  BY <1>3 DEF HonestMsg, ClientMsg, Beat, Reports
<1> HIDE DEF m
<1>6. HonestReports'
  BY <1>1, <1>2, <1>5, SendHonest
<1>7. StoreIsBehind'
  <2>1. UNCHANGED <<location, low_battery, loc>>
    BY <1>2 DEF storeVars, robotVars, centreVars
  <2>2. \A q \in Robots \ {r} : loc'[q] = loc[q] /\ battery'[q] = battery[q]
    BY <1>1, <1>2 DEF RobotsOwnTypeOK
  <2>3. m.node = loc'[r] /\ m.battery = battery'[r]
    BY <1>1, <1>2, <1>5 DEF RobotsOwnTypeOK
  <2> QED
    BY <1>1, <1>2, <1>5, <2>1, <2>2, <2>3, SendNews
<1>8. TripsInOrder' /\ SoundTours'
  BY <1>1, <1>2 DEF TripsInOrder, TripInOrder, SoundTours
<1> QED
  BY <1>2, <1>4, <1>6, <1>7, <1>8, RobotStep

(* A robot that leaves for a charger.                                      *)
LEMMA TickLowStep ==
    ASSUME Inv, NEW r \in Robots, TickLow(r) PROVE Inv'
<1> DEFINE path == FindPath[<<loc[r], NearestCharger[loc[r]]>>]
           d == Trip("Charging", NoTask, path, NoNode)
<1>1. /\ RobotsOwnTypeOK /\ HonestReports /\ StoreIsBehind /\ TripsInOrder
      /\ SoundTours
  BY DEF Inv
<1>2. /\ charging' = [charging EXCEPT ![r] = TRUE]
      /\ trip' = [trip EXCEPT ![r] = d]
      /\ UNCHANGED <<storeVars, centreVars, up, down, loc, battery>>
  BY DEF TickLow
<1>3. path \in Seq(Nodes)
  <2>1. loc[r] \in Nodes /\ NearestCharger[loc[r]] \in Nodes
    BY <1>1, ChargerAssumption DEF RobotsOwnTypeOK
  <2> QED
    BY <2>1, PathfinderAssumption
<1> HIDE DEF path
<1>4. d \in Trips
  BY <1>3 DEF Trips, Trip, Reports
<1>5. d.status = "Charging" /\ d.pickup = NoNode /\ ~d.carrying
  BY DEF Trip
<1> HIDE DEF d
<1>6. RobotsOwnTypeOK'
  BY <1>1, <1>2, <1>4 DEF RobotsOwnTypeOK
<1>7. TripsInOrder'
  <2> SUFFICES ASSUME NEW q \in Robots PROVE TripInOrder(q)'
    BY DEF TripsInOrder
  <2>1. CASE q = r
    BY <1>1, <1>2, <1>5, <2>1 DEF TripInOrder, RobotsOwnTypeOK
  <2>2. CASE q # r
    BY <1>1, <1>2, <2>2 DEF TripInOrder, TripsInOrder, RobotsOwnTypeOK
  <2> QED
    BY <2>1, <2>2
<1>8. HonestReports' /\ SoundTours'
  BY <1>1, <1>2 DEF HonestReports, SoundTours
<1>9. StoreIsBehind'
  <2>1. UNCHANGED <<location, low_battery, up, loc, battery>>
    BY <1>2 DEF storeVars, robotVars, centreVars
  <2> QED
    BY <1>1, <2>1, NoNews
<1> QED
  BY <1>2, <1>6, <1>7, <1>8, <1>9, RobotStep

(* A robot that has nothing to do.                                         *)
LEMMA TickIdleStep ==
    ASSUME Inv, NEW r \in Robots, TickIdle(r) PROVE Inv'
<1> DEFINE m == Beat(loc[r], battery[r], "Idle", FALSE)
<1>1. /\ RobotsOwnTypeOK /\ HonestReports /\ StoreIsBehind /\ TripsInOrder
      /\ SoundTours
  BY DEF Inv
<1>2. /\ Send(r, m)
      /\ UNCHANGED <<storeVars, centreVars, down>>
      /\ UNCHANGED <<loc, battery, charging, trip>>
  BY DEF TickIdle, robotsOwn
<1>3. battery[r] \in Batteries /\ loc[r] \in Nodes
  BY <1>1 DEF RobotsOwnTypeOK
<1>4. /\ m \in HonestMsg /\ m.type # "TaskDone"
      /\ m.node = loc[r] /\ m.battery = battery[r]
  BY <1>3 DEF HonestMsg, ClientMsg, Beat, Reports
<1> HIDE DEF m
<1>5. RobotsOwnTypeOK' /\ TripsInOrder' /\ SoundTours'
  BY <1>1, <1>2 DEF RobotsOwnTypeOK, TripsInOrder, TripInOrder, SoundTours
<1>6. HonestReports'
  BY <1>1, <1>2, <1>4, SendHonest
<1>7. StoreIsBehind'
  <2>1. UNCHANGED <<location, low_battery>>
    BY <1>2 DEF storeVars, robotVars, centreVars
  <2> QED
    BY <1>1, <1>2, <1>4, <2>1, SendNews
<1> QED
  BY <1>2, <1>5, <1>6, <1>7, RobotStep

(* A robot takes the assignment that waits for it.                         *)
LEMMA TakeStep ==
    ASSUME Inv, NEW r \in Robots, Take(r) PROVE Inv'
<1> DEFINE a == Head(down[r])
           d == Trip("Busy", a.task, a.path, a.pickup)
<1>1. /\ RobotsOwnTypeOK /\ HonestReports /\ StoreIsBehind /\ TripsInOrder
      /\ SoundTours
  BY DEF Inv
<1>2. /\ down[r] # <<>>
      /\ down' = [down EXCEPT ![r] = Tail(down[r])]
      /\ trip' = [trip EXCEPT ![r] = d]
      /\ UNCHANGED <<storeVars, centreVars, up, loc, battery, charging>>
  BY DEF Take
<1>3. a \in SoundAssign /\ Tail(down[r]) \in Seq(SoundAssign)
  <2>1. down[r] \in Seq(SoundAssign)
    BY <1>1 DEF SoundTours
  <2> QED
    BY <1>2, <2>1, TailLemma
<1>4. SoundTours'
  BY <1>1, <1>2, <1>3 DEF SoundTours
<1> HIDE DEF a
<1>5. /\ a.task \in Tasks /\ a.path \in Seq(Nodes) /\ a.pickup \in Nodes
      /\ a.path # <<>>
      /\ a.path[Len(a.path)] = Goals[a.task].dropoff
      /\ \E i \in 1..Len(a.path) : a.path[i] = a.pickup
  BY <1>3 DEF SoundAssign, ServerMsg
<1>6. d \in Trips
  BY <1>5 DEF Trips, Trip, Reports
<1>7. /\ d.status = "Busy" /\ d.task = a.task /\ d.path = a.path
      /\ d.pickup = a.pickup
  BY DEF Trip
<1> HIDE DEF d
<1>8. RobotsOwnTypeOK'
  BY <1>1, <1>2, <1>6 DEF RobotsOwnTypeOK
<1>9. TripsInOrder'
  <2> SUFFICES ASSUME NEW q \in Robots PROVE TripInOrder(q)'
    BY DEF TripsInOrder
  <2>1. CASE q = r
    <3>1. trip'[q] = d
      BY <1>1, <1>2, <2>1 DEF RobotsOwnTypeOK
    <3> QED
      BY <1>5, <1>7, <3>1 DEF TripInOrder
  <2>2. CASE q # r
    <3>1. trip'[q] = trip[q] /\ loc'[q] = loc[q]
      BY <1>1, <1>2, <2>2 DEF RobotsOwnTypeOK
    <3> QED
      BY <1>1, <3>1 DEF TripInOrder, TripsInOrder
  <2> QED
    BY <2>1, <2>2
<1>10. HonestReports' /\ StoreIsBehind'
  <2>1. UNCHANGED <<location, low_battery, up, loc, battery>>
    BY <1>2 DEF storeVars, robotVars, centreVars
  <2> QED
    BY <1>1, <2>1, NoNews DEF HonestReports
<1> QED
  BY <1>2, <1>4, <1>8, <1>9, <1>10, RobotStep

(* A heartbeat of a robot that is not loaded, or is at work, is honest.    *)
LEMMA BeatIsHonest ==
    ASSUME NEW n \in Nodes, NEW b \in Batteries, NEW st \in Reports,
           NEW c \in BOOLEAN, c => st = "Busy"
    PROVE  /\ Beat(n, b, st, c) \in HonestMsg
           /\ Beat(n, b, st, c).type # "TaskDone"
           /\ Beat(n, b, st, c).node = n
           /\ Beat(n, b, st, c).battery = b
  BY DEF HonestMsg, ClientMsg, Beat

(* A robot moves on to the next node of its path.                          *)
LEMMA DriveStep ==
    ASSUME Inv, NEW r \in Robots, Drive(r) PROVE Inv'
<1> DEFINE d == trip[r]
           n == Head(d.path)
           b == IF battery[r] > 0 THEN battery[r] - 1 ELSE 0
           loads == ~d.carrying /\ n = d.pickup
           m == Beat(n, b, d.status, d.carrying)
           c == d.carrying \/ loads
           w == IF loads THEN LoadDwell ELSE 0
           e == [d EXCEPT !.path = Tail(d.path), !.carrying = c, !.dwell = w]
<1>1. /\ RobotsOwnTypeOK /\ HonestReports /\ StoreIsBehind /\ TripsInOrder
      /\ SoundTours
  BY DEF Inv
<1>2. /\ d.path # <<>>
      /\ loc' = [loc EXCEPT ![r] = n]
      /\ battery' = [battery EXCEPT ![r] = b]
      /\ Send(r, m)
      /\ UNCHANGED <<storeVars, centreVars, down, charging>>
  BY DEF Drive
<1>3. d \in Trips /\ battery[r] \in Batteries /\ TripInOrder(r)
  BY <1>1 DEF RobotsOwnTypeOK, TripsInOrder
<1>4. trip' = [trip EXCEPT ![r] = e]
  BY <1>1, <1>3 DEF Drive, RobotsOwnTypeOK, Trips
<1> HIDE DEF d
<1>5. /\ d.path \in Seq(Nodes) /\ d.status \in Reports
      /\ d.carrying \in BOOLEAN /\ d.pickup \in Nodes \cup {NoNode}
      /\ d.task \in Tasks \cup {NoTask}
  BY <1>3 DEF Trips
<1>6. /\ n \in Nodes /\ n = d.path[1]
      /\ Tail(d.path) \in Seq(Nodes)
      /\ Len(Tail(d.path)) = Len(d.path) - 1
      /\ Len(d.path) \in Nat \ {0}
      /\ \A i \in 1..Len(Tail(d.path)) : Tail(d.path)[i] = d.path[i + 1]
  BY <1>2, <1>5, TailLemma
<1>7. b \in Batteries
  BY <1>3 DEF Batteries
<1>8. /\ d.carrying => d.status = "Busy"
      /\ loads => d.status = "Busy"
  BY <1>3, <1>6 DEF TripInOrder, d
<1> HIDE DEF n, b
<1>9. m \in HonestMsg /\ m.type # "TaskDone" /\ m.node = n /\ m.battery = b
  BY <1>5, <1>6, <1>7, <1>8, BeatIsHonest
<1>a. c \in BOOLEAN /\ w \in 0..LoadDwell /\ (~c => ~d.carrying /\ n # d.pickup)
  BY <1>5
<1>b. d.pickup = NoNode /\ ~d.carrying => ~c
  BY <1>6
<1> HIDE DEF c, w
<1>10. /\ e \in Trips
       /\ e.status = d.status /\ e.task = d.task /\ e.pickup = d.pickup
       /\ e.path = Tail(d.path) /\ e.carrying = c
  BY <1>3, <1>6, <1>a DEF Trips
<1> HIDE DEF m, e
<1>11. RobotsOwnTypeOK'
  BY <1>1, <1>2, <1>4, <1>6, <1>7, <1>10 DEF RobotsOwnTypeOK
<1>12. TripsInOrder'
  <2> SUFFICES ASSUME NEW q \in Robots PROVE TripInOrder(q)'
    BY DEF TripsInOrder
  <2>1. CASE q = r
    <3>1. trip'[q] = e /\ loc'[q] = n
      BY <1>1, <1>2, <1>4, <2>1 DEF RobotsOwnTypeOK
    <3>2. CASE d.status = "Busy"
      <4>1. /\ d.task \in Tasks
            /\ ~d.carrying =>
                    \E i \in 1..Len(d.path) : d.path[i] = d.pickup
            /\ d.path[Len(d.path)] = Goals[d.task].dropoff
        BY <1>2, <1>3, <3>2 DEF TripInOrder, d
      <4>2. ~e.carrying =>
                \E i \in 1..Len(e.path) : e.path[i] = e.pickup
        <5> SUFFICES ASSUME ~e.carrying
                     PROVE  \E i \in 1..Len(e.path) : e.path[i] = e.pickup
          OBVIOUS
        <5>1. ~d.carrying /\ n # d.pickup
          BY <1>10, <1>a
        <5>2. PICK i \in 1..Len(d.path) : d.path[i] = d.pickup
          BY <4>1, <5>1
        <5>3. i - 1 \in 1..Len(e.path) /\ i = (i - 1) + 1
          BY <1>6, <1>10, <5>1, <5>2
        <5>4. e.path[i - 1] = e.pickup
          BY <1>6, <1>10, <5>2, <5>3
        <5> QED
          BY <5>3, <5>4
      <4>3. IF e.path = <<>>
            THEN n = Goals[e.task].dropoff
            ELSE e.path[Len(e.path)] = Goals[e.task].dropoff
        <5>1. CASE e.path = <<>>
          <6>a. Tail(d.path) = <<>>
            BY <1>10, <5>1
          <6>1. Len(Tail(d.path)) = 0
            BY <1>6, <6>a, EmptyLemma
          <6>2. Len(d.path) = 1
            BY <1>6, <6>1
          <6> QED
            BY <1>6, <1>10, <4>1, <5>1, <6>2
        <5>2. CASE e.path # <<>>
          <6>1. Len(e.path) \in 1..Len(e.path) /\ Len(e.path) + 1 = Len(d.path)
            BY <1>6, <1>10, <5>2
          <6> QED
            BY <1>6, <1>10, <4>1, <5>2, <6>1
        <5> QED
          BY <5>1, <5>2
      <4> QED
        BY <1>10, <3>1, <3>2, <4>1, <4>2, <4>3 DEF TripInOrder
    <3>3. CASE d.status # "Busy"
      <4>1. d.pickup = NoNode /\ ~d.carrying
        BY <1>3, <3>3 DEF TripInOrder, d
      <4>2. ~e.carrying /\ e.pickup = NoNode /\ e.status # "Busy"
        BY <1>b, <1>10, <3>3, <4>1
      <4> QED
        BY <3>1, <4>2 DEF TripInOrder
    <3> QED
      BY <3>2, <3>3
  <2>2. CASE q # r
    <3>1. trip'[q] = trip[q] /\ loc'[q] = loc[q]
      BY <1>1, <1>2, <1>4, <2>2 DEF RobotsOwnTypeOK
    <3> QED
      BY <1>1, <3>1 DEF TripInOrder, TripsInOrder
  <2> QED
    BY <2>1, <2>2
<1>13. HonestReports' /\ SoundTours'
  BY <1>1, <1>2, <1>9, SendHonest DEF SoundTours
<1>14. StoreIsBehind'
  <2>1. UNCHANGED <<location, low_battery>>
    BY <1>2 DEF storeVars, robotVars, centreVars
  <2>2. \A q \in Robots \ {r} : loc'[q] = loc[q] /\ battery'[q] = battery[q]
    BY <1>1, <1>2 DEF RobotsOwnTypeOK
  <2>3. m.node = loc'[r] /\ m.battery = battery'[r]
    BY <1>1, <1>2, <1>9 DEF RobotsOwnTypeOK
  <2> QED
    BY <1>1, <1>2, <1>9, <2>1, <2>2, <2>3, SendNews
<1> QED
  BY <1>2, <1>11, <1>12, <1>13, <1>14, RobotStep

(* A robot that is being loaded stays where it is.                         *)
LEMMA LoadStep ==
    ASSUME Inv, NEW r \in Robots, Load(r) PROVE Inv'
<1> DEFINE d == trip[r]
           w == d.dwell - 1
           m == Beat(loc[r], battery[r], d.status, d.carrying)
           e == [d EXCEPT !.dwell = w]
<1>1. /\ RobotsOwnTypeOK /\ HonestReports /\ StoreIsBehind /\ TripsInOrder
      /\ SoundTours
  BY DEF Inv
<1>2. /\ d.dwell > 0
      /\ Send(r, m)
      /\ trip' = [trip EXCEPT ![r] = e]
      /\ UNCHANGED <<storeVars, centreVars, down, loc, battery, charging>>
  BY <1>1 DEF Load, RobotsOwnTypeOK, Trips
<1>3. /\ d \in Trips /\ battery[r] \in Batteries /\ loc[r] \in Nodes
      /\ TripInOrder(r)
  BY <1>1 DEF RobotsOwnTypeOK, TripsInOrder
<1>4. d.carrying => d.status = "Busy"
  BY <1>3 DEF TripInOrder
<1> HIDE DEF d
<1>5. d.status \in Reports /\ d.carrying \in BOOLEAN /\ d.dwell \in 0..LoadDwell
  BY <1>3 DEF Trips
<1>6. w \in 0..LoadDwell
  BY <1>2, <1>5
<1>7. m \in HonestMsg /\ m.type # "TaskDone" /\ m.node = loc[r] /\ m.battery = battery[r]
  BY <1>3, <1>4, <1>5, BeatIsHonest
<1> HIDE DEF w
<1>8. /\ e \in Trips
      /\ e.status = d.status /\ e.task = d.task /\ e.pickup = d.pickup
      /\ e.path = d.path /\ e.carrying = d.carrying
  BY <1>3, <1>6 DEF Trips
<1> HIDE DEF m, e
<1>9. RobotsOwnTypeOK'
  BY <1>1, <1>2, <1>8 DEF RobotsOwnTypeOK
<1>10. TripsInOrder'
  <2> SUFFICES ASSUME NEW q \in Robots PROVE TripInOrder(q)'
    BY DEF TripsInOrder
  <2>1. loc'[q] = loc[q] /\ TripInOrder(q)
    BY <1>1, <1>2 DEF TripsInOrder
  <2>2. CASE q = r
    <3>1. trip'[q] = e /\ trip[q] = d
      BY <1>1, <1>2, <2>2 DEF RobotsOwnTypeOK, d
    <3> QED
      BY <1>8, <2>1, <3>1 DEF TripInOrder
  <2>3. CASE q # r
    <3>1. trip'[q] = trip[q]
      BY <1>1, <1>2, <2>3 DEF RobotsOwnTypeOK
    <3> QED
      BY <2>1, <3>1 DEF TripInOrder
  <2> QED
    BY <2>2, <2>3
<1>11. HonestReports' /\ SoundTours'
  BY <1>1, <1>2, <1>7, SendHonest DEF SoundTours
<1>12. StoreIsBehind'
  <2>1. UNCHANGED <<location, low_battery, loc, battery>>
    BY <1>2 DEF storeVars, robotVars, centreVars
  <2>2. m.node = loc'[r] /\ m.battery = battery'[r]
    BY <1>7, <2>1
  <2>3. \A q \in Robots \ {r} : loc'[q] = loc[q] /\ battery'[q] = battery[q]
    BY <2>1
  <2> QED
    BY <1>1, <1>2, <1>7, <2>1, <2>2, <2>3, SendNews
<1> QED
  BY <1>2, <1>9, <1>10, <1>11, <1>12, RobotStep

(* A robot that is through with a tour, or at the charger, stays there.    *)
LEMMA ArriveStep ==
    ASSUME Inv, NEW r \in Robots, Arrive(r) PROVE Inv'
<1>1. /\ RobotsOwnTypeOK /\ HonestReports /\ StoreIsBehind /\ TripsInOrder
      /\ SoundTours
  BY DEF Inv
<1>2. /\ trip' = [trip EXCEPT ![r] = Parked]
      /\ UNCHANGED <<storeVars, centreVars, down, loc, battery, charging>>
  BY DEF Arrive
<1>3. /\ loc[r] \in Nodes /\ battery[r] \in Batteries
      /\ trip[r].status = "Busy" => trip[r].task \in Tasks
  BY <1>1 DEF RobotsOwnTypeOK, TripsInOrder, TripInOrder
<1>4. PICK m \in HonestMsg :
        /\ Send(r, m)
        /\ m.type # "TaskDone" => m.node = loc[r] /\ m.battery = battery[r]
  <2>1. CASE trip[r].status = "Busy"
    <3>1. TaskDone(trip[r].task) \in HonestMsg
      BY <1>3, <2>1 DEF HonestMsg, ClientMsg, TaskDone
    <3>2. TaskDone(trip[r].task).type = "TaskDone"
      BY DEF TaskDone
    <3> QED
      BY <2>1, <3>1, <3>2 DEF Arrive
  <2>2. CASE trip[r].status # "Busy"
    <3> DEFINE m == Beat(loc[r], battery[r], "Charging", FALSE)
    <3>1. m \in HonestMsg /\ m.node = loc[r] /\ m.battery = battery[r]
      BY <1>3 DEF HonestMsg, ClientMsg, Beat, Reports
    <3>2. Send(r, m)
      BY <2>2 DEF Arrive
    <3> QED
      BY <3>1, <3>2
  <2> QED
    BY <2>1, <2>2
<1>5. /\ Parked \in Trips /\ Parked.status # "Busy"
      /\ Parked.pickup = NoNode /\ ~Parked.carrying
  BY DEF Parked, Trip, Trips, Reports
<1>6. RobotsOwnTypeOK'
  BY <1>1, <1>2, <1>5 DEF RobotsOwnTypeOK
<1>7. TripsInOrder'
  <2> SUFFICES ASSUME NEW q \in Robots PROVE TripInOrder(q)'
    BY DEF TripsInOrder
  <2>1. CASE q = r
    <3>1. trip'[q] = Parked
      BY <1>1, <1>2, <2>1 DEF RobotsOwnTypeOK
    <3> QED
      BY <1>5, <3>1 DEF TripInOrder
  <2>2. CASE q # r
    <3>1. trip'[q] = trip[q] /\ loc'[q] = loc[q]
      BY <1>1, <1>2, <2>2 DEF RobotsOwnTypeOK
    <3> QED
      BY <1>1, <3>1 DEF TripInOrder, TripsInOrder
  <2> QED
    BY <2>1, <2>2
<1>8. HonestReports' /\ SoundTours'
  BY <1>1, <1>2, <1>4, SendHonest DEF SoundTours
<1>9. StoreIsBehind'
  <2>1. UNCHANGED <<location, low_battery, loc, battery>>
    BY <1>2 DEF storeVars, robotVars, centreVars
  <2>2. /\ m.type # "TaskDone" => m.node = loc'[r] /\ m.battery = battery'[r]
        /\ loc'[r] = loc[r] /\ battery'[r] = battery[r]
    BY <1>4, <2>1
  <2>3. \A q \in Robots \ {r} : loc'[q] = loc[q] /\ battery'[q] = battery[q]
    BY <2>1
  <2> QED
    BY <1>1, <1>4, <2>1, <2>2, <2>3, SendNews
<1> QED
  BY <1>2, <1>6, <1>7, <1>8, <1>9, RobotStep

----------------------------------------------------------------------------
(* The steps of a connection handler.                                      *)

(* Serving the next frame keeps the store on the robot's track, when the   *)
(* store takes over what the frame tells.                                  *)
LEMMA ServeNews ==
    ASSUME HonestReports, StoreIsBehind, NEW r \in Robots, up[r] # <<>>,
           up' = [up EXCEPT ![r] = Tail(up[r])],
           UNCHANGED <<loc, battery>>,
           \A q \in Robots \ {r} :
                location'[q] = location[q] /\ low_battery'[q] = low_battery[q],
           IF Head(up[r]).type = "TaskDone"
           THEN location'[r] = location[r] /\ low_battery'[r] = low_battery[r]
           ELSE /\ location'[r] = Head(up[r]).node
                /\ low_battery'[r] = is_low(Head(up[r]).battery)
    PROVE  StoreIsBehind'
<1> SUFFICES ASSUME NEW q \in Robots
             PROVE  /\ NoNewsAfter(q, 0)' =>
                            /\ location'[q] = loc[q]
                            /\ low_battery'[q] = is_low(battery[q])
                    /\ \A i \in 1..Len(up'[q]) :
                        up'[q][i].type # "TaskDone" /\ NoNewsAfter(q, i)' =>
                            up'[q][i].node = loc[q]
                                /\ up'[q][i].battery = battery[q]
  BY DEF StoreIsBehind, is_low
<1>1. CASE q # r
  <2>1. /\ up'[q] = up[q] /\ location'[q] = location[q]
        /\ low_battery'[q] = low_battery[q]
    BY <1>1 DEF HonestReports
  <2>2. \A i : NoNewsAfter(q, i)' <=> NoNewsAfter(q, i)
    BY <2>1 DEF NoNewsAfter
  <2>3. NoNewsAfter(q, 0) => location[q] = loc[q] /\ low_battery[q] = is_low(battery[q])
    BY DEF StoreIsBehind
  <2>4. \A i \in 1..Len(up[q]) :
            up[q][i].type # "TaskDone" /\ NoNewsAfter(q, i) =>
                up[q][i].node = loc[q] /\ up[q][i].battery = battery[q]
    BY DEF StoreIsBehind
  <2>5. NoNewsAfter(q, 0)' =>
            location'[q] = loc[q] /\ low_battery'[q] = is_low(battery[q])
    BY <2>1, <2>2, <2>3
  <2>6. \A i \in 1..Len(up'[q]) :
            up'[q][i].type # "TaskDone" /\ NoNewsAfter(q, i)' =>
                up'[q][i].node = loc[q] /\ up'[q][i].battery = battery[q]
    BY <2>1, <2>2, <2>4
  <2> QED
    BY <2>5, <2>6
<1>2. CASE q = r
  <2> DEFINE s == up[r]
             t == up'[r]
  <2>1. /\ Head(s) = s[1]
        /\ Len(s) \in Nat \ {0}
        /\ Len(t) = Len(s) - 1
        /\ \A i \in 1..Len(t) : t[i] = s[i + 1]
    <3>1. s \in Seq(HonestMsg) /\ s # <<>> /\ t = Tail(s)
      BY DEF HonestReports
    <3> HIDE DEF s, t
    <3> QED
      BY <3>1, TailLemma
  <2>2. \A i : NoNewsAfter(q, i) <=> \A j \in (i + 1)..Len(s) : s[j].type = "TaskDone"
    BY <1>2 DEF NoNewsAfter
  <2>3. \A i : NoNewsAfter(q, i)' <=> \A j \in (i + 1)..Len(t) : t[j].type = "TaskDone"
    BY <1>2 DEF NoNewsAfter
  <2>4. /\ NoNewsAfter(q, 0) => location[r] = loc[r] /\ low_battery[r] = is_low(battery[r])
        /\ \A i \in 1..Len(s) :
            s[i].type # "TaskDone" /\ NoNewsAfter(q, i) =>
                s[i].node = loc[r] /\ s[i].battery = battery[r]
    BY <1>2 DEF StoreIsBehind
  <2> HIDE DEF s, t
  <2>5. ASSUME NEW i \in 0..Len(t), NoNewsAfter(q, i)'
        PROVE  NoNewsAfter(q, i + 1)
    <3>1. \A j \in (i + 1)..Len(t) : t[j].type = "TaskDone"
      BY <2>3, <2>5
    <3>2. ASSUME NEW j \in ((i + 1) + 1)..Len(s)
          PROVE  s[j].type = "TaskDone"
      <4>1. /\ j - 1 \in (i + 1)..Len(t) /\ j - 1 \in 1..Len(t)
            /\ (j - 1) + 1 = j
        BY <2>1
      <4>2. t[j - 1] = s[j] /\ t[j - 1].type = "TaskDone"
        BY <2>1, <3>1, <4>1
      <4> QED
        BY <4>2
    <3> QED
      BY <2>2, <3>2
  <2>6. ASSUME NoNewsAfter(q, 0)'
        PROVE  location'[r] = loc[r] /\ low_battery'[r] = is_low(battery[r])
    <3>1. NoNewsAfter(q, 1)
      <4>1. 0 \in 0..Len(t) /\ 0 + 1 = 1
        BY <2>1
      <4> QED
        BY <2>5, <2>6, <4>1
    <3>2. CASE s[1].type = "TaskDone"
      <4>1. \A j \in (0 + 1)..Len(s) : s[j].type = "TaskDone"
        <5> SUFFICES ASSUME NEW j \in (0 + 1)..Len(s) PROVE s[j].type = "TaskDone"
          OBVIOUS
        <5>1. j = 1 \/ j \in (1 + 1)..Len(s)
          BY <2>1
        <5> QED
          BY <2>2, <3>1, <3>2, <5>1
      <4>2. NoNewsAfter(q, 0)
        BY <2>2, <4>1
      <4> QED
        BY <2>1, <2>4, <3>2, <4>2 DEF s
    <3>3. CASE s[1].type # "TaskDone"
      <4>1. 1 \in 1..Len(s)
        BY <2>1
      <4>2. s[1].node = loc[r] /\ s[1].battery = battery[r]
        BY <2>4, <3>1, <3>3, <4>1
      <4> QED
        BY <2>1, <3>3, <4>2 DEF s
    <3> QED
      BY <3>2, <3>3
  <2>7. ASSUME NEW i \in 1..Len(t), t[i].type # "TaskDone", NoNewsAfter(q, i)'
        PROVE  t[i].node = loc[r] /\ t[i].battery = battery[r]
    <3>1. i \in 0..Len(t) /\ i + 1 \in 1..Len(s)
      BY <2>1
    <3>2. NoNewsAfter(q, i + 1)
      BY <2>5, <2>7, <3>1
    <3> QED
      BY <2>1, <2>4, <2>7, <3>1, <3>2
  <2> QED
    BY <1>2, <2>6, <2>7 DEF t
<1> QED
  BY <1>1, <1>2

(* What a handler does touches neither the robots nor the tours.           *)
LEMMA HandlerStep ==
    ASSUME Inv, NEW r \in Robots, Handle(r),
           StoreTypeOK', CentreTypeOK', Placed', LoadedIsBusy',
           \A q \in Robots \ {r} :
                location'[q] = location[q] /\ low_battery'[q] = low_battery[q],
           IF Head(up[r]).type = "TaskDone"
           THEN location'[r] = location[r] /\ low_battery'[r] = low_battery[r]
           ELSE /\ location'[r] = Head(up[r]).node
                /\ low_battery'[r] = is_low(Head(up[r]).battery)
    PROVE  Inv'
<1>1. /\ RobotsOwnTypeOK /\ HonestReports /\ StoreIsBehind /\ TripsInOrder
      /\ SoundTours
  BY DEF Inv
<1>2. /\ up[r] # <<>>
      /\ up' = [up EXCEPT ![r] = Tail(up[r])]
      /\ UNCHANGED <<down, loc, battery, charging, trip>>
  BY DEF Handle, robotsOwn
<1>3. RobotsOwnTypeOK' /\ SoundTours' /\ TripsInOrder'
  BY <1>1, <1>2 DEF RobotsOwnTypeOK, SoundTours, TripsInOrder, TripInOrder
<1>4. HonestReports'
  <2>1. up[r] \in Seq(HonestMsg)
    BY <1>1 DEF HonestReports
  <2>2. Tail(up[r]) \in Seq(HonestMsg)
    BY <1>2, <2>1, TailLemma
  <2> QED
    BY <1>1, <1>2, <2>2 DEF HonestReports
<1>5. StoreIsBehind'
  BY <1>1, <1>2, ServeNews
<1> QED
  BY <1>3, <1>4, <1>5 DEF Inv

(* A registration brings the robot into the table, or brings it back idle  *)
(* and unloaded.                                                           *)
LEMMA RegisterStep ==
    ASSUME Inv, NEW r \in Robots, Handle(r), ApplyRegister(r, Head(up[r]))
    PROVE  Inv'
<1> DEFINE m == Head(up[r])
           low == is_low(m.battery)
<1>1. m \in HonestMsg /\ m.type = "Register"
  <2>1. up[r] \in Seq(HonestMsg) /\ up[r] # <<>>
    BY DEF Inv, HonestReports, Handle
  <2> QED
    BY <2>1, TailLemma DEF ApplyRegister
<1>2. m.node \in Nodes
  BY <1>1 DEF HonestMsg, ClientMsg
<1>3. /\ register_robot(r, low)
      /\ location' = [location EXCEPT ![r] = m.node]
      /\ carrying' = [carrying EXCEPT ![r] = FALSE]
      /\ UNCHANGED <<events, pending, free, todo>>
  BY DEF ApplyRegister, Handle
<1>4. low \in BOOLEAN
  BY DEF is_low
<1> HIDE DEF m
<1>5. StoreTypeOK /\ CentreTypeOK /\ Placed /\ LoadedIsBusy
  BY DEF Inv
<1>6. low_battery' = [low_battery EXCEPT ![r] = low]
  BY <1>3 DEF register_robot
<1>7. IF m.type = "TaskDone"
      THEN location'[r] = location[r] /\ low_battery'[r] = low_battery[r]
      ELSE location'[r] = m.node /\ low_battery'[r] = is_low(m.battery)
  <2>1. low_battery'[r] = low
    BY <1>5, <1>6 DEF StoreTypeOK, RobotsTypeOK
  <2> QED
    BY <1>1, <1>3, <1>5, <2>1 DEF CentreTypeOK
<1> HIDE DEF low
<1>8. StoreTypeOK'
  BY <1>3, <1>4, <1>5
  DEF StoreTypeOK, RobotsTypeOK, TasksTypeOK, register_robot, taskVars,
      RobotStatus, Ages, AgeCap
<1>9. CentreTypeOK'
  BY <1>2, <1>3, <1>5 DEF CentreTypeOK
<1>10. Placed'
  BY <1>2, <1>3, <1>5
  DEF Placed, register_robot, StoreTypeOK, RobotsTypeOK, CentreTypeOK
<1>11. LoadedIsBusy'
  BY <1>3, <1>5
  DEF LoadedIsBusy, register_robot, StoreTypeOK, RobotsTypeOK, CentreTypeOK
<1>12. \A q \in Robots \ {r} :
            location'[q] = location[q] /\ low_battery'[q] = low_battery[q]
  BY <1>3, <1>5, <1>6 DEF CentreTypeOK, StoreTypeOK, RobotsTypeOK
<1> QED
  BY <1>7, <1>8, <1>9, <1>10, <1>11, <1>12, HandlerStep DEF m

(* A heartbeat leaves a busy robot busy, and one that says it is loaded    *)
(* says it is busy.                                                        *)
LEMMA HeartbeatStep ==
    ASSUME Inv, NEW r \in Robots, Handle(r), ApplyHeartbeat(r, Head(up[r]))
    PROVE  Inv'
<1> DEFINE m == Head(up[r])
           low == is_low(m.battery)
           st == m.status
           hb == [status |-> st, low |-> low, delay |-> 0]
<1>1. m \in HonestMsg /\ m.type = "Heartbeat"
  <2>1. up[r] \in Seq(HonestMsg) /\ up[r] # <<>>
    BY DEF Inv, HonestReports, Handle
  <2> QED
    BY <2>1, TailLemma DEF ApplyHeartbeat
<1>2. /\ m.node \in Nodes /\ st \in Reports /\ m.carrying \in BOOLEAN
      /\ m.carrying => st = "Busy"
  BY <1>1 DEF HonestMsg, ClientMsg
<1>3. /\ apply_heartbeat(r, hb)
      /\ location' = [location EXCEPT ![r] = m.node]
      /\ carrying' = [carrying EXCEPT ![r] = m.carrying]
      /\ UNCHANGED <<events, pending, free, todo>>
  BY DEF ApplyHeartbeat, Handle
<1>4. low \in BOOLEAN
  BY DEF is_low
<1> HIDE DEF m, low, st
<1>5. StoreTypeOK /\ CentreTypeOK /\ Placed /\ LoadedIsBusy
  BY DEF Inv
<1>6. /\ status[r] # "Absent"
      /\ status' = IF status[r] = "Busy" THEN status ELSE [status EXCEPT ![r] = st]
      /\ silent' = [silent EXCEPT ![r] = 0]
      /\ low_battery' = [low_battery EXCEPT ![r] = low]
      /\ UNCHANGED <<current_task, taskVars>>
  BY <1>3 DEF apply_heartbeat
<1>7. IF m.type = "TaskDone"
      THEN location'[r] = location[r] /\ low_battery'[r] = low_battery[r]
      ELSE location'[r] = m.node /\ low_battery'[r] = is_low(m.battery)
  <2>1. low_battery'[r] = low
    BY <1>5, <1>6 DEF StoreTypeOK, RobotsTypeOK
  <2> QED
    BY <1>1, <1>3, <1>5, <2>1 DEF CentreTypeOK, low
<1>8. StoreTypeOK'
  BY <1>2, <1>4, <1>5, <1>6
  DEF StoreTypeOK, RobotsTypeOK, TasksTypeOK, taskVars, RobotStatus, Reports,
      Ages, AgeCap
<1>9. CentreTypeOK'
  BY <1>2, <1>3, <1>5 DEF CentreTypeOK
<1>10. Placed'
  BY <1>2, <1>3, <1>5, <1>6
  DEF Placed, StoreTypeOK, RobotsTypeOK, CentreTypeOK, Reports
<1>11. LoadedIsBusy'
  BY <1>2, <1>3, <1>5, <1>6
  DEF LoadedIsBusy, StoreTypeOK, RobotsTypeOK, CentreTypeOK
<1>12. \A q \in Robots \ {r} :
            location'[q] = location[q] /\ low_battery'[q] = low_battery[q]
  BY <1>3, <1>5, <1>6 DEF CentreTypeOK, StoreTypeOK, RobotsTypeOK
<1> QED
  BY <1>7, <1>8, <1>9, <1>10, <1>11, <1>12, HandlerStep DEF m

(* A report of completion goes into the event channel, no further yet.     *)
LEMMA ForwardStep ==
    ASSUME Inv, NEW r \in Robots, Handle(r), ForwardDone(r, Head(up[r]))
    PROVE  Inv'
<1> DEFINE m == Head(up[r])
<1>1. m \in HonestMsg /\ m.type = "TaskDone"
  <2>1. up[r] \in Seq(HonestMsg) /\ up[r] # <<>>
    BY DEF Inv, HonestReports, Handle
  <2> QED
    BY <2>1, TailLemma DEF ForwardDone
<1>2. <<r, m.task>> \in Robots \X Tasks
  BY <1>1 DEF HonestMsg, ClientMsg
<1>3. /\ events' = Append(events, <<r, m.task>>)
      /\ UNCHANGED <<location, carrying, pending, free, todo>>
      /\ UNCHANGED <<status, current_task, silent, low_battery>>
      /\ UNCHANGED taskVars
  BY DEF ForwardDone, Handle, storeVars, robotVars
<1>4. StoreTypeOK /\ CentreTypeOK /\ Placed /\ LoadedIsBusy
  BY DEF Inv
<1>5. events' \in Seq(Robots \X Tasks)
  BY <1>2, <1>3, <1>4, AppendLemma DEF CentreTypeOK
<1>6. StoreTypeOK' /\ Placed' /\ LoadedIsBusy'
  BY <1>3, <1>4 DEF StoreTypeOK, RobotsTypeOK, TasksTypeOK, taskVars,
                    Placed, LoadedIsBusy
<1>7. CentreTypeOK'
  BY <1>3, <1>4, <1>5 DEF CentreTypeOK
<1> HIDE DEF m
<1>8. /\ location'[r] = location[r] /\ low_battery'[r] = low_battery[r]
      /\ \A q \in Robots \ {r} :
            location'[q] = location[q] /\ low_battery'[q] = low_battery[q]
  BY <1>3
<1> QED
  BY <1>1, <1>6, <1>7, <1>8, HandlerStep DEF m

----------------------------------------------------------------------------
(* The steps of the scheduler.                                             *)

(* What the scheduler does touches neither the robots nor what they said,  *)
(* nor where the store has them.                                           *)
LEMMA CentreStep ==
    ASSUME Inv, UNCHANGED <<location, low_battery, up, robotsOwn>>,
           StoreTypeOK', CentreTypeOK', SoundTours', Placed', LoadedIsBusy'
    PROVE  Inv'
<1>1. RobotsOwnTypeOK' /\ HonestReports' /\ TripsInOrder'
  BY DEF Inv, RobotsOwnTypeOK, HonestReports, TripsInOrder, TripInOrder, robotsOwn
<1>2. StoreIsBehind'
  <2>1. StoreIsBehind /\ UNCHANGED <<location, low_battery, up, loc, battery>>
    BY DEF Inv, robotsOwn
  <2> QED
    BY <2>1, NoNews
<1> QED
  BY <1>1, <1>2 DEF Inv

(* A task comes in.                                                        *)
LEMMA SubmitStep ==
    ASSUME Inv, NEW t \in Tasks, Submit(t) PROVE Inv'
<1>1. /\ UNCHANGED <<location, carrying, free, todo, events, up, down>>
      /\ UNCHANGED robotsOwn
      /\ UNCHANGED <<status, current_task, silent, low_battery>>
      /\ pending' = pending \cup {t}
      /\ submit_task(t)
  BY DEF Submit, submit_task, robotVars
<1>2. StoreTypeOK /\ CentreTypeOK /\ Placed /\ LoadedIsBusy /\ SoundTours
  BY DEF Inv
<1>3. StoreTypeOK'
  BY <1>1, <1>2
  DEF StoreTypeOK, RobotsTypeOK, TasksTypeOK, submit_task, TaskStatus, Ages,
      AgeCap
<1>4. CentreTypeOK' /\ Placed' /\ LoadedIsBusy' /\ SoundTours'
  BY <1>1, <1>2 DEF CentreTypeOK, Placed, LoadedIsBusy, SoundTours
<1> QED
  BY <1>1, <1>3, <1>4, CentreStep

(* A report of completion is served: its robot is free and unloaded.       *)
LEMMA CompleteStep ==
    ASSUME Inv, Complete PROVE Inv'
<1> DEFINE r == Head(events)[1]
           t == Head(events)[2]
<1>1. StoreTypeOK /\ CentreTypeOK /\ Placed /\ LoadedIsBusy /\ SoundTours
  BY DEF Inv
<1>2. /\ events # <<>>
      /\ complete_task(r, t)
      /\ carrying' = [carrying EXCEPT ![r] = FALSE]
      /\ events' = Tail(events)
      /\ UNCHANGED <<location, pending, free, todo, up, down>>
      /\ UNCHANGED robotsOwn
  BY DEF Complete
<1>3. r \in Robots /\ t \in Tasks /\ Tail(events) \in Seq(Robots \X Tasks)
  BY <1>1, <1>2, TailLemma DEF CentreTypeOK
<1> HIDE DEF r, t
<1>4. CentreTypeOK' /\ SoundTours'
  BY <1>1, <1>2, <1>3 DEF CentreTypeOK, SoundTours
<1>5. CASE UNCHANGED <<status, current_task, silent, low_battery>>
  <2>a. \/ UNCHANGED <<task_status, assigned_robot, assigned_age, retry_count>>
        \/ /\ task_status' = [task_status EXCEPT ![t] = "Completed"]
           /\ assigned_age' = [assigned_age EXCEPT ![t] = 0]
           /\ UNCHANGED <<assigned_robot, retry_count>>
    BY <1>2 DEF complete_task, storeVars, taskVars
  <2>1. StoreTypeOK'
    <3>1. RobotsTypeOK'
      BY <1>1, <1>5 DEF StoreTypeOK, RobotsTypeOK
    <3>2. CASE UNCHANGED <<task_status, assigned_robot, assigned_age, retry_count>>
      BY <1>1, <3>1, <3>2 DEF StoreTypeOK, TasksTypeOK
    <3>3. CASE ~UNCHANGED <<task_status, assigned_robot, assigned_age, retry_count>>
      <4>1. /\ task_status' = [task_status EXCEPT ![t] = "Completed"]
            /\ assigned_age' = [assigned_age EXCEPT ![t] = 0]
            /\ UNCHANGED <<assigned_robot, retry_count>>
        BY <2>a, <3>3
      <4> QED
        BY <1>1, <1>3, <3>1, <4>1
        DEF StoreTypeOK, TasksTypeOK, TaskStatus, Ages, AgeCap
    <3> QED
      BY <3>2, <3>3
  <2>2. Placed' /\ LoadedIsBusy'
    BY <1>1, <1>2, <1>5 DEF Placed, LoadedIsBusy, CentreTypeOK
  <2> QED
    BY <1>2, <1>4, <1>5, <2>1, <2>2, CentreStep
<1>6. CASE ~UNCHANGED <<status, current_task, silent, low_battery>>
  <2>1. /\ status[r] # "Absent"
        /\ Release(r, "Idle")
        /\ task_status' = [task_status EXCEPT ![t] = "Completed"]
        /\ assigned_age' = [assigned_age EXCEPT ![t] = 0]
        /\ UNCHANGED <<assigned_robot, retry_count>>
    BY <1>2, <1>6 DEF complete_task, storeVars, robotVars
  <2>2. /\ status' = [status EXCEPT ![r] = "Idle"]
        /\ current_task' = [current_task EXCEPT ![r] = NoTask]
        /\ UNCHANGED <<silent, low_battery>>
    BY <2>1 DEF Release
  <2>3. StoreTypeOK'
    BY <1>1, <1>3, <2>1, <2>2
    DEF StoreTypeOK, RobotsTypeOK, TasksTypeOK, RobotStatus, TaskStatus, Ages,
        AgeCap
  <2>4. Placed'
    BY <1>1, <1>2, <1>3, <2>1, <2>2
    DEF Placed, StoreTypeOK, RobotsTypeOK, RobotStatus
  <2>5. LoadedIsBusy'
    BY <1>1, <1>2, <1>3, <2>2
    DEF LoadedIsBusy, CentreTypeOK, StoreTypeOK, RobotsTypeOK
  <2> QED
    BY <1>2, <1>4, <2>2, <2>3, <2>4, <2>5, CentreStep
<1> QED
  BY <1>5, <1>6

(* A task is taken back: the robot that the store has bound to it is free  *)
(* and unloaded, whatever it is doing.                                     *)
LEMMA ReclaimStep ==
    ASSUME Inv, NEW t \in Tasks, Reclaim(t) PROVE Inv'
<1> DEFINE r == assigned_robot[t]
           bound == r \in Robots /\ current_task[r] = t
           st == IF status[r] = "Offline" THEN "Offline" ELSE "Idle"
<1>1. StoreTypeOK /\ CentreTypeOK /\ Placed /\ LoadedIsBusy /\ SoundTours
  BY DEF Inv
<1>2. /\ reclaim(t)
      /\ carrying' = IF bound THEN [carrying EXCEPT ![r] = FALSE] ELSE carrying
      /\ pending' = IF exhausted(t) THEN pending ELSE pending \cup {t}
      /\ UNCHANGED <<location, free, todo, events, up, down>>
      /\ UNCHANGED robotsOwn
  BY DEF Reclaim
<1>3. IF bound
      THEN /\ status' = [status EXCEPT ![r] = st]
           /\ current_task' = [current_task EXCEPT ![r] = NoTask]
           /\ UNCHANGED <<silent, low_battery>>
      ELSE UNCHANGED <<status, current_task, silent, low_battery>>
  BY <1>2 DEF reclaim, Release, robotVars
<1>4. bound => status[r] # "Absent"
  BY <1>1 DEF Placed
<1>5. CentreTypeOK' /\ SoundTours'
  BY <1>1, <1>2 DEF CentreTypeOK, SoundTours
<1>6. TasksTypeOK'
  <2>1. retry_count[t] \in 0..MaxRetries
    BY <1>1 DEF StoreTypeOK, TasksTypeOK
  <2>2. PICK s \in TaskStatus, n \in 0..MaxRetries : Detach(t, s, n)
    <3>1. CASE exhausted(t)
      BY <1>2, <2>1, <3>1 DEF reclaim, TaskStatus
    <3>2. CASE ~exhausted(t)
      <4>1. retry_count[t] + 1 \in 0..MaxRetries
        BY <2>1, <3>2 DEF exhausted
      <4> QED
        BY <1>2, <3>2, <4>1 DEF reclaim, TaskStatus
    <3> QED
      BY <3>1, <3>2
  <2> QED
    BY <1>1, <2>2 DEF Detach, StoreTypeOK, TasksTypeOK, Ages, AgeCap
<1>7. st \in {"Idle", "Offline"}
  OBVIOUS
<1> HIDE DEF st
<1>8. CASE bound
  <2>1. /\ r \in Robots
        /\ status' = [status EXCEPT ![r] = st]
        /\ current_task' = [current_task EXCEPT ![r] = NoTask]
        /\ UNCHANGED <<silent, low_battery>>
        /\ carrying' = [carrying EXCEPT ![r] = FALSE]
    BY <1>2, <1>3, <1>8
  <2> HIDE DEF r
  <2>2. StoreTypeOK'
    BY <1>1, <1>6, <1>7, <2>1 DEF StoreTypeOK, RobotsTypeOK, RobotStatus
  <2>3. Placed'
    BY <1>1, <1>2, <1>4, <1>7, <1>8, <2>1 DEF Placed, StoreTypeOK, RobotsTypeOK
  <2>4. LoadedIsBusy'
    BY <1>1, <2>1 DEF LoadedIsBusy, CentreTypeOK, StoreTypeOK, RobotsTypeOK
  <2> QED
    BY <1>2, <1>5, <2>1, <2>2, <2>3, <2>4, CentreStep
<1>9. CASE ~bound
  <2>1. UNCHANGED <<status, current_task, silent, low_battery, carrying>>
    BY <1>2, <1>3, <1>9
  <2> HIDE DEF r
  <2>2. StoreTypeOK' /\ Placed' /\ LoadedIsBusy'
    BY <1>1, <1>2, <1>6, <2>1 DEF StoreTypeOK, RobotsTypeOK, Placed, LoadedIsBusy
  <2> QED
    BY <1>2, <1>5, <2>1, <2>2, CentreStep
<1> QED
  BY <1>8, <1>9

(* A round begins with candidates that the store knows the place of.       *)
LEMMA BeginRoundStep ==
    ASSUME Inv, BeginRound PROVE Inv'
<1>1. StoreTypeOK /\ CentreTypeOK /\ Placed /\ LoadedIsBusy /\ SoundTours
  BY DEF Inv
<1>2. /\ free' = {[robot |-> r, node |-> location[r]] : r \in Offered}
      /\ todo' = pending
      /\ UNCHANGED <<location, carrying, pending, events, up, down>>
      /\ UNCHANGED robotsOwn
      /\ UNCHANGED <<status, current_task, silent, low_battery>>
      /\ UNCHANGED <<task_status, assigned_robot, assigned_age, retry_count>>
  BY DEF BeginRound, storeVars, robotVars, taskVars
<1>3. \A r \in Offered : r \in Robots /\ location[r] \in Nodes
  BY <1>1 DEF Offered, available_robots, Placed
<1>4. free' \subseteq Candidates
  BY <1>2, <1>3 DEF Candidates
<1>5. CentreTypeOK'
  BY <1>1, <1>2, <1>4 DEF CentreTypeOK
<1>6. StoreTypeOK' /\ Placed' /\ LoadedIsBusy' /\ SoundTours'
  BY <1>1, <1>2
  DEF StoreTypeOK, RobotsTypeOK, TasksTypeOK, Placed, LoadedIsBusy, SoundTours
<1> QED
  BY <1>2, <1>5, <1>6, CentreStep

(* A task is handed to a candidate, with a tour that does it, or the       *)
(* candidate is found taken.                                               *)
LEMMA MatchStep ==
    ASSUME Inv, NEW t \in Tasks, Match(t) PROVE Inv'
<1>1. StoreTypeOK /\ CentreTypeOK /\ Placed /\ LoadedIsBusy /\ SoundTours
  BY DEF Inv
<1>2. PICK f \in free :
        /\ \/ /\ assign(f.robot, t)
              /\ down' = [down EXCEPT ![f.robot] = Append(down[f.robot],
                    TaskAssign(t, plan_task_route(f.node, Goals[t]),
                               Goals[t].pickup))]
              /\ pending' = pending \ {t}
           \/ UNCHANGED <<storeVars, down, pending>>
        /\ free' \subseteq free /\ todo' \subseteq todo
  BY DEF Match, nearest_robot
<1>3. /\ UNCHANGED <<location, carrying, events, up>>
      /\ UNCHANGED robotsOwn
  BY DEF Match
<1> DEFINE r == f.robot
           a == TaskAssign(t, plan_task_route(f.node, Goals[t]), Goals[t].pickup)
<1>4. r \in Robots /\ f.node \in Nodes
  BY <1>1 DEF CentreTypeOK, Candidates
<1>5. a \in SoundAssign
  <2> DEFINE path == plan_task_route(f.node, Goals[t])
  <2>1. /\ path \in Seq(Nodes)
        /\ path # <<>>
        /\ path[Len(path)] = Goals[t].dropoff
        /\ \E i \in 1..Len(path) : path[i] = Goals[t].pickup
    BY <1>4, TourLemma
  <2> HIDE DEF path
  <2>2. Goals[t].pickup \in Nodes
    OBVIOUS
  <2>3. TaskAssign(t, path, Goals[t].pickup) \in SoundAssign
    BY <2>1, <2>2 DEF SoundAssign, ServerMsg, TaskAssign
  <2> QED
    BY <2>3 DEF path
<1>6. CASE UNCHANGED <<storeVars, down, pending>>
  <2>1. /\ UNCHANGED <<status, current_task, silent, low_battery>>
        /\ UNCHANGED <<task_status, assigned_robot, assigned_age, retry_count>>
        /\ UNCHANGED <<down, pending>>
    BY <1>6 DEF storeVars, robotVars, taskVars
  <2>2. CentreTypeOK'
    BY <1>1, <1>2, <1>3, <2>1 DEF CentreTypeOK
  <2>3. StoreTypeOK' /\ Placed' /\ LoadedIsBusy' /\ SoundTours'
    BY <1>1, <1>3, <2>1
    DEF StoreTypeOK, RobotsTypeOK, TasksTypeOK, Placed, LoadedIsBusy, SoundTours
  <2> QED
    BY <1>3, <2>1, <2>2, <2>3, CentreStep
<1>7. CASE ~UNCHANGED <<storeVars, down, pending>>
  <2>1. /\ assign(r, t)
        /\ down' = [down EXCEPT ![r] = Append(down[r], a)]
        /\ pending' = pending \ {t}
    BY <1>2, <1>7
  <2> HIDE DEF r, a
  <2>2. /\ status[r] = "Idle"
        /\ status' = [status EXCEPT ![r] = "Busy"]
        /\ current_task' = [current_task EXCEPT ![r] = t]
        /\ task_status' = [task_status EXCEPT ![t] = "Assigned"]
        /\ assigned_robot' = [assigned_robot EXCEPT ![t] = r]
        /\ assigned_age' = [assigned_age EXCEPT ![t] = 0]
        /\ UNCHANGED <<silent, low_battery, retry_count>>
    BY <2>1 DEF assign
  <2>3. StoreTypeOK'
    BY <1>1, <1>4, <2>2
    DEF StoreTypeOK, RobotsTypeOK, TasksTypeOK, RobotStatus, TaskStatus, Ages,
        AgeCap
  <2>4. CentreTypeOK'
    BY <1>1, <1>2, <1>3, <2>1 DEF CentreTypeOK
  <2>5. Placed'
    BY <1>1, <1>3, <1>4, <2>2 DEF Placed, StoreTypeOK, RobotsTypeOK
  <2>6. LoadedIsBusy'
    BY <1>1, <1>3, <1>4, <2>2 DEF LoadedIsBusy, StoreTypeOK, RobotsTypeOK
  <2>7. SoundTours'
    <3>1. Append(down[r], a) \in Seq(SoundAssign)
      BY <1>1, <1>4, <1>5, AppendLemma DEF SoundTours
    <3> QED
      BY <1>1, <2>1, <3>1 DEF SoundTours
  <2> QED
    BY <1>3, <2>2, <2>3, <2>4, <2>5, <2>6, <2>7, CentreStep
<1> QED
  BY <1>6, <1>7

----------------------------------------------------------------------------
(* The theorems.                                                           *)

(* The robots come on line known to nobody, with their registration sent.  *)
LEMMA InitStep == Init => Inv
<1> SUFFICES ASSUME Init PROVE Inv
  OBVIOUS
<1>1. StoreTypeOK
  BY DEF Init, StoreInit, StoreTypeOK, RobotsTypeOK, TasksTypeOK, Ages, AgeCap
<1>2. CentreTypeOK
  BY DEF Init, CentreTypeOK
<1>3. RobotsOwnTypeOK
  <2>1. Parked \in Trips
    BY DEF Parked, Trip, Trips, Reports
  <2>2. StartBattery \subseteq Batteries
    BY DEF Batteries
  <2> QED
    BY <2>1, <2>2 DEF Init, RobotsOwnTypeOK
<1>4. \A r \in Robots : Register(loc[r], battery[r]) \in HonestMsg
  BY <1>3 DEF RobotsOwnTypeOK, HonestMsg, ClientMsg, Register
<1>5. HonestReports /\ SoundTours
  BY <1>4 DEF Init, HonestReports, SoundTours
<1>6. Placed /\ LoadedIsBusy
  BY DEF Init, StoreInit, Placed, LoadedIsBusy
<1>7. TripsInOrder
  BY DEF Init, TripsInOrder, TripInOrder, Parked, Trip
<1>8. StoreIsBehind
  <2> SUFFICES ASSUME NEW r \in Robots
               PROVE  /\ ~NoNewsAfter(r, 0)
                      /\ \A i \in 1..Len(up[r]) :
                            up[r][i].node = loc[r] /\ up[r][i].battery = battery[r]
    BY DEF StoreIsBehind
  <2>1. up[r] = <<Register(loc[r], battery[r])>>
    BY DEF Init
  <2>2. Len(up[r]) = 1 /\ up[r][1] = Register(loc[r], battery[r])
    BY <2>1
  <2>3. /\ up[r][1].type = "Register" /\ up[r][1].node = loc[r]
        /\ up[r][1].battery = battery[r]
    BY <2>2 DEF Register
  <2>4. ~NoNewsAfter(r, 0)
    BY <2>2, <2>3 DEF NoNewsAfter
  <2> QED
    BY <2>2, <2>3, <2>4
<1> QED
  BY <1>1, <1>2, <1>3, <1>5, <1>6, <1>7, <1>8 DEF Inv

(* The invariant of the fleet.                                             *)
THEOREM Invariance == Spec => []Inv
<1>1. Inv /\ [Next]_vars => Inv'
  <2> SUFFICES ASSUME Inv, [Next]_vars PROVE Inv'
    OBVIOUS
  <2>1. ASSUME NEW r \in Robots, Tick(r) PROVE Inv'
    BY <2>1, TickChargingStep, TickLowStep, TickIdleStep DEF Tick
  <2>2. ASSUME NEW r \in Robots, Handle(r) PROVE Inv'
    BY <2>2, RegisterStep, HeartbeatStep, ForwardStep DEF Handle
  <2>3. CASE UNCHANGED vars
    <3>1. /\ UNCHANGED <<storeVars, centreVars>>
          /\ UNCHANGED <<up, down, loc, battery, charging, trip>>
      BY <2>3 DEF vars, robotsOwn
    <3>2. /\ RobotsOwnTypeOK' /\ HonestReports' /\ SoundTours' /\ TripsInOrder'
      BY <3>1 DEF Inv, RobotsOwnTypeOK, HonestReports, SoundTours, TripsInOrder,
                  TripInOrder
    <3>3. UNCHANGED <<location, low_battery>>
      BY <3>1 DEF storeVars, robotVars, centreVars
    <3>4. StoreIsBehind'
      BY <3>1, <3>3, NoNews DEF Inv
    <3> QED
      BY <3>1, <3>2, <3>4, RobotStep
  <2> QED
    BY <2>1, <2>2, <2>3, TakeStep, DriveStep, LoadStep, ArriveStep, SubmitStep,
       CompleteStep, ReclaimStep, BeginRoundStep, MatchStep DEF Next
<1> QED
  BY <1>1, InitStep, PTL DEF Spec

(* Every variable keeps its type: no battery below zero or above the full, *)
(* no path that leaves the map, no retry count past the limit.             *)
THEOREM Typing == Spec => []TypeOK
<1>1. Inv => TypeOK
  <2> SUFFICES ASSUME Inv PROVE TypeOK
    OBVIOUS
  <2>1. HonestMsg \subseteq ClientMsg /\ SoundAssign \subseteq ServerMsg
    BY DEF HonestMsg, SoundAssign
  <2>2. up \in [Robots -> Seq(ClientMsg)]
    <3>1. \A r \in Robots : up[r] \in Seq(ClientMsg)
      BY <2>1, SeqMonotone DEF Inv, HonestReports
    <3> QED
      BY <3>1 DEF Inv, HonestReports
  <2>3. down \in [Robots -> Seq(ServerMsg)]
    <3>1. \A r \in Robots : down[r] \in Seq(ServerMsg)
      BY <2>1, SeqMonotone DEF Inv, SoundTours
    <3> QED
      BY <3>1 DEF Inv, SoundTours
  <2> QED
    BY <2>2, <2>3 DEF Inv, TypeOK, CentreTypeOK, RobotsOwnTypeOK
<1> QED
  BY <1>1, Invariance, PTL

(* Whatever a robot does to its place and its battery, it reports: the     *)
(* store is behind by what is in the socket and by nothing else.           *)
THEOREM Tracking == Spec => []StoreIsBehind
<1>1. Inv => StoreIsBehind
  BY DEF Inv
<1> QED
  BY <1>1, Invariance, PTL

(* A robot that the store shows loaded is one it shows at work.            *)
THEOREM Loaded == Spec => []LoadedIsBusy
<1>1. Inv => LoadedIsBusy
  BY DEF Inv
<1> QED
  BY <1>1, Invariance, PTL

(* A robot that is about to report its task done has been at the pickup    *)
(* and stands at the dropoff, on any map.                                  *)
THEOREM Delivery == Spec => []ArrivesLoaded
<1>1. Inv => ArrivesLoaded
  <2> SUFFICES ASSUME Inv, NEW r \in Robots,
                      trip[r].status = "Busy", trip[r].path = <<>>
               PROVE  trip[r].carrying /\ loc[r] = Goals[trip[r].task].dropoff
    BY DEF ArrivesLoaded
  <2>1. TripInOrder(r) /\ Len(trip[r].path) = 0
    BY EmptyLemma DEF Inv, TripsInOrder, RobotsOwnTypeOK, Trips
  <2>2. trip[r].carrying
    <3>1. ~\E i \in 1..Len(trip[r].path) : trip[r].path[i] = trip[r].pickup
      BY <2>1
    <3> QED
      BY <2>1, <3>1 DEF TripInOrder
  <2> QED
    BY <2>1, <2>2 DEF TripInOrder
<1> QED
  BY <1>1, Invariance, PTL

----------------------------------------------------------------------------
(* The fleet's tasks and their submitter.                                  *)

(* A task that waits for its turn is with no robot: it is Pending, or a    *)
(* late report has completed it meanwhile.                                 *)
Waiting ==
    /\ todo \subseteq pending
    /\ \A t \in pending : task_status[t] \in {"Pending", "Completed"}

(* A step of the fleet is a step of TaskLifecycle or nothing to the one    *)
(* who submitted the task, and leaves what waits to wait.                  *)
LEMMA LifecycleStep ==
    ASSUME Inv, Waiting, [Next]_vars
    PROVE  Waiting' /\ [Lifecycle!Next]_(Lifecycle!vars)
<1>0. /\ task_status \in [Tasks -> TaskStatus \cup {"Absent"}]
      /\ assigned_robot \in [Tasks -> Robots \cup {NoRobot}]
      /\ retry_count \in [Tasks -> 0..MaxRetries]
      /\ MaxRetries \in Nat
      /\ pending \subseteq Tasks
  BY DEF Inv, StoreTypeOK, TasksTypeOK, CentreTypeOK
<1>1. CASE UNCHANGED <<taskVars, pending, todo>>
  BY <1>1 DEF Waiting, taskVars, Lifecycle!vars
<1>2. ASSUME NEW r \in Robots, Tick(r) \/ Take(r) \/ Drive(r) \/ Load(r) \/ Arrive(r)
      PROVE  UNCHANGED <<taskVars, pending, todo>>
  BY <1>2 DEF Tick, TickCharging, TickLow, TickIdle, Take, Drive, Load, Arrive,
              storeVars, centreVars
<1>3. ASSUME NEW r \in Robots, Handle(r)
      PROVE  UNCHANGED <<taskVars, pending, todo>>
  BY <1>3 DEF Handle, ApplyRegister, ApplyHeartbeat, ForwardDone, register_robot,
              apply_heartbeat, storeVars
<1>4. ASSUME NEW t \in Tasks, Submit(t) PROVE Waiting' /\ Lifecycle!Submit(t)
  <2>1. /\ task_status[t] = "Absent"
        /\ task_status' = [task_status EXCEPT ![t] = "Pending"]
        /\ assigned_robot' = [assigned_robot EXCEPT ![t] = NoRobot]
        /\ retry_count' = [retry_count EXCEPT ![t] = 0]
        /\ pending' = pending \cup {t} /\ todo' = todo
    BY <1>4 DEF Submit, submit_task
  <2>2. Waiting'
    BY <1>0, <2>1 DEF Waiting
  <2>3. Lifecycle!Becomes(t, "Pending", NoRobot, 0)
    BY <1>0, <2>1 DEF Lifecycle!Becomes
  <2> QED
    BY <2>1, <2>2, <2>3 DEF Lifecycle!Submit
<1>5. ASSUME NEW t \in Tasks, Reclaim(t)
      PROVE  Waiting' /\ (Lifecycle!Retry(t) \/ Lifecycle!GiveUp(t))
  <2>1. task_status[t] = "Assigned" /\ t \notin pending /\ todo' = todo
    BY <1>5 DEF Reclaim, Waiting
  <2>2. CASE exhausted(t)
    <3>1. Detach(t, "Failed", retry_count[t]) /\ pending' = pending
      BY <1>5, <2>2 DEF Reclaim, reclaim
    <3>2. retry_count[t] = MaxRetries
      BY <1>0, <2>2 DEF exhausted
    <3>3. Lifecycle!Becomes(t, "Failed", NoRobot, retry_count[t])
      BY <1>0, <3>1 DEF Detach, Lifecycle!Becomes
    <3>4. Waiting'
      BY <1>0, <2>1, <3>1 DEF Detach, Waiting
    <3> QED
      BY <2>1, <3>1, <3>2, <3>3, <3>4 DEF Lifecycle!GiveUp
  <2>3. CASE ~exhausted(t)
    <3>1. Detach(t, "Pending", retry_count[t] + 1) /\ pending' = pending \cup {t}
      BY <1>5, <2>3 DEF Reclaim, reclaim
    <3>2. retry_count[t] < MaxRetries
      BY <1>0, <2>3 DEF exhausted
    <3>3. Lifecycle!Becomes(t, "Pending", NoRobot, retry_count[t] + 1)
      BY <1>0, <3>1 DEF Detach, Lifecycle!Becomes
    <3>4. Waiting'
      BY <1>0, <2>1, <3>1 DEF Detach, Waiting
    <3> QED
      BY <2>1, <3>1, <3>2, <3>3, <3>4 DEF Lifecycle!Retry
  <2> QED
    BY <2>2, <2>3
<1>6. ASSUME Complete PROVE Waiting' /\ [Lifecycle!Next]_(Lifecycle!vars)
  <2>1. /\ UNCHANGED <<pending, todo>>
        /\ complete_task(Head(events)[1], Head(events)[2])
    BY <1>6 DEF Complete
  <2>2. PICK t \in Tasks : t = Head(events)[2]
    <3>1. events \in Seq(Robots \X Tasks) /\ events # <<>>
      BY <1>6 DEF Complete, Inv, CentreTypeOK
    <3>2. Head(events) \in Robots \X Tasks
      BY <3>1, TailLemma
    <3> QED
      BY <3>2
  <2>3. CASE task_status[t] = "Absent"
    BY <1>1, <2>1, <2>2, <2>3 DEF complete_task, storeVars
  <2>4. CASE task_status[t] # "Absent"
    <3>1. /\ task_status' = [task_status EXCEPT ![t] = "Completed"]
          /\ UNCHANGED <<assigned_robot, retry_count>>
      BY <2>1, <2>2, <2>4 DEF complete_task
    <3>2. retry_count' = [retry_count EXCEPT ![t] = retry_count[t]]
      BY <1>0, <3>1
    <3> DEFINE H == [u \in Tasks |-> IF task_status[u] = "Assigned"
                                     THEN assigned_robot[u] ELSE NoRobot]
               K == [u \in Tasks |-> IF task_status'[u] = "Assigned"
                                     THEN assigned_robot[u] ELSE NoRobot]
    <3>a. K = [H EXCEPT ![t] = NoRobot]
      BY <1>0, <3>1
    <3>3. Lifecycle!Becomes(t, "Completed", NoRobot, retry_count[t])
      BY <3>1, <3>2, <3>a DEF Lifecycle!Becomes
    <3>4. Lifecycle!Complete(t)
      BY <2>1, <2>4, <3>3 DEF Lifecycle!Complete
    <3>5. Waiting'
      BY <1>0, <2>1, <3>1 DEF Waiting
    <3>6. Lifecycle!Next
      BY <2>2, <3>4 DEF Lifecycle!Next
    <3> QED
      BY <3>5, <3>6
  <2> QED
    BY <2>3, <2>4
<1>7. ASSUME BeginRound PROVE Waiting' /\ UNCHANGED Lifecycle!vars
  BY <1>7 DEF BeginRound, Waiting, storeVars, taskVars, Lifecycle!vars
<1>8. ASSUME NEW t \in Tasks, Match(t)
      PROVE  Waiting' /\ [Lifecycle!Next]_(Lifecycle!vars)
  <2>1. PICK f \in free :
            /\ \/ assign(f.robot, t) /\ pending' = pending \ {t}
               \/ UNCHANGED <<storeVars, pending>>
            /\ todo' \subseteq todo \ {t}
    BY <1>8 DEF Match, nearest_robot
  <2>2. t \in todo /\ f.robot \in Robots
    BY <1>8 DEF Match, Inv, CentreTypeOK, Candidates
  <2>3. CASE UNCHANGED <<storeVars, pending>>
    BY <2>1, <2>3 DEF Waiting, storeVars, taskVars, Lifecycle!vars
  <2>4. CASE assign(f.robot, t) /\ pending' = pending \ {t}
    <3>1. /\ task_status' = [task_status EXCEPT ![t] = "Assigned"]
          /\ assigned_robot' = [assigned_robot EXCEPT ![t] = f.robot]
          /\ UNCHANGED retry_count
      BY <2>4 DEF assign
    <3>2. retry_count' = [retry_count EXCEPT ![t] = retry_count[t]]
      BY <1>0, <3>1
    <3>3. Lifecycle!Becomes(t, "Assigned", f.robot, retry_count[t])
      BY <1>0, <2>2, <3>1, <3>2 DEF Lifecycle!Becomes
    <3>4. t \in pending /\ task_status[t] \in {"Pending", "Completed"}
      BY <2>2 DEF Waiting
    <3>5. Lifecycle!Assign(t, f.robot)
      BY <2>4, <3>3, <3>4 DEF Lifecycle!Assign
    <3>6. Waiting'
      BY <1>0, <2>1, <2>4, <3>1 DEF Waiting
    <3> QED
      BY <2>2, <3>5, <3>6 DEF Lifecycle!Next
  <2> QED
    BY <2>1, <2>3, <2>4
<1>9. CASE UNCHANGED vars
  BY <1>1, <1>9 DEF vars, storeVars, centreVars
<1> QED
  BY <1>1, <1>2, <1>3, <1>4, <1>5, <1>6, <1>7, <1>8, <1>9 DEF Next, Lifecycle!Next

(* The fleet implements TaskLifecycle, as Scheduler does: robots that      *)
(* drive, report late and are offered again by what the store last heard   *)
(* take a task through no other steps than those, and in no other line     *)
(* than the scheduler's pending table.                                     *)
THEOREM ImplementsLifecycle == Spec => LifecycleSpec
<1>1. Init => Waiting /\ Lifecycle!Init
  BY DEF Init, StoreInit, Waiting, Lifecycle!Init
<1>2. Inv /\ Waiting /\ [Next]_vars => Waiting' /\ [Lifecycle!Next]_(Lifecycle!vars)
  BY LifecycleStep
<1> QED
  BY <1>1, <1>2, Invariance, PTL DEF Spec, LifecycleSpec, Lifecycle!Spec
=============================================================================

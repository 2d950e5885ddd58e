-------------------------- MODULE FleetTourProofs --------------------------
(***************************************************************************)
(* Tours start where the robot stands, although they are planned from what *)
(* the store knew (ToursStartHere of Fleet), for any number of robots and  *)
(* tasks, any map and any capacity of the sockets.                         *)
(*                                                                         *)
(* A tour is in one of four places: on its way to the robot, driven, in    *)
(* the robot's report, in the scheduler's queue.  As long as nothing was   *)
(* reclaimed a robot has one tour at most, and the scheduler, which frees  *)
(* the robot with the last of them, has heard all the robot said of it.    *)
(* What it knows then is true until the next tour, unless it knows that    *)
(* the battery is low, when it offers the robot no task.                   *)
(***************************************************************************)
EXTENDS FleetProofs

USE NoneAssumption, NodeAssumption, BatteryAssumption, DwellAssumption,
    GoalsAssumption, RetryAssumption, TimeoutAssumption

----------------------------------------------------------------------------
(* The invariant.                                                          *)

IsNews(m) == m.type # "TaskDone"

\* The robot is on a tour, has reported one, or its report is in the queue.
OnTour(r) == trip[r].status = "Busy"
Reporting(r) == \E i \in 1..Len(up[r]) : ~IsNews(up[r][i])
Reported(r) == \E i \in 1..Len(events) : events[i][1] = r

\* It has none before it or under way.
NoTour(r) == down[r] = <<>> /\ ~OnTour(r)

\* A robot has one tour at most.
OneTour(r) ==
    /\ Len(down[r]) <= 1
    /\ \A i, j \in 1..Len(up[r]) :
            ~IsNews(up[r][i]) /\ ~IsNews(up[r][j]) => i = j
    /\ down[r] # <<>> => ~OnTour(r)
    /\ Reporting(r) => NoTour(r)
    /\ Reported(r) => NoTour(r) /\ ~Reporting(r)

\* A robot that is not Busy has none.
ToursAreBusy(r) ==
    status[r] # "Busy" => NoTour(r) /\ ~Reporting(r) /\ ~Reported(r)

\* A robot registers with its first frame, and once.
RegistersFirst(r) ==
    \A i \in 1..Len(up[r]) :
        up[r][i].type = "Register" => i = 1 /\ status[r] = "Absent"

\* A robot at rest drives nowhere, one on its way to a charger is low.
TripKind(r) ==
    /\ AtRest(r) => trip[r].path = <<>> /\ trip[r].dwell = 0
    /\ trip[r].status = "Charging" => is_low(battery[r])

\* The robot waits at n, with no reason to go away.
Stands(r, n) == AtRest(r) /\ loc[r] = n /\ ~is_low(battery[r])

\* Nothing was said between the m-th frame and the end of the last tour.
Since(r, m) ==
    \A j \in (m + 1)..Len(up[r]) : ~IsNews(up[r][j]) => j = m + 1

\* What was last heard of a robot, or will have been when the m-th frame is
\* served, holds until the next tour.
HeardStands(r) ==
    NoTour(r) /\ status[r] # "Absent" /\ ~low_battery[r] /\ Since(r, 0) =>
        Stands(r, location[r])
SaidStands(r) ==
    NoTour(r) =>
        \A m \in 1..Len(up[r]) :
            IsNews(up[r][m]) /\ ~is_low(up[r][m].battery) /\ Since(r, m) =>
                Stands(r, up[r][m].node)

\* A robot waits for its tour where that starts.
OrderStands(r) == down[r] # <<>> => Stands(r, Head(Head(down[r]).path))

Calm(r) ==
    /\ OneTour(r) /\ ToursAreBusy(r) /\ RegistersFirst(r) /\ TripKind(r)
    /\ HeardStands(r) /\ SaidStands(r) /\ OrderStands(r)

\* The candidates of a round wait where they were when it began.
OfferStands ==
    \A f \in free : /\ NoTour(f.robot) /\ Stands(f.robot, f.node)
                    /\ \A g \in free : g.robot = f.robot => g = f

ReportedOnce ==
    \A i, j \in 1..Len(events) : events[i][1] = events[j][1] => i = j

Orderly == (\A r \in Robots : Calm(r)) /\ OfferStands /\ ReportedOnce

\* A task that was counted is in the table: submitting it does not reset the
\* count.
CountedIsKnown ==
    \A t \in Tasks : task_status[t] = "Absent" => retry_count[t] = 0

TourInv == CountedIsKnown /\ (NothingReclaimed => Orderly)

----------------------------------------------------------------------------
(* What one robot's part of the invariant depends on.                      *)

(* The types that the steps below need.                                    *)
LEMMA Types ==
    ASSUME Inv, NEW r \in Robots
    PROVE  /\ up[r] \in Seq(HonestMsg) /\ down[r] \in Seq(SoundAssign)
           /\ Len(up[r]) \in Nat /\ Len(down[r]) \in Nat
           /\ loc[r] \in Nodes /\ battery[r] \in Nat /\ battery[r] <= MaxBattery
           /\ trip[r] \in Trips
           /\ events \in Seq(Robots \X Tasks) /\ Len(events) \in Nat
           /\ free \subseteq Candidates
           /\ down[r] = <<>> <=> Len(down[r]) = 0
           /\ \A i \in 1..Len(up[r]) : up[r][i] \in HonestMsg
<1>1. /\ up[r] \in Seq(HonestMsg) /\ down[r] \in Seq(SoundAssign)
      /\ loc[r] \in Nodes /\ battery[r] \in 0..MaxBattery /\ trip[r] \in Trips
      /\ events \in Seq(Robots \X Tasks) /\ free \subseteq Candidates
  BY DEF Inv, HonestReports, SoundTours, RobotsOwnTypeOK, CentreTypeOK, Batteries
<1>2. \A S : \A s \in Seq(S) : /\ Len(s) \in Nat /\ (s = <<>> <=> Len(s) = 0)
                               /\ \A i \in 1..Len(s) : s[i] \in S
  OBVIOUS
<1> QED
  BY <1>1, <1>2

(* What others do is nothing to a robot.                                   *)
LEMMA OtherRobot ==
    ASSUME NEW s, Calm(s),
           down'[s] = down[s], trip'[s] = trip[s], up'[s] = up[s],
           loc'[s] = loc[s], battery'[s] = battery[s], status'[s] = status[s],
           location'[s] = location[s], low_battery'[s] = low_battery[s],
           Reported(s)' <=> Reported(s)
    PROVE  Calm(s)'
<1>1. /\ OnTour(s)' <=> OnTour(s)
      /\ Reporting(s)' <=> Reporting(s)
      /\ NoTour(s)' <=> NoTour(s)
      /\ \A m : Since(s, m)' <=> Since(s, m)
      /\ \A n : Stands(s, n)' <=> Stands(s, n)
  BY DEF OnTour, Reporting, NoTour, Since, Stands, AtRest, is_low
<1>2. OneTour(s)'
  BY <1>1 DEF Calm, OneTour
<1>3. ToursAreBusy(s)' /\ RegistersFirst(s)'
  BY <1>1 DEF Calm, ToursAreBusy, RegistersFirst
<1>4. TripKind(s)'
  BY DEF Calm, TripKind, AtRest, is_low
<1>5. HeardStands(s)'
  BY <1>1 DEF Calm, HeardStands
<1>6. SaidStands(s)'
  BY <1>1 DEF Calm, SaidStands, is_low
<1>7. OrderStands(s)'
  BY <1>1 DEF Calm, OrderStands
<1> QED
  BY <1>2, <1>3, <1>4, <1>5, <1>6, <1>7 DEF Calm

----------------------------------------------------------------------------
(* The steps of a robot.                                                   *)

\* What a step of r leaves alone.
RobotOnly(r) ==
    /\ UNCHANGED <<storeVars, centreVars>>
    /\ \A s \in Robots \ {r} :
        /\ down'[s] = down[s] /\ trip'[s] = trip[s] /\ up'[s] = up[s]
        /\ loc'[s] = loc[s] /\ battery'[s] = battery[s]

(* A step of r is over when r is calm after it, and, being a candidate     *)
(* that waits, goes on waiting.                                            *)
LEMMA RobotCalm ==
    ASSUME Inv, Orderly, NEW r \in Robots, RobotOnly(r), Calm(r)',
           \A n \in Nodes : NoTour(r) /\ Stands(r, n)
                                => (NoTour(r) /\ Stands(r, n))'
    PROVE  Orderly'
<1>1. /\ UNCHANGED <<status, location, low_battery, events, free>>
  BY DEF RobotOnly, storeVars, robotVars, centreVars
<1>2. ASSUME NEW s \in Robots PROVE Calm(s)'
  <2>1. CASE s = r
    BY <2>1
  <2>2. CASE s # r
    <3>1. Reported(s)' <=> Reported(s)
      BY <1>1 DEF Reported
    <3> QED
      BY <1>1, <2>2, <3>1, OtherRobot DEF RobotOnly, Orderly
  <2> QED
    BY <2>1, <2>2
<1>3. ASSUME NEW f \in free PROVE (NoTour(f.robot) /\ Stands(f.robot, f.node))'
  <2>1. f.robot \in Robots /\ f.node \in Nodes
    BY Types DEF Candidates
  <2>2. NoTour(f.robot) /\ Stands(f.robot, f.node)
    BY DEF Orderly, OfferStands
  <2>3. CASE f.robot = r
    BY <2>1, <2>2, <2>3
  <2>4. CASE f.robot # r
    BY <2>1, <2>2, <2>4
      DEF RobotOnly, NoTour, OnTour, Stands, AtRest, is_low
  <2> QED
    BY <2>3, <2>4
<1>4. OfferStands' /\ ReportedOnce'
  BY <1>1, <1>3 DEF Orderly, OfferStands, ReportedOnce
<1> QED
  BY <1>2, <1>4 DEF Orderly

(* A heartbeat is sent.  What the robot waits for it still waits for, and  *)
(* off tours it does not say it has charge and go away.                    *)
LEMMA BeatCalm ==
    ASSUME Inv, Orderly, NEW r \in Robots, RobotOnly(r), UNCHANGED down,
           NEW m \in HonestMsg, m.type = "Heartbeat", Send(r, m),
           OnTour(r)' <=> OnTour(r), TripKind(r)',
           ~OnTour(r) => \A n \in Nodes : Stands(r, n) => Stands(r, n)',
           ~OnTour(r) /\ ~is_low(m.battery) =>
                \A n \in Nodes : n = m.node => Stands(r, n)'
    PROVE  Orderly'
<1> DEFINE s == up[r]
           t == up'[r]
<1>1. /\ s \in Seq(HonestMsg) /\ Len(s) \in Nat
      /\ Len(t) = Len(s) + 1
      /\ \A i \in 1..Len(s) : t[i] = s[i]
      /\ t[Len(s) + 1] = m
      /\ m.node \in Nodes
  <2>1. s \in Seq(HonestMsg) /\ t = Append(s, m)
    BY DEF Inv, HonestReports, Send
  <2>2. m.node \in Nodes
    BY DEF HonestMsg, ClientMsg
  <2> HIDE DEF s, t
  <2> QED
    BY <2>1, <2>2, AppendLemma
<1>2. Calm(r) /\ UNCHANGED <<status, location, low_battery, events, down>>
  BY DEF Orderly, RobotOnly, storeVars, robotVars, centreVars
<1>3. \A i \in 1..Len(t) : ~IsNews(t[i]) <=> i \in 1..Len(s) /\ ~IsNews(s[i])
  <2> HIDE DEF s, t
  <2> QED
    BY <1>1 DEF IsNews
<1>4. /\ Reporting(r)' <=> Reporting(r)
      /\ Reported(r)' <=> Reported(r)
      /\ NoTour(r)' <=> NoTour(r)
      /\ \A i \in 0..Len(s) : Since(r, i)' <=> Since(r, i)
  <2>1. Reporting(r)' <=> Reporting(r)
    <3>1. Reporting(r)' <=> \E i \in 1..Len(t) : ~IsNews(t[i])
      BY DEF Reporting
    <3>2. Reporting(r) <=> \E i \in 1..Len(s) : ~IsNews(s[i])
      BY DEF Reporting
    <3> HIDE DEF s, t
    <3> QED
      BY <1>1, <1>3, <3>1, <3>2
  <2>2. (Reported(r)' <=> Reported(r)) /\ (NoTour(r)' <=> NoTour(r))
    BY <1>2 DEF Reported, NoTour
  <2>3. ASSUME NEW i \in 0..Len(s) PROVE Since(r, i)' <=> Since(r, i)
    <3>1. Since(r, i)' <=> \A j \in (i + 1)..Len(t) : ~IsNews(t[j]) => j = i + 1
      BY DEF Since
    <3>2. Since(r, i) <=> \A j \in (i + 1)..Len(s) : ~IsNews(s[j]) => j = i + 1
      BY DEF Since
    <3> HIDE DEF s, t
    <3> QED
      BY <1>1, <1>3, <3>1, <3>2
  <2> QED
    BY <2>1, <2>2, <2>3
<1>5. OneTour(r)'
  <2>1. \A i, j \in 1..Len(t) : ~IsNews(t[i]) /\ ~IsNews(t[j]) => i = j
    BY <1>2, <1>3 DEF Calm, OneTour
  <2> QED
    BY <1>2, <1>4, <2>1 DEF Calm, OneTour
<1>6. ToursAreBusy(r)'
  BY <1>2, <1>4 DEF Calm, ToursAreBusy
<1>7. RegistersFirst(r)'
  <2>1. \A i \in 1..Len(t) : t[i].type = "Register" => i = 1 /\ status[r] = "Absent"
    <3>1. \A i \in 1..Len(s) : s[i].type = "Register" => i = 1 /\ status[r] = "Absent"
      BY <1>2 DEF Calm, RegistersFirst
    <3> HIDE DEF s, t
    <3> QED
      BY <1>1, <3>1
  <2> QED
    BY <1>2, <2>1 DEF RegistersFirst
<1>8. HeardStands(r)'
  <2> SUFFICES ASSUME NoTour(r)', status[r] # "Absent", ~low_battery[r],
                      Since(r, 0)'
               PROVE  \A n : n = location[r] => Stands(r, n)'
    BY <1>2 DEF HeardStands
  <2>1. Stands(r, location[r])
    BY <1>1, <1>2, <1>4 DEF Calm, HeardStands
  <2>2. ~OnTour(r) /\ location[r] \in Nodes
    BY <1>4, <2>1, Types DEF NoTour, Stands
  <2> QED
    BY <2>1, <2>2
<1>9. SaidStands(r)'
  <2> SUFFICES ASSUME NoTour(r)', NEW i \in 1..Len(t), IsNews(t[i]),
                      ~is_low(t[i].battery), Since(r, i)', NEW n, n = t[i].node
               PROVE  Stands(r, n)'
    BY DEF SaidStands, is_low
  <2>1. ~OnTour(r) /\ NoTour(r)
    BY <1>4 DEF NoTour
  <2>2. CASE i \in 1..Len(s)
    <3>1. t[i] = s[i]
      BY <1>1, <2>2
    <3>2. Since(r, i)
      BY <1>1, <1>4, <2>2
    <3>3. Stands(r, n)
      BY <1>2, <2>1, <2>2, <3>1, <3>2 DEF Calm, SaidStands
    <3>4. n \in Nodes
      BY <3>3, Types DEF Stands
    <3> QED
      BY <2>1, <3>3, <3>4
  <2>3. CASE i \notin 1..Len(s)
    <3>1. i = Len(s) + 1
      BY <1>1, <2>3
    <3>2. t[i] = m
      BY <1>1, <3>1
    <3>3. ~is_low(m.battery) /\ n = m.node /\ n \in Nodes
      BY <1>1, <3>2
    <3> QED
      BY <2>1, <3>3
  <2> QED
    BY <2>2, <2>3
<1>10. OrderStands(r)'
  <2> SUFFICES ASSUME down[r] # <<>>, NEW n, n = Head(Head(down[r]).path)
               PROVE  Stands(r, n)'
    BY <1>2 DEF OrderStands
  <2>1. Stands(r, n) /\ ~OnTour(r)
    BY <1>2 DEF Calm, OrderStands, OneTour
  <2>2. n \in Nodes
    BY <2>1, Types DEF Stands
  <2> QED
    BY <2>1, <2>2
<1>11. Calm(r)'
  BY <1>5, <1>6, <1>7, <1>8, <1>9, <1>10 DEF Calm
<1>12. ASSUME NEW n \in Nodes, NoTour(r), Stands(r, n)
       PROVE  (NoTour(r) /\ Stands(r, n))'
  <2>1. ~OnTour(r)
    BY <1>12 DEF NoTour
  <2> QED
    BY <1>4, <1>12, <2>1
<1> QED
  BY <1>11, <1>12, RobotCalm

(* Behind the only element there is none.                                  *)
LEMMA SingleLemma ==
    ASSUME NEW S, NEW s \in Seq(S), s # <<>>, Len(s) <= 1
    PROVE  Tail(s) = <<>>
<1> DEFINE k == Len(s)
           l == Len(Tail(s))
<1>1. Tail(s) \in Seq(S) /\ l = k - 1 /\ k \in Nat \ {0} /\ k <= 1
  BY TailLemma
<1>2. l = 0
  <2> HIDE DEF k, l
  <2> QED
    BY ONLY <1>1
<1> QED
  BY <1>1, <1>2, EmptyLemma

(* What a heartbeat carries.                                               *)
LEMMA BeatMsg ==
    ASSUME NEW n \in Nodes, NEW b \in Nat, b <= MaxBattery, NEW st \in Reports,
           NEW c \in BOOLEAN, c => st = "Busy"
    PROVE  /\ Beat(n, b, st, c) \in HonestMsg
           /\ Beat(n, b, st, c).type = "Heartbeat"
           /\ Beat(n, b, st, c).node = n
           /\ Beat(n, b, st, c).battery = b
<1>1. b \in Batteries
  BY DEF Batteries
<1> QED
  BY <1>1, BeatIsHonest DEF Beat

(* A robot that charges stays where it is and has no less charge than      *)
(* before.                                                                 *)
LEMMA TickChargingCalm ==
    ASSUME Inv, Orderly, NEW r \in Robots, TickCharging(r) PROVE Orderly'
<1> DEFINE b == IF battery[r] + ChargeStep < MaxBattery
                THEN battery[r] + ChargeStep ELSE MaxBattery
           m == Beat(loc[r], b, "Charging", FALSE)
<1>1. /\ AtRest(r) /\ Send(r, m)
      /\ battery' = [battery EXCEPT ![r] = b]
      /\ UNCHANGED <<storeVars, centreVars, down, loc, trip>>
  BY DEF TickCharging
<1>2. /\ b \in Nat /\ b <= MaxBattery /\ b >= battery[r] /\ battery[r] \in Nat
      /\ loc[r] \in Nodes
  <2>1. battery[r] \in Nat /\ battery[r] <= MaxBattery /\ loc[r] \in Nodes
    BY Types
  <2> QED
    BY <2>1
<1> HIDE DEF b
<1>3. m \in HonestMsg /\ m.type = "Heartbeat" /\ m.node = loc[r] /\ m.battery = b
  <2>1. b \in Batteries
    BY <1>2 DEF Batteries
  <2> QED
    BY <1>2, <2>1 DEF HonestMsg, ClientMsg, Beat, Reports
<1>4. battery'[r] = b
  BY <1>1 DEF Inv, RobotsOwnTypeOK
<1>5. ~is_low(battery[r]) => ~is_low(b)
  BY <1>2 DEF is_low
<1>6. RobotOnly(r)
  BY <1>1 DEF RobotOnly, Send, Inv, RobotsOwnTypeOK, HonestReports
<1>7. (OnTour(r)' <=> OnTour(r)) /\ TripKind(r)'
  BY <1>1 DEF OnTour, AtRest, TripKind, Orderly, Calm
<1>8. \A n \in Nodes : Stands(r, n) => Stands(r, n)'
  BY <1>1, <1>4, <1>5 DEF Stands, AtRest, is_low
<1>9. ~is_low(b) => \A n \in Nodes : n = loc[r] => Stands(r, n)'
  BY <1>1, <1>4 DEF Stands, AtRest, is_low
<1> HIDE DEF m
<1> QED
  BY <1>1, <1>3, <1>6, <1>7, <1>8, <1>9, BeatCalm

(* A robot leaves for a charger only when it is low, and then nobody       *)
(* counts on its place.                                                    *)
LEMMA TickLowCalm ==
    ASSUME Inv, Orderly, NEW r \in Robots, TickLow(r) PROVE Orderly'
<1> DEFINE path == FindPath[<<loc[r], NearestCharger[loc[r]]>>]
<1>1. /\ AtRest(r) /\ is_low(battery[r])
      /\ trip' = [trip EXCEPT ![r] = Trip("Charging", NoTask, path, NoNode)]
      /\ UNCHANGED <<storeVars, centreVars, up, down, loc, battery>>
  BY DEF TickLow
<1>2. trip'[r].status = "Charging"
  BY <1>1 DEF Trip, Inv, RobotsOwnTypeOK
<1>3. RobotOnly(r)
  BY <1>1 DEF RobotOnly, Inv, RobotsOwnTypeOK
<1>4. /\ Calm(r)
      /\ UNCHANGED <<status, location, low_battery, events, down, up, battery>>
  BY <1>1 DEF Orderly, storeVars, robotVars, centreVars
<1>5. /\ ~OnTour(r) /\ ~OnTour(r)'
      /\ \A n : ~Stands(r, n)
  BY <1>1, <1>2 DEF OnTour, AtRest, Stands
<1>6. /\ NoTour(r)' <=> NoTour(r)
      /\ Reporting(r)' <=> Reporting(r)
      /\ Reported(r)' <=> Reported(r)
      /\ \A i : Since(r, i)' <=> Since(r, i)
  BY <1>4, <1>5 DEF NoTour, Reporting, Reported, Since
<1>7. OneTour(r)' /\ ToursAreBusy(r)' /\ RegistersFirst(r)'
  BY <1>4, <1>5, <1>6 DEF Calm, OneTour, ToursAreBusy, RegistersFirst
<1>8. TripKind(r)'
  BY <1>1, <1>2 DEF TripKind, AtRest, is_low
<1>9. HeardStands(r)'
  BY <1>4, <1>5, <1>6 DEF Calm, HeardStands
<1>10. SaidStands(r)'
  BY <1>4, <1>5, <1>6 DEF Calm, SaidStands, is_low
<1>11. OrderStands(r)'
  BY <1>4, <1>5 DEF Calm, OrderStands
<1>12. Calm(r)'
  BY <1>7, <1>8, <1>9, <1>10, <1>11 DEF Calm
<1> QED
  BY <1>3, <1>5, <1>12, RobotCalm

LEMMA TickIdleCalm ==
    ASSUME Inv, Orderly, NEW r \in Robots, TickIdle(r) PROVE Orderly'
<1> DEFINE m == Beat(loc[r], battery[r], "Idle", FALSE)
<1>1. /\ AtRest(r) /\ ~is_low(battery[r]) /\ Send(r, m)
      /\ UNCHANGED <<storeVars, centreVars, down, loc, battery, trip>>
  BY DEF TickIdle, robotsOwn
<1>2. m \in HonestMsg /\ m.type = "Heartbeat" /\ m.node = loc[r]
  <2>1. battery[r] \in Batteries /\ loc[r] \in Nodes
    BY DEF Inv, RobotsOwnTypeOK
  <2> QED
    BY <2>1 DEF HonestMsg, ClientMsg, Beat, Reports
<1>3. RobotOnly(r)
  BY <1>1 DEF RobotOnly, Send, Inv, RobotsOwnTypeOK, HonestReports
<1>4. (OnTour(r)' <=> OnTour(r)) /\ TripKind(r)'
  BY <1>1 DEF OnTour, AtRest, TripKind, Orderly, Calm, is_low
<1>5. \A n \in Nodes : Stands(r, n)' <=> Stands(r, n)
  BY <1>1 DEF Stands, AtRest, is_low
<1>6. \A n \in Nodes : n = loc[r] => Stands(r, n)'
  BY <1>1 DEF Stands, AtRest, is_low
<1> HIDE DEF m
<1> QED
  BY <1>1, <1>2, <1>3, <1>4, <1>5, <1>6, BeatCalm

(* The tour that waited is driven: there was no other.                     *)
LEMMA TakeCalm ==
    ASSUME Inv, Orderly, NEW r \in Robots, Take(r) PROVE Orderly'
<1> DEFINE a == Head(down[r])
<1>1. /\ down[r] # <<>>
      /\ down' = [down EXCEPT ![r] = Tail(down[r])]
      /\ trip' = [trip EXCEPT ![r] = Trip("Busy", a.task, a.path, a.pickup)]
      /\ UNCHANGED <<storeVars, centreVars, up, loc, battery>>
  BY DEF Take
<1>2. /\ Calm(r)
      /\ UNCHANGED <<status, location, low_battery, events, up, battery>>
  BY <1>1 DEF Orderly, storeVars, robotVars, centreVars
<1>3. down'[r] = <<>>
  <2>1. down[r] \in Seq(SoundAssign) /\ Len(down[r]) <= 1
    BY <1>2, Types DEF Calm, OneTour
  <2>4. Tail(down[r]) = <<>>
    BY <1>1, <2>1, SingleLemma
  <2> QED
    BY <1>1, <2>4 DEF Inv, SoundTours
<1>4. trip'[r].status = "Busy"
  BY <1>1 DEF Trip, Inv, RobotsOwnTypeOK
<1>5. RobotOnly(r)
  BY <1>1 DEF RobotOnly, Inv, RobotsOwnTypeOK, SoundTours
<1>6. /\ OnTour(r)' /\ ~NoTour(r)' /\ ~NoTour(r)
      /\ Reporting(r)' <=> Reporting(r)
      /\ Reported(r)' <=> Reported(r)
  BY <1>1, <1>2, <1>4 DEF NoTour, OnTour, Reporting, Reported
<1>7. ~Reporting(r) /\ ~Reported(r) /\ status[r] = "Busy"
  BY <1>2, <1>6 DEF Calm, OneTour, ToursAreBusy
<1>8. OneTour(r)'
  <2>1. Len(down'[r]) <= 1
    BY <1>3
  <2> QED
    BY <1>2, <1>3, <1>6, <1>7, <2>1 DEF Calm, OneTour
<1>9. ToursAreBusy(r)' /\ RegistersFirst(r)'
  BY <1>2, <1>7 DEF Calm, ToursAreBusy, RegistersFirst
<1>10. TripKind(r)'
  BY <1>4 DEF TripKind, AtRest
<1>11. HeardStands(r)' /\ SaidStands(r)' /\ OrderStands(r)'
  BY <1>3, <1>6 DEF HeardStands, SaidStands, OrderStands
<1>12. Calm(r)'
  BY <1>8, <1>9, <1>10, <1>11 DEF Calm
<1> QED
  BY <1>5, <1>6, <1>12, RobotCalm

(* On a tour nobody counts on the robot's place, and on the way to a       *)
(* charger it says that it is low.                                         *)
LEMMA DriveCalm ==
    ASSUME Inv, Orderly, NEW r \in Robots, Drive(r) PROVE Orderly'
<1> DEFINE d == trip[r]
           n == Head(d.path)
           b == IF battery[r] > 0 THEN battery[r] - 1 ELSE 0
           m == Beat(n, b, d.status, d.carrying)
           loads == ~d.carrying /\ n = d.pickup
           e == [d EXCEPT !.path = Tail(d.path), !.carrying = d.carrying \/ loads,
                          !.dwell = IF loads THEN LoadDwell ELSE 0]
<1>1. /\ d.path # <<>> /\ Send(r, m)
      /\ loc' = [loc EXCEPT ![r] = n]
      /\ battery' = [battery EXCEPT ![r] = b]
      /\ UNCHANGED <<storeVars, centreVars, down>>
  BY DEF Drive
<1>t. trip' = [trip EXCEPT ![r] = e]
  <2>1. trip \in [Robots -> Trips] /\ d \in Trips
    BY DEF Inv, RobotsOwnTypeOK
  <2> QED
    BY <2>1 DEF Drive, Trips
<1>2. b \in Nat /\ b <= MaxBattery /\ b <= battery[r] /\ battery[r] \in Nat
  <2>1. battery[r] \in Nat /\ battery[r] <= MaxBattery
    BY Types
  <2> QED
    BY <2>1
<1>3. n \in Nodes /\ d \in Trips
  <2>1. d \in Trips /\ d.path \in Seq(Nodes)
    BY Types DEF Trips
  <2> HIDE DEF d
  <2> QED
    BY <1>1, <2>1, TailLemma
<1>4. m \in HonestMsg /\ m.type = "Heartbeat" /\ m.battery = b
  <2>1. d.carrying => d.status = "Busy"
    BY DEF Inv, TripsInOrder, TripInOrder
  <2>2. d.status \in Reports /\ d.carrying \in BOOLEAN
    BY <1>3 DEF Trips
  <2> HIDE DEF d, n, b
  <2> QED
    BY <1>2, <1>3, <2>1, <2>2, BeatMsg
<1> HIDE DEF b, n, m
<1>5. RobotOnly(r)
  BY <1>1, <1>t DEF RobotOnly, Send, Inv, RobotsOwnTypeOK, HonestReports
<1>6. ~AtRest(r)
  BY <1>1 DEF Orderly, Calm, TripKind
<1>7. trip'[r].status = d.status
  BY <1>t DEF Inv, RobotsOwnTypeOK, Trips
<1>8. battery'[r] = b
  BY <1>1 DEF Inv, RobotsOwnTypeOK
<1>9. d.status = "Charging" => is_low(b)
  <2>1. d.status = "Charging" => is_low(battery[r])
    BY DEF Orderly, Calm, TripKind
  <2> HIDE DEF d
  <2> QED
    BY <1>2, <2>1 DEF is_low
<1>10. (OnTour(r)' <=> OnTour(r)) /\ TripKind(r)'
  BY <1>6, <1>7, <1>8, <1>9 DEF OnTour, TripKind, AtRest, is_low
<1>11. ~OnTour(r) => d.status = "Charging"
  BY <1>3, <1>6 DEF OnTour, AtRest, Trips, Reports
<1>12. \A k \in Nodes : ~Stands(r, k)
  BY <1>6 DEF Stands
<1> QED
  BY <1>1, <1>4, <1>5, <1>9, <1>10, <1>11, <1>12, BeatCalm

LEMMA LoadCalm ==
    ASSUME Inv, Orderly, NEW r \in Robots, Load(r) PROVE Orderly'
<1> DEFINE d == trip[r]
           m == Beat(loc[r], battery[r], d.status, d.carrying)
<1>1. /\ d.dwell > 0 /\ Send(r, m)
      /\ trip' = [trip EXCEPT ![r].dwell = d.dwell - 1]
      /\ UNCHANGED <<storeVars, centreVars, down, loc, battery>>
  BY DEF Load
<1>2. d \in Trips
  BY Types
<1>3. m \in HonestMsg /\ m.type = "Heartbeat" /\ m.battery = battery[r]
  <2>1. d.carrying => d.status = "Busy"
    BY DEF Inv, TripsInOrder, TripInOrder
  <2>2. d.status \in Reports /\ d.carrying \in BOOLEAN
    BY <1>2 DEF Trips
  <2> HIDE DEF d
  <2> QED
    BY <2>1, <2>2, Types, BeatMsg
<1>4. RobotOnly(r)
  BY <1>1 DEF RobotOnly, Send, Inv, RobotsOwnTypeOK, HonestReports
<1>5. ~AtRest(r)
  BY <1>1 DEF Orderly, Calm, TripKind
<1>6. trip'[r].status = d.status
  BY <1>1 DEF Inv, RobotsOwnTypeOK, Trips
<1>7. d.status = "Charging" => is_low(battery[r])
  BY DEF Orderly, Calm, TripKind
<1>8. (OnTour(r)' <=> OnTour(r)) /\ TripKind(r)'
  BY <1>1, <1>5, <1>6, <1>7 DEF OnTour, TripKind, AtRest, is_low
<1>9. ~OnTour(r) => d.status = "Charging"
  BY <1>2, <1>5 DEF OnTour, AtRest, Trips, Reports
<1>10. \A k \in Nodes : ~Stands(r, k)
  BY <1>5 DEF Stands
<1> HIDE DEF m
<1> QED
  BY <1>1, <1>3, <1>4, <1>7, <1>8, <1>9, <1>10, BeatCalm

(* At the end of a tour the robot has said where it stands: either the     *)
(* store knows it, or it will with the frame before the report.            *)
LEMMA ReportCalm ==
    ASSUME Inv, Orderly, NEW r \in Robots, RobotOnly(r), UNCHANGED <<down, loc, battery>>,
           OnTour(r), AtRest(r)', ~OnTour(r)', TripKind(r)',
           NEW m \in HonestMsg, m.type = "TaskDone", Send(r, m)
    PROVE  Orderly'
<1> DEFINE s == up[r]
           t == up'[r]
<1>1. /\ s \in Seq(HonestMsg) /\ Len(s) \in Nat
      /\ Len(t) = Len(s) + 1
      /\ \A i \in 1..Len(s) : t[i] = s[i]
      /\ t[Len(s) + 1] = m
  <2>1. s \in Seq(HonestMsg) /\ t = Append(s, m)
    BY DEF Inv, HonestReports, Send
  <2> HIDE DEF s, t
  <2> QED
    BY <2>1, AppendLemma
<1>2. Calm(r) /\ UNCHANGED <<status, location, low_battery, events, down, loc, battery>>
  BY DEF Orderly, RobotOnly, storeVars, robotVars, centreVars
<1>3. /\ ~NoTour(r) /\ down[r] = <<>> /\ Len(down[r]) = 0
      /\ ~Reporting(r) /\ ~Reported(r) /\ status[r] = "Busy"
  <2>1. ~NoTour(r) /\ down[r] = <<>>
    BY <1>2 DEF NoTour, Calm, OneTour
  <2>2. Len(down[r]) = 0
    BY <2>1, Types
  <2> QED
    BY <1>2, <2>1, <2>2 DEF Calm, OneTour, ToursAreBusy
<1>4. \A i \in 1..Len(t) : ~IsNews(t[i]) <=> i = Len(s) + 1
  <2>1. \A i \in 1..Len(s) : IsNews(s[i])
    BY <1>3 DEF Reporting
  <2> HIDE DEF s, t
  <2> QED
    BY <1>1, <2>1 DEF IsNews
<1>5. NoTour(r)' /\ ~Reported(r)'
  BY <1>2, <1>3 DEF NoTour, Reported
<1>6. OneTour(r)'
  <2>1. \A i, j \in 1..Len(t) : ~IsNews(t[i]) /\ ~IsNews(t[j]) => i = j
    BY <1>4
  <2> QED
    BY <1>2, <1>3, <1>5, <2>1 DEF OneTour
<1>7. ToursAreBusy(r)'
  BY <1>2, <1>3 DEF ToursAreBusy
<1>8. RegistersFirst(r)'
  <2>1. \A i \in 1..Len(t) : t[i].type = "Register" => i = 1 /\ status[r] = "Absent"
    <3>1. \A i \in 1..Len(s) : s[i].type = "Register" => i = 1 /\ status[r] = "Absent"
      BY <1>2 DEF Calm, RegistersFirst
    <3> HIDE DEF s, t
    <3> QED
      BY <1>1, <3>1
  <2> QED
    BY <1>2, <2>1 DEF RegistersFirst
<1>9. \A i \in Nat : Since(r, i)' => i >= Len(s)
  <2> SUFFICES ASSUME NEW i \in Nat, Since(r, i)', i < Len(s) PROVE FALSE
    BY <1>1
  <2>1. \A j \in (i + 1)..Len(t) : ~IsNews(t[j]) => j = i + 1
    BY DEF Since
  <2> HIDE DEF s, t
  <2>2. Len(s) + 1 \in (i + 1)..Len(t) /\ Len(s) + 1 \in 1..Len(t)
    BY <1>1
  <2>3. Len(s) + 1 = i + 1
    BY <1>4, <2>1, <2>2
  <2> QED
    BY <1>1, <2>3
<1>10. HeardStands(r)'
  <2> SUFFICES ASSUME ~low_battery[r], Since(r, 0)'
               PROVE  \A n : n = location[r] => Stands(r, n)'
    BY <1>2 DEF HeardStands
  <2>1. Len(s) = 0
    BY <1>1, <1>9
  <2>2. NoNewsAfter(r, 0)
    BY <2>1 DEF NoNewsAfter
  <2>3. location[r] = loc[r] /\ low_battery[r] = is_low(battery[r])
    BY <2>2 DEF Inv, StoreIsBehind
  <2> QED
    BY <1>2, <2>3 DEF Stands, is_low
<1>11. SaidStands(r)'
  <2> SUFFICES ASSUME NEW i \in 1..Len(t), IsNews(t[i]),
                      ~is_low(t[i].battery), Since(r, i)', NEW n, n = t[i].node
               PROVE  Stands(r, n)'
    BY DEF SaidStands, is_low
  <2>1. i \in 1..Len(s) /\ i = Len(s)
    <3>1. i # Len(s) + 1 /\ i >= Len(s)
      BY <1>1, <1>4, <1>9
    <3> HIDE DEF s, t
    <3> QED
      BY <1>1, <3>1
  <2>2. t[i] = s[i] /\ s[i].type # "TaskDone"
    BY <1>1, <2>1 DEF IsNews
  <2>3. NoNewsAfter(r, i)
    BY <1>1, <2>1 DEF NoNewsAfter
  <2>4. s[i].node = loc[r] /\ s[i].battery = battery[r]
    BY <2>1, <2>2, <2>3 DEF Inv, StoreIsBehind
  <2> QED
    BY <1>2, <2>2, <2>4 DEF Stands, is_low
<1>12. OrderStands(r)'
  BY <1>2, <1>3 DEF OrderStands
<1>13. Calm(r)'
  BY <1>6, <1>7, <1>8, <1>10, <1>11, <1>12 DEF Calm
<1> QED
  BY <1>3, <1>13, RobotCalm

LEMMA ArriveCalm ==
    ASSUME Inv, Orderly, NEW r \in Robots, Arrive(r) PROVE Orderly'
<1>1. /\ ~AtRest(r)
      /\ trip' = [trip EXCEPT ![r] = Parked]
      /\ UNCHANGED <<storeVars, centreVars, down, loc, battery>>
      /\ \/ trip[r].status = "Busy" /\ Send(r, TaskDone(trip[r].task))
         \/ /\ trip[r].status = "Charging"
            /\ Send(r, Beat(loc[r], battery[r], "Charging", FALSE))
  BY DEF Arrive
<1>2. /\ trip'[r] = Parked /\ Parked.status = "Idle"
      /\ Parked.path = <<>> /\ Parked.dwell = 0
  BY <1>1 DEF Inv, RobotsOwnTypeOK, Parked, Trip
<1>3. AtRest(r)' /\ ~OnTour(r)' /\ TripKind(r)'
  BY <1>2 DEF AtRest, OnTour, TripKind
<1>4. RobotOnly(r)
  BY <1>1 DEF RobotOnly, Send, Inv, RobotsOwnTypeOK, HonestReports
<1>5. CASE trip[r].status = "Busy"
  <2> DEFINE m == TaskDone(trip[r].task)
  <2>1. trip[r].task \in Tasks
    BY <1>5 DEF Inv, TripsInOrder, TripInOrder
  <2>2. m \in HonestMsg /\ m.type = "TaskDone"
    BY <2>1 DEF HonestMsg, ClientMsg, TaskDone
  <2>3. Send(r, m)
    BY <1>1, <1>5
  <2>4. OnTour(r)
    BY <1>5 DEF OnTour
  <2> HIDE DEF m
  <2> QED
    BY <1>1, <1>3, <1>4, <2>2, <2>3, <2>4, ReportCalm
<1>6. CASE trip[r].status = "Charging"
  <2> DEFINE m == Beat(loc[r], battery[r], "Charging", FALSE)
  <2>1. m \in HonestMsg /\ m.type = "Heartbeat" /\ m.battery = battery[r]
    <3>1. battery[r] \in Batteries /\ loc[r] \in Nodes
      BY DEF Inv, RobotsOwnTypeOK
    <3> QED
      BY <3>1 DEF HonestMsg, ClientMsg, Beat, Reports
  <2>2. Send(r, m)
    BY <1>1, <1>6
  <2>3. is_low(battery[r]) /\ ~OnTour(r)
    BY <1>6 DEF Orderly, Calm, TripKind, OnTour
  <2>4. \A k \in Nodes : ~Stands(r, k)
    BY <1>1 DEF Stands
  <2> HIDE DEF m
  <2> QED
    BY <1>1, <1>3, <1>4, <2>1, <2>2, <2>3, <2>4, BeatCalm
<1> QED
  BY <1>1, <1>5, <1>6

----------------------------------------------------------------------------
(* The steps of a connection handler.                                      *)

\* What a step of r's handler leaves alone.
HandlerOnly(r) ==
    /\ up[r] # <<>>
    /\ up' = [up EXCEPT ![r] = Tail(up[r])]
    /\ UNCHANGED <<down, trip, loc, battery, free>>
    /\ \A s \in Robots \ {r} :
        /\ status'[s] = status[s] /\ location'[s] = location[s]
        /\ low_battery'[s] = low_battery[s]

(* Serving a frame moves the others up.                                    *)
LEMMA ServeMovesUp ==
    ASSUME Inv, NEW r \in Robots, HandlerOnly(r)
    PROVE  /\ Len(up[r]) \in Nat \ {0}
           /\ Len(up'[r]) = Len(up[r]) - 1
           /\ \A i \in 1..Len(up'[r]) : up'[r][i] = up[r][i + 1]
           /\ Head(up[r]) = up[r][1]
           /\ Head(up[r]) \in HonestMsg
           /\ \A i \in Nat : Since(r, i)' <=> Since(r, i + 1)
<1> DEFINE s == up[r]
           t == up'[r]
<1>1. /\ Len(s) \in Nat \ {0} /\ Len(t) = Len(s) - 1
      /\ \A i \in 1..Len(t) : t[i] = s[i + 1]
      /\ Head(s) = s[1] /\ Head(s) \in HonestMsg
  <2>1. s \in Seq(HonestMsg) /\ s # <<>> /\ t = Tail(s)
    BY DEF HandlerOnly, Inv, HonestReports
  <2> HIDE DEF s, t
  <2> QED
    BY <2>1, TailLemma
<1>2. ASSUME NEW i \in Nat PROVE Since(r, i)' <=> Since(r, i + 1)
  <2>1. Since(r, i)' <=> \A j \in (i + 1)..Len(t) : ~IsNews(t[j]) => j = i + 1
    BY DEF Since
  <2>2. Since(r, i + 1) <=>
            \A j \in ((i + 1) + 1)..Len(s) : ~IsNews(s[j]) => j = (i + 1) + 1
    BY DEF Since
  <2> HIDE DEF s, t
  <2>3. ASSUME \A j \in (i + 1)..Len(t) : ~IsNews(t[j]) => j = i + 1,
               NEW j \in ((i + 1) + 1)..Len(s), ~IsNews(s[j])
        PROVE  j = (i + 1) + 1
    <3>1. j - 1 \in (i + 1)..Len(t) /\ j - 1 \in 1..Len(t) /\ (j - 1) + 1 = j
      BY <1>1
    <3>2. t[j - 1] = s[j]
      BY <1>1, <3>1
    <3>3. j - 1 = i + 1
      BY <2>3, <3>1, <3>2
    <3> QED
      BY <3>3
  <2>4. ASSUME \A j \in ((i + 1) + 1)..Len(s) : ~IsNews(s[j]) => j = (i + 1) + 1,
               NEW j \in (i + 1)..Len(t), ~IsNews(t[j])
        PROVE  j = i + 1
    <3>1. j + 1 \in ((i + 1) + 1)..Len(s) /\ j \in 1..Len(t)
      BY <1>1
    <3>2. t[j] = s[j + 1]
      BY <1>1, <3>1
    <3>3. j + 1 = (i + 1) + 1
      BY <2>4, <3>1, <3>2
    <3> QED
      BY <3>3
  <2> QED
    BY <2>1, <2>2, <2>3, <2>4
<1> QED
  BY <1>1, <1>2

(* A step of r's handler is over when r is calm after it: where robots     *)
(* stand is none of its business.                                          *)
LEMMA HandlerCalm ==
    ASSUME Inv, Orderly, NEW r \in Robots, HandlerOnly(r), Calm(r)',
           \A s \in Robots \ {r} : Reported(s)' <=> Reported(s),
           ReportedOnce'
    PROVE  Orderly'
<1>1. ASSUME NEW s \in Robots PROVE Calm(s)'
  <2>1. CASE s = r
    BY <2>1
  <2>2. CASE s # r
    <3>1. up'[s] = up[s]
      BY <2>2 DEF HandlerOnly, Inv, HonestReports
    <3> QED
      BY <2>2, <3>1, OtherRobot DEF HandlerOnly, Orderly
  <2> QED
    BY <2>1, <2>2
<1>2. OfferStands'
  BY DEF Orderly, OfferStands, HandlerOnly, NoTour, OnTour, Stands, AtRest, is_low
<1> QED
  BY <1>1, <1>2 DEF Orderly

(* What the frame told is what the store knows now, and it was true.       *)
LEMMA NewsCalm ==
    ASSUME Inv, Orderly, NEW r \in Robots, HandlerOnly(r), UNCHANGED events,
           NEW m, m = Head(up[r]), IsNews(m),
           location'[r] = m.node, low_battery'[r] = is_low(m.battery),
           status'[r] # "Busy" => status[r] # "Busy"
    PROVE  Orderly'
<1> DEFINE s == up[r]
           t == up'[r]
<1>1. /\ Len(s) \in Nat \ {0} /\ Len(t) = Len(s) - 1
      /\ \A i \in 1..Len(t) : t[i] = s[i + 1]
      /\ m = s[1]
  BY ServeMovesUp
<1>2. \A i \in Nat : Since(r, i)' <=> Since(r, i + 1)
  BY ServeMovesUp
<1>3. Calm(r) /\ UNCHANGED <<down, trip, loc, battery, free>>
  BY DEF Orderly, HandlerOnly
<1>4. /\ Reporting(r)' => Reporting(r)
      /\ Reporting(r) => Reporting(r)'
      /\ NoTour(r)' <=> NoTour(r)
      /\ \A q : Reported(q)' <=> Reported(q)
      /\ \A n : Stands(r, n)' <=> Stands(r, n)
  <2>1. Reporting(r)' => Reporting(r)
    <3> SUFFICES ASSUME NEW i \in 1..Len(t), ~IsNews(t[i])
                 PROVE  \E j \in 1..Len(s) : ~IsNews(s[j])
      BY DEF Reporting
    <3> HIDE DEF s, t
    <3>1. i + 1 \in 1..Len(s) /\ t[i] = s[i + 1]
      BY <1>1
    <3> QED
      BY <3>1
  <2>2. Reporting(r) => Reporting(r)'
    <3> SUFFICES ASSUME NEW i \in 1..Len(s), ~IsNews(s[i])
                 PROVE  \E j \in 1..Len(t) : ~IsNews(t[j])
      BY DEF Reporting
    <3> HIDE DEF s, t
    <3>1. i # 1
      BY <1>1
    <3>2. i - 1 \in 1..Len(t) /\ (i - 1) + 1 = i
      BY <1>1, <3>1
    <3>3. t[i - 1] = s[i]
      BY <1>1, <3>2
    <3> QED
      BY <3>2, <3>3
  <2>3. NoTour(r)' <=> NoTour(r)
    BY <1>3 DEF NoTour, OnTour
  <2>4. \A q : Reported(q)' <=> Reported(q)
    BY DEF Reported
  <2>5. \A n : Stands(r, n)' <=> Stands(r, n)
    BY <1>3 DEF Stands, AtRest, is_low
  <2> QED
    BY <2>1, <2>2, <2>3, <2>4, <2>5
<1>5. OneTour(r)'
  <2>1. \A i, j \in 1..Len(t) : ~IsNews(t[i]) /\ ~IsNews(t[j]) => i = j
    <3>1. \A i, j \in 1..Len(s) : ~IsNews(s[i]) /\ ~IsNews(s[j]) => i = j
      BY <1>3 DEF Calm, OneTour
    <3> HIDE DEF s, t
    <3> SUFFICES ASSUME NEW i \in 1..Len(t), NEW j \in 1..Len(t),
                        ~IsNews(t[i]), ~IsNews(t[j])
                 PROVE  i = j
      OBVIOUS
    <3>2. i + 1 \in 1..Len(s) /\ j + 1 \in 1..Len(s)
      BY <1>1
    <3>3. i + 1 = j + 1
      BY <1>1, <3>1, <3>2
    <3> QED
      BY <3>3
  <2>2. Len(down'[r]) <= 1 /\ (down'[r] # <<>> => ~OnTour(r)')
    BY <1>3 DEF Calm, OneTour, OnTour
  <2>3. (Reporting(r) => NoTour(r)) /\ (Reported(r) => NoTour(r) /\ ~Reporting(r))
    BY <1>3 DEF Calm, OneTour
  <2> QED
    BY <1>4, <2>1, <2>2, <2>3 DEF OneTour
<1>6. ToursAreBusy(r)'
  BY <1>3, <1>4 DEF Calm, ToursAreBusy
<1>7. RegistersFirst(r)'
  <2>1. \A i \in 1..Len(t) : t[i].type # "Register"
    <3>1. \A i \in 1..Len(s) : s[i].type = "Register" => i = 1
      BY <1>3 DEF Calm, RegistersFirst
    <3> HIDE DEF s, t
    <3> SUFFICES ASSUME NEW i \in 1..Len(t), t[i].type = "Register" PROVE FALSE
      OBVIOUS
    <3>2. i + 1 \in 1..Len(s) /\ i + 1 # 1
      BY <1>1
    <3> QED
      BY <1>1, <3>1, <3>2
  <2> QED
    BY <2>1 DEF RegistersFirst
<1>8. TripKind(r)'
  BY <1>3 DEF Calm, TripKind, AtRest, is_low
<1>9. HeardStands(r)'
  <2> SUFFICES ASSUME NoTour(r)', ~is_low(m.battery), Since(r, 0)'
               PROVE  \A n : n = m.node => Stands(r, n)'
    BY DEF HeardStands
  <2>1. Since(r, 1) /\ NoTour(r)
    <3>1. 0 \in Nat /\ 0 + 1 = 1
      OBVIOUS
    <3> QED
      BY <1>2, <1>4, <3>1
  <2>2. 1 \in 1..Len(s) /\ s[1] = m
    <3> HIDE DEF s, t
    <3> QED
      BY <1>1
  <2>3. Stands(r, s[1].node)
    BY <1>3, <2>1, <2>2 DEF Calm, SaidStands
  <2> QED
    BY <1>4, <2>2, <2>3
<1>10. SaidStands(r)'
  <2> SUFFICES ASSUME NoTour(r)', NEW i \in 1..Len(t), IsNews(t[i]),
                      ~is_low(t[i].battery), Since(r, i)', NEW n, n = t[i].node
               PROVE  Stands(r, n)'
    BY DEF SaidStands, is_low
  <2>1. Since(r, i + 1) /\ NoTour(r)
    BY <1>2, <1>4
  <2>2. i + 1 \in 1..Len(s) /\ s[i + 1] = t[i]
    <3> HIDE DEF s, t
    <3> QED
      BY <1>1
  <2>3. Stands(r, n)
    BY <1>3, <2>1, <2>2 DEF Calm, SaidStands
  <2> QED
    BY <1>4, <2>3
<1>11. OrderStands(r)'
  BY <1>3, <1>4 DEF Calm, OrderStands
<1>12. Calm(r)' /\ ReportedOnce'
  BY <1>5, <1>6, <1>7, <1>8, <1>9, <1>10, <1>11 DEF Calm, Orderly, ReportedOnce
<1> QED
  BY <1>4, <1>12, HandlerCalm

(* A registration is of a robot that has done nothing yet; a heartbeat     *)
(* takes no robot's Busy away.                                             *)
LEMMA RegisterCalm ==
    ASSUME Inv, Orderly, NEW r \in Robots, Handle(r), ApplyRegister(r, Head(up[r]))
    PROVE  Orderly'
<1> DEFINE m == Head(up[r])
<1>1. /\ m.type = "Register" /\ up[r] # <<>>
      /\ register_robot(r, is_low(m.battery))
      /\ location' = [location EXCEPT ![r] = m.node]
      /\ up' = [up EXCEPT ![r] = Tail(up[r])]
      /\ UNCHANGED <<events, free, down, trip, loc, battery>>
  BY DEF Handle, ApplyRegister, robotsOwn
<1>2. /\ status' = [status EXCEPT ![r] = "Idle"]
      /\ low_battery' = [low_battery EXCEPT ![r] = is_low(m.battery)]
  BY <1>1 DEF register_robot
<1>3. HandlerOnly(r)
  BY <1>1, <1>2 DEF HandlerOnly, Inv, StoreTypeOK, RobotsTypeOK, CentreTypeOK
<1>4. location'[r] = m.node /\ low_battery'[r] = is_low(m.battery)
  BY <1>1, <1>2 DEF Inv, StoreTypeOK, RobotsTypeOK, CentreTypeOK
<1>5. status[r] = "Absent"
  <2>1. m = up[r][1] /\ Len(up[r]) \in Nat \ {0}
    BY <1>3, ServeMovesUp
  <2>2. 1 \in 1..Len(up[r])
    BY <2>1
  <2> QED
    BY <1>1, <2>1, <2>2 DEF Orderly, Calm, RegistersFirst
<1>6. IsNews(m)
  BY <1>1 DEF IsNews
<1> HIDE DEF m
<1> QED
  BY <1>1, <1>3, <1>4, <1>5, <1>6, NewsCalm DEF m

LEMMA HeartbeatCalm ==
    ASSUME Inv, Orderly, NEW r \in Robots, Handle(r), ApplyHeartbeat(r, Head(up[r]))
    PROVE  Orderly'
<1> DEFINE m == Head(up[r])
<1>1. /\ m.type = "Heartbeat" /\ up[r] # <<>>
      /\ apply_heartbeat(r, [status |-> m.status, low |-> is_low(m.battery),
                             delay |-> 0])
      /\ location' = [location EXCEPT ![r] = m.node]
      /\ up' = [up EXCEPT ![r] = Tail(up[r])]
      /\ UNCHANGED <<events, free, down, trip, loc, battery>>
  BY DEF Handle, ApplyHeartbeat, robotsOwn
<1>2. /\ status' = IF status[r] = "Busy" THEN status
                                         ELSE [status EXCEPT ![r] = m.status]
      /\ low_battery' = [low_battery EXCEPT ![r] = is_low(m.battery)]
  BY <1>1 DEF apply_heartbeat
<1>3. HandlerOnly(r)
  BY <1>1, <1>2 DEF HandlerOnly, Inv, StoreTypeOK, RobotsTypeOK, CentreTypeOK
<1>4. location'[r] = m.node /\ low_battery'[r] = is_low(m.battery)
  BY <1>1, <1>2 DEF Inv, StoreTypeOK, RobotsTypeOK, CentreTypeOK
<1>5. status'[r] # "Busy" => status[r] # "Busy"
  BY <1>2
<1>6. IsNews(m)
  BY <1>1 DEF IsNews
<1> HIDE DEF m
<1> QED
  BY <1>1, <1>3, <1>4, <1>5, <1>6, NewsCalm DEF m

(* The report of a tour goes from the socket to the scheduler's queue.     *)
LEMMA ForwardCalm ==
    ASSUME Inv, Orderly, NEW r \in Robots, Handle(r), ForwardDone(r, Head(up[r]))
    PROVE  Orderly'
<1> DEFINE m == Head(up[r])
           s == up[r]
           t == up'[r]
           e == <<r, m.task>>
<1>1. /\ m.type = "TaskDone" /\ up[r] # <<>>
      /\ events' = Append(events, e)
      /\ up' = [up EXCEPT ![r] = Tail(up[r])]
      /\ UNCHANGED <<status, location, low_battery, free, down, trip, loc, battery>>
  BY DEF Handle, ForwardDone, robotsOwn, storeVars, robotVars
<1>2. HandlerOnly(r)
  BY <1>1 DEF HandlerOnly
<1>3. /\ Len(s) \in Nat \ {0} /\ Len(t) = Len(s) - 1
      /\ \A i \in 1..Len(t) : t[i] = s[i + 1]
      /\ m = s[1] /\ m \in HonestMsg
  BY <1>2, ServeMovesUp
<1>4. Calm(r) /\ ReportedOnce
  BY DEF Orderly
<1>5. /\ \A i \in 1..Len(s) : ~IsNews(s[i]) <=> i = 1
      /\ Reporting(r)
  <2>1. 1 \in 1..Len(s)
    <3> HIDE DEF s, t
    <3> QED
      BY <1>3
  <2>2. ~IsNews(s[1])
    BY <1>1, <1>3 DEF IsNews
  <2>3. \A i, j \in 1..Len(s) : ~IsNews(s[i]) /\ ~IsNews(s[j]) => i = j
    BY <1>4 DEF Calm, OneTour
  <2> QED
    BY <2>1, <2>2, <2>3 DEF Reporting
<1>6. NoTour(r) /\ ~Reported(r) /\ status[r] = "Busy"
  BY <1>4, <1>5 DEF Calm, OneTour, ToursAreBusy
<1>7. NoTour(r)' /\ ~Reporting(r)'
  <2>1. NoTour(r)'
    BY <1>1, <1>6 DEF NoTour, OnTour
  <2>2. \A i \in 1..Len(t) : IsNews(t[i])
    <3> HIDE DEF s, t
    <3> SUFFICES ASSUME NEW i \in 1..Len(t) PROVE IsNews(t[i])
      OBVIOUS
    <3>1. i + 1 \in 1..Len(s) /\ i + 1 # 1 /\ t[i] = s[i + 1]
      BY <1>3
    <3> QED
      BY <1>5, <3>1
  <2> QED
    BY <2>1, <2>2 DEF Reporting
<1>8. /\ Len(events) \in Nat /\ Len(events') = Len(events) + 1
      /\ \A i \in 1..Len(events) : events'[i] = events[i]
      /\ events'[Len(events) + 1] = e
  <2>1. e \in Robots \X Tasks
    BY <1>1, <1>3 DEF HonestMsg, ClientMsg
  <2>2. events \in Seq(Robots \X Tasks)
    BY DEF Inv, CentreTypeOK
  <2> HIDE DEF e
  <2> QED
    BY <1>1, <2>1, <2>2, AppendLemma
<1>9. e[1] = r
  OBVIOUS
<1> HIDE DEF e
<1>10. ASSUME NEW q \in Robots \ {r} PROVE Reported(q)' <=> Reported(q)
  <2>1. ASSUME Reported(q)' PROVE Reported(q)
    <3>1. PICK i \in 1..Len(events') : events'[i][1] = q
      BY <2>1 DEF Reported
    <3>2. i \in 1..Len(events)
      <4>1. i # Len(events) + 1
        BY <1>8, <1>9, <3>1
      <4> QED
        BY <1>8, <4>1
    <3> QED
      BY <1>8, <3>1, <3>2 DEF Reported
  <2>2. ASSUME Reported(q) PROVE Reported(q)'
    <3>1. PICK i \in 1..Len(events) : events[i][1] = q
      BY <2>2 DEF Reported
    <3>2. i \in 1..Len(events')
      BY <1>8
    <3> QED
      BY <1>8, <3>1, <3>2 DEF Reported
  <2> QED
    BY <2>1, <2>2
<1>11. ReportedOnce'
  <2>1. \A i \in 1..Len(events) : events[i][1] # r
    BY <1>6 DEF Reported
  <2>2. \A i, j \in 1..Len(events) : events[i][1] = events[j][1] => i = j
    BY <1>4 DEF ReportedOnce
  <2> SUFFICES ASSUME NEW i \in 1..Len(events'), NEW j \in 1..Len(events'),
                      events'[i][1] = events'[j][1]
               PROVE  i = j
    BY DEF ReportedOnce
  <2>3. (i \in 1..Len(events) \/ i = Len(events) + 1)
        /\ (j \in 1..Len(events) \/ j = Len(events) + 1)
    BY <1>8
  <2> QED
    BY <1>8, <1>9, <2>1, <2>2, <2>3
<1>12. OneTour(r)'
  <2>1. \A i, j \in 1..Len(t) : ~IsNews(t[i]) /\ ~IsNews(t[j]) => i = j
    BY <1>7 DEF Reporting
  <2>2. Len(down'[r]) <= 1 /\ (down'[r] # <<>> => ~OnTour(r)')
    BY <1>1, <1>4 DEF Calm, OneTour, OnTour
  <2> QED
    BY <1>7, <2>1, <2>2 DEF OneTour
<1>13. ToursAreBusy(r)'
  BY <1>1, <1>6 DEF ToursAreBusy
<1>14. RegistersFirst(r)'
  <2>1. \A i \in 1..Len(t) : t[i].type # "Register"
    <3>1. \A i \in 1..Len(s) : s[i].type = "Register" => i = 1
      BY <1>4 DEF Calm, RegistersFirst
    <3> HIDE DEF s, t
    <3> SUFFICES ASSUME NEW i \in 1..Len(t), t[i].type = "Register" PROVE FALSE
      OBVIOUS
    <3>2. i + 1 \in 1..Len(s) /\ i + 1 # 1
      BY <1>3
    <3> QED
      BY <1>3, <3>1, <3>2
  <2> QED
    BY <2>1 DEF RegistersFirst
<1>15. TripKind(r)'
  BY <1>1, <1>4 DEF Calm, TripKind, AtRest, is_low
<1>16. \A n : Stands(r, n)' <=> Stands(r, n)
  BY <1>1 DEF Stands, AtRest, is_low
<1>17. HeardStands(r)'
  <2> SUFFICES ASSUME status[r] # "Absent", ~low_battery[r]
               PROVE  \A n : n = location[r] => Stands(r, n)'
    BY <1>1 DEF HeardStands
  <2>1. Since(r, 0)
    <3>1. \A i \in (0 + 1)..Len(s) : i \in 1..Len(s) /\ (i = 1 => i = 0 + 1)
      <4> HIDE DEF s, t
      <4> QED
        BY <1>3
    <3> QED
      BY <1>5, <3>1 DEF Since
  <2>2. Stands(r, location[r])
    BY <1>4, <1>6, <2>1 DEF Calm, HeardStands
  <2> QED
    BY <1>16, <2>2
<1>18. SaidStands(r)'
  <2> SUFFICES ASSUME NEW i \in 1..Len(t), IsNews(t[i]),
                      ~is_low(t[i].battery), Since(r, i)', NEW n, n = t[i].node
               PROVE  Stands(r, n)'
    BY DEF SaidStands, is_low
  <2>1. Since(r, i + 1)
    BY <1>2, ServeMovesUp
  <2>2. i + 1 \in 1..Len(s) /\ s[i + 1] = t[i]
    <3> HIDE DEF s, t
    <3> QED
      BY <1>3
  <2>3. Stands(r, n)
    BY <1>4, <1>6, <2>1, <2>2 DEF Calm, SaidStands
  <2> QED
    BY <1>16, <2>3
<1>19. OrderStands(r)'
  BY <1>1, <1>4, <1>16 DEF Calm, OrderStands
<1>20. Calm(r)'
  BY <1>12, <1>13, <1>14, <1>15, <1>17, <1>18, <1>19 DEF Calm
<1> QED
  BY <1>2, <1>10, <1>11, <1>20, HandlerCalm

----------------------------------------------------------------------------
(* The steps of the scheduler.                                             *)

\* What the scheduler leaves alone in every step.
SchedulerOnly ==
    UNCHANGED <<up, trip, loc, battery, location, low_battery>>

(* Robots that a step does not touch stay calm, and a candidate that drops *)
(* out of the round is nobody's concern.                                   *)
LEMMA FrameCalm ==
    ASSUME Inv, Orderly, SchedulerOnly, UNCHANGED <<down, status, events>>,
           free' \subseteq free
    PROVE  Orderly'
<1>1. \A s : Reported(s)' <=> Reported(s)
  BY DEF Reported
<1>2. \A s \in Robots : Calm(s)'
  BY <1>1, OtherRobot DEF Orderly, SchedulerOnly
<1>3. OfferStands'
  BY DEF Orderly, OfferStands, SchedulerOnly, NoTour, OnTour, Stands, AtRest, is_low
<1>4. ReportedOnce'
  BY DEF Orderly, ReportedOnce
<1> QED
  BY <1>2, <1>3, <1>4 DEF Orderly

LEMMA SubmitCalm ==
    ASSUME Inv, Orderly, NEW t \in Tasks, Submit(t) PROVE Orderly'
<1>1. /\ SchedulerOnly /\ UNCHANGED <<down, status, events>>
      /\ free' \subseteq free
  BY DEF Submit, submit_task, robotVars, robotsOwn, SchedulerOnly
<1> QED
  BY <1>1, FrameCalm

(* The robot whose report is served has no other tour: idle again, it is   *)
(* where it said.                                                          *)
LEMMA CompleteCalm ==
    ASSUME Inv, Orderly, Complete PROVE Orderly'
<1> SUFFICES ASSUME NEW e, e = Head(events) PROVE Orderly'
  OBVIOUS
<1> DEFINE r == e[1]
<1>1. /\ free = {} /\ events # <<>>
      /\ events' = Tail(events)
      /\ UNCHANGED <<location, free, up, down, trip, loc, battery>>
  BY DEF Complete, BetweenRounds, robotsOwn
<1>2. /\ e \in Robots \X Tasks /\ e = events[1]
      /\ Len(events) \in Nat \ {0} /\ Len(events') = Len(events) - 1
      /\ \A i \in 1..Len(events') : events'[i] = events[i + 1]
  <2>1. events \in Seq(Robots \X Tasks)
    BY DEF Inv, CentreTypeOK
  <2> QED
    BY <1>1, <2>1, TailLemma
<1>3. r \in Robots
  BY <1>2
<1>4. /\ UNCHANGED low_battery
      /\ \A q \in Robots \ {r} : status'[q] = status[q]
      /\ status'[r] \in {status[r], "Idle"}
  BY <1>3
  DEF Complete, complete_task, Release, storeVars, robotVars, Inv, StoreTypeOK,
      RobotsTypeOK
<1>5. Calm(r) /\ ReportedOnce
  BY <1>3 DEF Orderly
<1>6. Reported(r)
  <2>1. 1 \in 1..Len(events)
    BY <1>2
  <2> QED
    BY <1>2, <2>1 DEF Reported
<1> HIDE DEF r
<1>7. NoTour(r) /\ ~Reporting(r) /\ status[r] = "Busy"
  BY <1>5, <1>6 DEF Calm, OneTour, ToursAreBusy
<1>8. events[1][1] = r
  BY <1>2 DEF r
<1>9. ~Reported(r)'
  <2> SUFFICES ASSUME NEW i \in 1..Len(events'), events'[i][1] = r PROVE FALSE
    BY DEF Reported
  <2>1. i + 1 \in 1..Len(events) /\ 1 \in 1..Len(events) /\ i + 1 # 1
    BY <1>2
  <2>2. events[i + 1][1] = events[1][1]
    BY <1>2, <1>8
  <2> QED
    BY <1>5, <2>1, <2>2 DEF ReportedOnce
<1>10. ASSUME NEW q \in Robots \ {r} PROVE Reported(q)' <=> Reported(q)
  <2>1. ASSUME Reported(q)' PROVE Reported(q)
    <3>1. PICK i \in 1..Len(events') : events'[i][1] = q
      BY <2>1 DEF Reported
    <3>2. i + 1 \in 1..Len(events)
      BY <1>2
    <3> QED
      BY <1>2, <3>1, <3>2 DEF Reported
  <2>2. ASSUME Reported(q) PROVE Reported(q)'
    <3>1. PICK i \in 1..Len(events) : events[i][1] = q
      BY <2>2 DEF Reported
    <3>2. i # 1
      BY <1>8, <3>1
    <3>3. i - 1 \in 1..Len(events') /\ (i - 1) + 1 = i
      BY <1>2, <3>2
    <3>4. events'[i - 1][1] = q
      BY <1>2, <3>1, <3>3
    <3> QED
      BY <3>3, <3>4 DEF Reported
  <2> QED
    BY <2>1, <2>2
<1>11. /\ NoTour(r)' /\ ~Reporting(r)'
       /\ \A n : Stands(r, n)' <=> Stands(r, n)
       /\ \A i : Since(r, i)' <=> Since(r, i)
  BY <1>1, <1>7 DEF NoTour, OnTour, Reporting, Stands, AtRest, is_low, Since
<1>12. OneTour(r)'
  BY <1>1, <1>5, <1>9, <1>11 DEF Calm, OneTour, OnTour
<1>13. ToursAreBusy(r)'
  BY <1>9, <1>11 DEF ToursAreBusy
<1>14. RegistersFirst(r)'
  BY <1>1, <1>5, <1>7 DEF Calm, RegistersFirst
<1>15. TripKind(r)'
  BY <1>1, <1>5 DEF Calm, TripKind, AtRest, is_low
<1>16. HeardStands(r)'
  BY <1>1, <1>4, <1>5, <1>7, <1>11 DEF Calm, HeardStands
<1>17. SaidStands(r)'
  BY <1>1, <1>5, <1>7, <1>11 DEF Calm, SaidStands, is_low
<1>18. OrderStands(r)'
  BY <1>1, <1>5, <1>11 DEF Calm, OrderStands
<1>19. Calm(r)'
  BY <1>12, <1>13, <1>14, <1>15, <1>16, <1>17, <1>18 DEF Calm
<1>20. ASSUME NEW s \in Robots PROVE Calm(s)'
  <2>1. CASE s = r
    BY <1>19, <2>1
  <2>2. CASE s # r
    <3>1. Calm(s) /\ (Reported(s)' <=> Reported(s)) /\ status'[s] = status[s]
      BY <1>4, <1>10, <2>2 DEF Orderly
    <3> QED
      BY <1>1, <1>4, <3>1, OtherRobot
  <2> QED
    BY <2>1, <2>2
<1>21. ReportedOnce'
  <2> SUFFICES ASSUME NEW i \in 1..Len(events'), NEW j \in 1..Len(events'),
                      events'[i][1] = events'[j][1]
               PROVE  i = j
    BY DEF ReportedOnce
  <2>1. i + 1 \in 1..Len(events) /\ j + 1 \in 1..Len(events)
    BY <1>2
  <2>2. i + 1 = j + 1
    BY <1>2, <1>5, <2>1 DEF ReportedOnce
  <2> QED
    BY <2>2
<1>22. OfferStands'
  BY <1>1 DEF OfferStands
<1> QED
  BY <1>20, <1>21, <1>22 DEF Orderly

(* A round offers the robots that are idle and, as far as is known, not    *)
(* low: these wait where they were last heard of.                          *)
LEMMA BeginRoundCalm ==
    ASSUME Inv, Orderly, BeginRound PROVE Orderly'
<1>1. /\ free' = {[robot |-> r, node |-> location[r]] : r \in Offered}
      /\ SchedulerOnly /\ UNCHANGED <<down, status, events>>
  BY DEF BeginRound, storeVars, robotVars, robotsOwn, SchedulerOnly
<1>2. \A s : Reported(s)' <=> Reported(s)
  BY <1>1 DEF Reported
<1>3. \A s \in Robots : Calm(s)'
  BY <1>1, <1>2, OtherRobot DEF Orderly, SchedulerOnly
<1>4. ASSUME NEW r \in Offered PROVE NoTour(r) /\ Stands(r, location[r])
  <2>1. r \in Robots /\ status[r] = "Idle" /\ ~low_battery[r]
    BY DEF Offered, available_robots
  <2>2. Calm(r)
    BY <2>1 DEF Orderly
  <2>3. NoTour(r) /\ ~Reporting(r)
    BY <2>1, <2>2 DEF Calm, ToursAreBusy
  <2>4. Since(r, 0)
    <3>1. Len(up[r]) \in Nat
      BY <2>1, Types
    <3>2. \A i \in (0 + 1)..Len(up[r]) : i \in 1..Len(up[r])
      BY <3>1
    <3> QED
      BY <2>3, <3>2 DEF Reporting, Since
  <2> QED
    BY <2>1, <2>2, <2>3, <2>4 DEF Calm, HeardStands
<1>5. ASSUME NEW f \in free'
      PROVE  /\ NoTour(f.robot) /\ Stands(f.robot, f.node)
             /\ \A g \in free' : g.robot = f.robot => g = f
  <2>1. PICK r \in Offered : f = [robot |-> r, node |-> location[r]]
    BY <1>1
  <2>2. f.robot = r /\ f.node = location[r]
    BY <2>1
  <2>3. ASSUME NEW g \in free', g.robot = f.robot PROVE g = f
    <3>1. PICK q \in Offered : g = [robot |-> q, node |-> location[q]]
      BY <1>1
    <3>2. q = r
      BY <2>2, <2>3, <3>1
    <3> QED
      BY <2>1, <3>1, <3>2
  <2> QED
    BY <1>4, <2>2, <2>3
<1>6. OfferStands'
  BY <1>1, <1>5
  DEF OfferStands, SchedulerOnly, NoTour, OnTour, Stands, AtRest, is_low
<1>7. ReportedOnce'
  BY <1>1 DEF Orderly, ReportedOnce
<1> QED
  BY <1>3, <1>6, <1>7 DEF Orderly

(* A tour starts where it was planned from.                                *)
LEMMA TourStart ==
    ASSUME NEW from \in Nodes, NEW t \in Tasks
    PROVE  Head(plan_task_route(from, Goals[t])) = from
<1> DEFINE p == Goals[t].pickup
           d == Goals[t].dropoff
           leg1 == FindPath[<<from, p>>]
           leg2 == FindPath[<<p, d>>]
<1>1. p \in Nodes /\ d \in Nodes
  OBVIOUS
<1>2. /\ leg1 \in Seq(Nodes) /\ leg1 # <<>> /\ Head(leg1) = from
      /\ leg2 \in Seq(Nodes) /\ leg2 # <<>>
  BY <1>1, PathfinderAssumption
<1>3. plan_task_route(from, Goals[t]) = IF p = d THEN leg1 ELSE leg1 \o Tail(leg2)
  BY DEF plan_task_route
<1> HIDE DEF p, d, leg1, leg2
<1> DEFINE rest == Tail(leg2)
           path == leg1 \o rest
<1>4. rest \in Seq(Nodes) /\ Len(leg1) \in Nat \ {0} /\ leg1[1] = from
  BY <1>2, TailLemma
<1>5. Head(path) = from
  <2> HIDE DEF rest
  <2>1. /\ path \in Seq(Nodes) /\ Len(path) = Len(leg1) + Len(rest)
        /\ Len(rest) \in Nat
        /\ \A i \in 1..Len(leg1) : path[i] = leg1[i]
    BY <1>2, <1>4, ConcatLemma
  <2> HIDE DEF path
  <2>2. path[1] = from
    BY <1>4, <2>1
  <2>3. path # <<>>
    BY <1>4, <2>1
  <2> QED
    BY <2>1, <2>2, <2>3, TailLemma
<1> QED
  BY <1>2, <1>3, <1>5

(* The candidate that gets the task still waits where the round has it,    *)
(* and has no other tour.                                                  *)
LEMMA MatchCalm ==
    ASSUME Inv, Orderly, NEW t \in Tasks, Match(t) PROVE Orderly'
<1>1. PICK f \in free :
        /\ \/ /\ assign(f.robot, t)
              /\ down' = [down EXCEPT ![f.robot] = Append(down[f.robot],
                    TaskAssign(t, plan_task_route(f.node, Goals[t]),
                               Goals[t].pickup))]
           \/ UNCHANGED <<storeVars, down>>
        /\ free' \subseteq free \ {f}
  BY DEF Match, nearest_robot
<1>2. UNCHANGED <<location, events, up, trip, loc, battery>>
  BY DEF Match, robotsOwn
<1>3. CASE UNCHANGED <<storeVars, down>>
  BY <1>1, <1>2, <1>3, FrameCalm DEF SchedulerOnly, storeVars, robotVars
<1> DEFINE r == f.robot
           a == TaskAssign(t, plan_task_route(f.node, Goals[t]), Goals[t].pickup)
<1>4. CASE assign(r, t) /\ down' = [down EXCEPT ![r] = Append(down[r], a)]
  <2>1. /\ r \in Robots /\ f.node \in Nodes
        /\ NoTour(r) /\ Stands(r, f.node)
        /\ \A g \in free : g.robot = r => g = f
    BY Types DEF Candidates, Orderly, OfferStands, Inv, CentreTypeOK
  <2>2. Head(a.path) = f.node
    BY <2>1, TourStart DEF TaskAssign
  <2> HIDE DEF r, a
  <2>3. /\ status[r] = "Idle"
        /\ status' = [status EXCEPT ![r] = "Busy"]
        /\ UNCHANGED low_battery
    BY <1>4 DEF assign
  <2>4. /\ status'[r] = "Busy" /\ down'[r] = Append(down[r], a)
        /\ \A s \in Robots \ {r} : status'[s] = status[s] /\ down'[s] = down[s]
    BY <1>4, <2>1, <2>3 DEF Inv, StoreTypeOK, RobotsTypeOK, SoundTours
  <2>5. Calm(r) /\ ReportedOnce
    BY <2>1 DEF Orderly
  <2>6. ~Reporting(r) /\ ~Reported(r)
    BY <2>3, <2>5 DEF Calm, ToursAreBusy
  <2>7. Len(down'[r]) = 1 /\ down'[r] # <<>> /\ Head(down'[r]) = a
    <3>1. down[r] = <<>>
      BY <2>1 DEF NoTour
    <3> QED
      BY <2>4, <3>1
  <2>8. /\ ~NoTour(r)' /\ ~OnTour(r)'
        /\ ~Reporting(r)'
        /\ \A s : Reported(s)' <=> Reported(s)
        /\ \A n : Stands(r, n)' <=> Stands(r, n)
    BY <1>2, <2>1, <2>6, <2>7
    DEF NoTour, OnTour, Reporting, Reported, Stands, AtRest, is_low
  <2>9. OneTour(r)'
    <3>1. \A i, j \in 1..Len(up'[r]) : ~IsNews(up'[r][i]) /\ ~IsNews(up'[r][j]) => i = j
      BY <2>8 DEF Reporting
    <3>2. Len(down'[r]) <= 1
      BY <2>7
    <3> QED
      BY <2>6, <2>8, <3>1, <3>2 DEF OneTour
  <2>10. ToursAreBusy(r)'
    BY <2>4 DEF ToursAreBusy
  <2>11. RegistersFirst(r)'
    BY <1>2, <2>3, <2>5 DEF Calm, RegistersFirst
  <2>12. TripKind(r)'
    BY <1>2, <2>5 DEF Calm, TripKind, AtRest, is_low
  <2>13. HeardStands(r)' /\ SaidStands(r)'
    BY <2>8 DEF HeardStands, SaidStands
  <2>14. OrderStands(r)'
    <3> SUFFICES ASSUME NEW n, n = Head(Head(down'[r]).path) PROVE Stands(r, n)'
      BY DEF OrderStands
    <3>1. n = f.node
      BY <2>2, <2>7
    <3> QED
      BY <2>1, <2>8, <3>1
  <2>15. Calm(r)'
    BY <2>9, <2>10, <2>11, <2>12, <2>13, <2>14 DEF Calm
  <2>16. ASSUME NEW s \in Robots PROVE Calm(s)'
    <3>1. CASE s = r
      BY <2>15, <3>1
    <3>2. CASE s # r
      <4>1. Calm(s) /\ (Reported(s)' <=> Reported(s))
        BY <2>8 DEF Orderly
      <4> QED
        BY <1>2, <2>3, <2>4, <3>2, <4>1, OtherRobot
    <3> QED
      BY <3>1, <3>2
  <2>17. OfferStands'
    <3> SUFFICES ASSUME NEW g \in free'
                 PROVE  (NoTour(g.robot) /\ Stands(g.robot, g.node))'
      BY <1>1 DEF OfferStands, Orderly
    <3>1. g \in free /\ g.robot \in Robots /\ g.robot # r
      BY <1>1, <2>1, Types DEF Candidates, Inv, CentreTypeOK
    <3>2. NoTour(g.robot) /\ Stands(g.robot, g.node)
      BY <3>1 DEF Orderly, OfferStands
    <3>3. down'[g.robot] = down[g.robot]
      BY <2>4, <3>1
    <3> QED
      BY <1>2, <3>2, <3>3 DEF NoTour, OnTour, Stands, AtRest, is_low
  <2>18. ReportedOnce'
    BY <1>2, <2>5 DEF ReportedOnce
  <2> QED
    BY <2>16, <2>17, <2>18 DEF Orderly
<1> QED
  BY <1>1, <1>3, <1>4

----------------------------------------------------------------------------
(* The count of retries.                                                   *)

\* No task becomes unknown, and no count becomes 0.
CountsStand ==
    \A t \in Tasks :
        /\ task_status'[t] = "Absent" =>
                task_status[t] = "Absent" /\ retry_count'[t] = retry_count[t]
        /\ retry_count'[t] = 0 => retry_count[t] = 0

(* Nothing resets a count: submitting a task does, and finds it 0.         *)
LEMMA Counts ==
    ASSUME Inv, CountedIsKnown, [Next]_vars PROVE CountsStand
<1>1. /\ task_status \in [Tasks -> TaskStatus \cup {"Absent"}]
      /\ retry_count \in [Tasks -> 0..MaxRetries]
  BY DEF Inv, StoreTypeOK, TasksTypeOK
<1>2. CASE UNCHANGED taskVars
  BY <1>2 DEF CountsStand, taskVars
<1>3. ASSUME NEW t \in Tasks, Submit(t) PROVE CountsStand
  <2>1. /\ task_status[t] = "Absent"
        /\ task_status' = [task_status EXCEPT ![t] = "Pending"]
        /\ retry_count' = [retry_count EXCEPT ![t] = 0]
    BY <1>3 DEF Submit, submit_task
  <2>2. retry_count[t] = 0
    BY <2>1 DEF CountedIsKnown
  <2> QED
    BY <1>1, <2>1, <2>2 DEF CountsStand
<1>4. ASSUME NEW t \in Tasks, Reclaim(t) PROVE CountsStand
  <2>1. PICK st \in {"Failed", "Pending"}, n \in {retry_count[t], retry_count[t] + 1} :
            Detach(t, st, n)
    BY <1>4 DEF Reclaim, reclaim
  <2>2. /\ task_status' = [task_status EXCEPT ![t] = st]
        /\ retry_count' = [retry_count EXCEPT ![t] = n]
    BY <2>1 DEF Detach
  <2>3. n = 0 => retry_count[t] = 0
    <3>1. retry_count[t] \in Nat
      BY <1>1
    <3> QED
      BY <3>1
  <2> QED
    BY <1>1, <2>2, <2>3 DEF CountsStand
<1>5. ASSUME NEW t \in Tasks, Match(t) PROVE CountsStand
  <2>1. CASE UNCHANGED storeVars
    BY <1>2, <2>1 DEF storeVars
  <2>2. CASE ~UNCHANGED storeVars
    <3>1. /\ task_status' = [task_status EXCEPT ![t] = "Assigned"]
          /\ UNCHANGED retry_count
      BY <1>5, <2>2 DEF Match, assign
    <3> QED
      BY <1>1, <3>1 DEF CountsStand
  <2> QED
    BY <2>1, <2>2
<1>6. ASSUME Complete PROVE CountsStand
  <2>1. CASE UNCHANGED storeVars
    BY <1>2, <2>1 DEF storeVars
  <2>2. CASE ~UNCHANGED storeVars
    <3>1. PICK t : /\ task_status' = [task_status EXCEPT ![t] = "Completed"]
                   /\ UNCHANGED retry_count
      BY <1>6, <2>2 DEF Complete, complete_task
    <3> QED
      BY <1>1, <3>1 DEF CountsStand
  <2> QED
    BY <2>1, <2>2
<1>7. ASSUME NEW r \in Robots, Handle(r) PROVE UNCHANGED taskVars
  BY <1>7 DEF Handle, ApplyRegister, ApplyHeartbeat, ForwardDone, register_robot,
              apply_heartbeat, storeVars
<1>8. ASSUME NEW r \in Robots, Tick(r) \/ Take(r) \/ Drive(r) \/ Load(r) \/ Arrive(r)
      PROVE  UNCHANGED taskVars
  BY <1>8 DEF Tick, TickCharging, TickLow, TickIdle, Take, Drive, Load, Arrive,
              storeVars
<1>9. ASSUME BeginRound PROVE UNCHANGED taskVars
  BY <1>9 DEF BeginRound, storeVars
<1>10. CASE UNCHANGED vars
  BY <1>2, <1>10 DEF vars, storeVars
<1> QED
  BY <1>2, <1>3, <1>4, <1>5, <1>6, <1>7, <1>8, <1>9, <1>10 DEF Next

(* Taking a task back for the first time counts.                           *)
LEMMA FirstReclaimCounts ==
    ASSUME Inv, NothingReclaimed, NEW t \in Tasks, Reclaim(t)
    PROVE  ~NothingReclaimed'
<1>1. retry_count[t] = 0 /\ MaxRetries > 0 /\ MaxRetries \in Nat
  BY DEF NothingReclaimed
<1>2. ~exhausted(t)
  BY <1>1 DEF exhausted
<1>3. Detach(t, "Pending", retry_count[t] + 1)
  BY <1>2 DEF Reclaim, reclaim
<1>4. retry_count'[t] = 1
  <2>1. retry_count[t] + 1 = 1
    BY <1>1
  <2>2. retry_count' = [retry_count EXCEPT ![t] = 1]
    BY <1>3, <2>1 DEF Detach
  <2> QED
    BY <2>2 DEF Inv, StoreTypeOK, TasksTypeOK
<1> QED
  BY <1>4 DEF NothingReclaimed

----------------------------------------------------------------------------
(* The theorem.                                                            *)

LEMMA InitTours == Init => TourInv
<1> SUFFICES ASSUME Init PROVE TourInv
  OBVIOUS
<1>1. CountedIsKnown
  BY DEF Init, StoreInit, CountedIsKnown
<1>2. ASSUME NEW r \in Robots PROVE Calm(r)
  <2>1. /\ up[r] = <<Register(loc[r], battery[r])>> /\ down[r] = <<>>
        /\ trip[r] = Parked /\ status[r] = "Absent" /\ events = <<>>
    BY <1>2 DEF Init, StoreInit
  <2>2. /\ Len(up[r]) = 1 /\ up[r][1] = Register(loc[r], battery[r])
        /\ Len(down[r]) = 0 /\ Len(events) = 0
    BY <2>1
  <2>3. /\ up[r][1].type = "Register" /\ up[r][1].node = loc[r]
        /\ up[r][1].battery = battery[r]
    BY <2>2 DEF Register
  <2>4. trip[r].status = "Idle" /\ trip[r].path = <<>> /\ trip[r].dwell = 0
    BY <2>1 DEF Parked, Trip
  <2>5. \A i \in 1..Len(up[r]) : i = 1 /\ IsNews(up[r][i])
    BY <2>2, <2>3 DEF IsNews
  <2>6. NoTour(r) /\ ~Reporting(r) /\ ~Reported(r)
    BY <2>1, <2>2, <2>4, <2>5 DEF NoTour, OnTour, Reporting, Reported
  <2>7. OneTour(r)
    BY <2>1, <2>2, <2>5, <2>6 DEF OneTour
  <2>8. ToursAreBusy(r) /\ RegistersFirst(r) /\ TripKind(r)
    BY <2>1, <2>4, <2>5, <2>6 DEF ToursAreBusy, RegistersFirst, TripKind
  <2>9. SaidStands(r)
    <3> SUFFICES ASSUME NEW i \in 1..Len(up[r]), ~is_low(up[r][i].battery)
                 PROVE  Stands(r, up[r][i].node)
      BY DEF SaidStands
    <3> QED
      BY <2>3, <2>4, <2>5 DEF Stands, AtRest
  <2>10. HeardStands(r) /\ OrderStands(r)
    BY <2>1 DEF HeardStands, OrderStands
  <2> QED
    BY <2>7, <2>8, <2>9, <2>10 DEF Calm
<1>3. OfferStands /\ ReportedOnce
  BY DEF Init, OfferStands, ReportedOnce
<1> QED
  BY <1>1, <1>2, <1>3 DEF TourInv, Orderly

LEMMA TourStep ==
    ASSUME Inv, TourInv, [Next]_vars PROVE TourInv'
<1>1. CountsStand
  BY Counts DEF TourInv
<1>2. CountedIsKnown'
  BY <1>1 DEF CountsStand, CountedIsKnown, TourInv
<1>3. NothingReclaimed' => NothingReclaimed
  BY <1>1 DEF CountsStand, NothingReclaimed
<1>4. ASSUME NothingReclaimed' PROVE Orderly'
  <2>1. Orderly /\ NothingReclaimed
    BY <1>3, <1>4 DEF TourInv
  <2>2. ASSUME NEW r \in Robots, Tick(r) PROVE Orderly'
    BY <2>1, <2>2, TickChargingCalm, TickLowCalm, TickIdleCalm DEF Tick
  <2>3. ASSUME NEW r \in Robots, Handle(r) PROVE Orderly'
    BY <2>1, <2>3, RegisterCalm, HeartbeatCalm, ForwardCalm DEF Handle
  <2>4. ASSUME NEW t \in Tasks, Reclaim(t) PROVE FALSE
    BY <1>4, <2>1, <2>4, FirstReclaimCounts
  <2>5. CASE UNCHANGED vars
    <3>1. /\ SchedulerOnly /\ UNCHANGED <<down, status, events, free>>
      BY <2>5 DEF vars, storeVars, robotVars, centreVars, robotsOwn, SchedulerOnly
    <3> QED
      BY <2>1, <3>1, FrameCalm
  <2> QED
    BY <2>1, <2>2, <2>3, <2>4, <2>5, TakeCalm, DriveCalm, LoadCalm, ArriveCalm,
       SubmitCalm, CompleteCalm, BeginRoundCalm, MatchCalm DEF Next
<1> QED
  BY <1>2, <1>4 DEF TourInv

(* A robot moves, never jumps: as long as no task was reclaimed, the tour  *)
(* that waits for a robot starts where it stands, though it was planned    *)
(* from what the store knew then.                                          *)
THEOREM Continuity == Spec => []ToursStartHere
<1>1. Inv /\ TourInv => ToursStartHere
  BY DEF TourInv, Orderly, Calm, OrderStands, Stands, ToursStartHere
<1>2. Inv /\ Inv' /\ TourInv /\ [Next]_vars => TourInv'
  BY TourStep
<1> QED
  BY <1>1, <1>2, InitTours, Invariance, PTL DEF Spec
=============================================================================

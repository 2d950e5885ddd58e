-------------------------- MODULE SchedulerProofs --------------------------
(* The invariants of Scheduler, proved for every fleet, every task set and *)
(* every setting of the configuration.                                     *)
EXTENDS SchedulerProperties, TLAPS

USE NoneAssumption, TimeoutAssumption, RetryAssumption, CooldownAssumption,
    ReportsAssumption, CopiesAssumption

(* No conjunct is inductive alone: an assignment is typed because the note *)
(* of what is being sent holds, that note holds because pending tasks are  *)
(* free, they are free because the tables agree, and the tables stay in    *)
(* agreement because a parole or a reclaim acts on a note that holds.      *)
Inv ==
    /\ TypeOK
    /\ BoundRobotIsBusy
    /\ HolderIsAssignee
    /\ PendingTaskIsFree
    /\ FailedAfterAllRetries
    /\ NotesHold

----------------------------------------------------------------------------
(* Ages and sequences.                                                     *)

(* An age stays an age when time passes.                                   *)
LEMMA AgesLemma ==
    /\ AgeCap \in Nat
    /\ 0 \in Ages
    /\ \A a \in Ages : Older(a) \in Ages
  BY DEF AgeCap, Ages, Older

(* Taking the head of a channel leaves a channel; the rest moves up.       *)
LEMMA TailLemma ==
    ASSUME NEW S, NEW s \in Seq(S), s # <<>>
    PROVE  /\ Head(s) \in S
           /\ Head(s) = s[1]
           /\ Tail(s) \in Seq(S)
           /\ Len(Tail(s)) = Len(s) - 1
           /\ Len(s) \in Nat \ {0}
           /\ \A i \in 1..Len(Tail(s)) : Tail(s)[i] = s[i + 1]
  OBVIOUS

(* Sending puts the message at the end.                                    *)
LEMMA AppendLemma ==
    ASSUME NEW S, NEW s \in Seq(S), NEW e \in S
    PROVE  /\ Append(s, e) \in Seq(S)
           /\ Len(s) \in Nat
           /\ Len(Append(s, e)) = Len(s) + 1
           /\ \A i \in 1..Len(s) : Append(s, e)[i] = s[i]
           /\ Append(s, e)[Len(s) + 1] = e
  OBVIOUS

----------------------------------------------------------------------------
(* The store's operations keep its types.                                  *)

(* Releasing a robot leaves a well-typed robot table.                      *)
LEMMA ReleaseTyping ==
    ASSUME RobotsTypeOK, NEW r, NEW st \in RobotStatus \cup {"Absent"},
           Release(r, st)
    PROVE  RobotsTypeOK'
  BY DEF RobotsTypeOK, Release

(* Taking a task from its robot leaves a well-typed task table.            *)
LEMMA DetachTyping ==
    ASSUME TasksTypeOK, NEW t \in Tasks, NEW st \in TaskStatus,
           NEW n \in 0..MaxRetries, Detach(t, st, n)
    PROVE  TasksTypeOK'
  BY AgesLemma DEF TasksTypeOK, Detach

(* The rollback of an assignment keeps both tables well typed.             *)
LEMMA UnassignTyping ==
    ASSUME StoreTypeOK, NEW r \in Robots, NEW t \in Tasks, unassign(r, t)
    PROVE  StoreTypeOK'
<1>1. /\ retry_count[t] \in 0..MaxRetries
      /\ (IF status[r] = "Busy" THEN "Idle" ELSE status[r])
            \in RobotStatus \cup {"Absent"}
  BY DEF StoreTypeOK, RobotsTypeOK, TasksTypeOK, RobotStatus
<1> QED
  BY <1>1, ReleaseTyping, DetachTyping DEF unassign, StoreTypeOK, TaskStatus

(* So does the reclaim of one task: a task that is not yet exhausted has a *)
(* retry left to count.                                                    *)
LEMMA ReclaimTyping ==
    ASSUME StoreTypeOK, NEW t \in Tasks, reclaim(t)
    PROVE  StoreTypeOK'
<1>1. RobotsTypeOK'
  BY ReleaseTyping
  DEF reclaim, StoreTypeOK, RobotStatus, RobotsTypeOK, robotVars
<1>2. TasksTypeOK'
  <2>1. retry_count[t] \in 0..MaxRetries
    BY DEF StoreTypeOK, TasksTypeOK
  <2>2. CASE exhausted(t)
    BY <2>1, <2>2, DetachTyping DEF reclaim, StoreTypeOK, TaskStatus
  <2>3. CASE ~exhausted(t)
    <3>1. retry_count[t] + 1 \in 0..MaxRetries
      BY <2>1, <2>3 DEF exhausted
    <3> QED
      BY <3>1, <2>3, DetachTyping DEF reclaim, StoreTypeOK, TaskStatus
  <2> QED
    BY <2>2, <2>3
<1> QED
  BY <1>1, <1>2 DEF StoreTypeOK

(* So does a completion report, whatever robot and task it names.          *)
LEMMA CompleteTyping ==
    ASSUME StoreTypeOK, NEW r \in Robots, NEW t \in Tasks, complete_task(r, t)
    PROVE  StoreTypeOK'
<1>1. CASE task_status[t] = "Absent"
  BY <1>1 DEF complete_task, StoreTypeOK, RobotsTypeOK, TasksTypeOK, storeVars,
              robotVars, taskVars
<1>2. CASE task_status[t] # "Absent"
  <2>1. RobotsTypeOK'
    BY <1>2, ReleaseTyping
    DEF complete_task, StoreTypeOK, RobotsTypeOK, RobotStatus, robotVars
  <2>2. TasksTypeOK'
    BY <1>2, AgesLemma DEF complete_task, StoreTypeOK, TasksTypeOK, TaskStatus
  <2> QED
    BY <2>1, <2>2 DEF StoreTypeOK
<1> QED
  BY <1>1, <1>2

----------------------------------------------------------------------------
(* Types.                                                                  *)

(* Every variable keeps its type.                                          *)
LEMMA TypeStep == TypeOK /\ OfferNotes /\ CycleNotes /\ [Next]_vars => TypeOK'
<1> SUFFICES ASSUME TypeOK, OfferNotes, CycleNotes, [Next]_vars PROVE TypeOK'
  OBVIOUS
<1>1. CASE HandleShutdown
  BY <1>1 DEF HandleShutdown, storeVars, robotVars, taskVars, scratch, TypeOK,
              StoreTypeOK, RobotsTypeOK, TasksTypeOK
<1>2. ASSUME NEW t \in Tasks, HandleSubmitted(t) PROVE TypeOK'
  <2>1. StoreTypeOK'
    BY <1>2, AgesLemma
    DEF HandleSubmitted, submit_task, robotVars, TaskStatus, TypeOK,
        StoreTypeOK, RobotsTypeOK, TasksTypeOK
  <2> QED
    BY <1>2, <2>1, TailLemma DEF HandleSubmitted, scratch, TypeOK
<1>3. ASSUME NEW r \in Robots, NEW t \in Tasks, HandleCompleted(r, t)
      PROVE  TypeOK'
  BY <1>3, TailLemma, CompleteTyping DEF HandleCompleted, scratch, TypeOK
<1>4. CASE Tick
  BY <1>4 DEF Tick, storeVars, robotVars, taskVars, channels, TypeOK,
              StoreTypeOK, RobotsTypeOK, TasksTypeOK
<1>5. ASSUME NEW t \in Tasks, ReclaimTask(t) PROVE TypeOK'
  BY <1>5, ReclaimTyping DEF ReclaimTask, channels, TypeOK
<1>6. CASE ScanForEviction
  BY <1>6 DEF ScanForEviction, storeVars, robotVars, taskVars, channels, TypeOK,
              StoreTypeOK, RobotsTypeOK, TasksTypeOK
<1>7. ASSUME NEW r \in Robots, EvictRobot(r) PROVE TypeOK'
  <2>1. StoreTypeOK'
    BY <1>7, ReleaseTyping
    DEF EvictRobot, evict, taskVars, RobotStatus, TypeOK, StoreTypeOK,
        TasksTypeOK
  <2> QED
    BY <1>7, <2>1 DEF EvictRobot, channels, TypeOK
<1>8. CASE StartMatching
  BY <1>8 DEF StartMatching, Candidates, available_robots, storeVars, robotVars,
              taskVars, channels, TypeOK, StoreTypeOK, RobotsTypeOK, TasksTypeOK
<1>9. ASSUME NEW t \in Tasks, DropInvalid(t) PROVE TypeOK'
  BY <1>9 DEF DropInvalid, storeVars, robotVars, taskVars, channels, TypeOK,
              StoreTypeOK, RobotsTypeOK, TasksTypeOK
<1>10. ASSUME NEW r \in Robots, NEW t \in Tasks, DeferTask(r, t) PROVE TypeOK'
  BY <1>10 DEF DeferTask, storeVars, robotVars, taskVars, channels, TypeOK,
               StoreTypeOK, RobotsTypeOK, TasksTypeOK
<1>11. ASSUME NEW r \in Robots, NEW t \in Tasks, AssignTask(r, t) PROVE TypeOK'
  <2>1. StoreTypeOK'
    BY <1>11, AgesLemma
    DEF AssignTask, assign, RobotStatus, TaskStatus, TypeOK, StoreTypeOK,
        RobotsTypeOK, TasksTypeOK
  <2> QED
    BY <1>11, <2>1 DEF AssignTask, channels, TypeOK
<1>12. ASSUME NEW r \in Robots, NEW t \in Tasks, AssignRefused(r, t)
       PROVE  TypeOK'
  BY <1>12 DEF AssignRefused, storeVars, robotVars, taskVars, channels, TypeOK,
               StoreTypeOK, RobotsTypeOK, TasksTypeOK
<1>13. CASE SendDispatch
  <2>1. offer \in Robots \X Tasks
    BY <1>13 DEF SendDispatch, OfferNotes
  <2> QED
    BY <1>13, <2>1, AppendLemma
    DEF SendDispatch, storeVars, robotVars, taskVars, TypeOK, StoreTypeOK,
        RobotsTypeOK, TasksTypeOK
<1>14. CASE RollBack
  <2>1. offer[1] \in Robots /\ offer[2] \in Tasks
    BY <1>14 DEF RollBack, OfferNotes
  <2> QED
    BY <1>14, <2>1, UnassignTyping DEF RollBack, channels, TypeOK
<1>15. CASE FinishMatching
  <2>1. cycles' \subseteq SUBSET Robots
    BY <1>15 DEF FinishMatching, Waiting
  <2> QED
    BY <1>15, <2>1
    DEF FinishMatching, storeVars, robotVars, taskVars, channels, TypeOK,
        StoreTypeOK, RobotsTypeOK, TasksTypeOK
<1>16. ASSUME NEW c \in cycles, NEW v \in c, Parole(c, v) PROVE TypeOK'
  <2>1. v \in Robots /\ robot_task[v] \in Tasks
    BY <1>16 DEF TypeOK, CycleNotes
  <2>2. StoreTypeOK'
    BY <1>16, <2>1, UnassignTyping DEF Parole, TypeOK
  <2> QED
    BY <1>16, <2>1, <2>2 DEF Parole, NoBindings, channels, TypeOK
<1>17. ASSUME NEW t \in Tasks, SubmitTask(t) PROVE TypeOK'
  <2>1. TaskSubmitted(t) \in SchedulerEvent
    BY DEF SchedulerEvent
  <2> QED
    BY <1>17, <2>1, AppendLemma
    DEF SubmitTask, Send, storeVars, robotVars, taskVars, scratch, TypeOK,
        StoreTypeOK, RobotsTypeOK, TasksTypeOK
<1>18. ASSUME NEW r \in Robots, NEW t \in Tasks, ReportComplete(r, t)
       PROVE  TypeOK'
  <2>1. TaskCompleted(r, t) \in SchedulerEvent
    BY DEF SchedulerEvent
  <2>2. work' \in [Robots \X Tasks -> 0..MaxCopies]
    BY <1>18 DEF ReportComplete, TypeOK
  <2> QED
    BY <1>18, <2>1, <2>2, AppendLemma
    DEF ReportComplete, Send, storeVars, robotVars, taskVars, scratch, TypeOK,
        StoreTypeOK, RobotsTypeOK, TasksTypeOK
<1>19. CASE RequestShutdown
  <2>1. Shutdown \in SchedulerEvent
    BY DEF SchedulerEvent
  <2> QED
    BY <1>19, <2>1, AppendLemma
    DEF RequestShutdown, Send, storeVars, robotVars, taskVars, scratch, TypeOK,
        StoreTypeOK, RobotsTypeOK, TasksTypeOK
<1>20. CASE Deliver
  <2>1. /\ Head(dispatch) \in Robots \X Tasks
        /\ Tail(dispatch) \in Seq(Robots \X Tasks)
    BY <1>20, TailLemma DEF Deliver, TypeOK
  <2>2. work' \in [Robots \X Tasks -> 0..MaxCopies]
    BY <1>20, <2>1 DEF Deliver, TypeOK
  <2> QED
    BY <1>20, <2>1, <2>2
    DEF Deliver, storeVars, robotVars, taskVars, scratch, TypeOK, StoreTypeOK,
        RobotsTypeOK, TasksTypeOK
<1>21. CASE DeliveryLost
  BY <1>21, TailLemma
  DEF DeliveryLost, storeVars, robotVars, taskVars, scratch, TypeOK,
      StoreTypeOK, RobotsTypeOK, TasksTypeOK
<1>22. ASSUME NEW r \in Robots, NEW t \in Tasks, WorkLost(r, t) PROVE TypeOK'
  <2>1. work' \in [Robots \X Tasks -> 0..MaxCopies]
    BY <1>22 DEF WorkLost, TypeOK
  <2> QED
    BY <1>22, <2>1
    DEF WorkLost, storeVars, robotVars, taskVars, scratch, TypeOK, StoreTypeOK,
        RobotsTypeOK, TasksTypeOK
<1>23. CASE Advance
  <2>1. StoreTypeOK'
    BY <1>23, AgesLemma
    DEF Advance, advance, TypeOK, StoreTypeOK, RobotsTypeOK, TasksTypeOK
  <2> QED
    BY <1>23, <2>1 DEF Advance, scratch, channels, TypeOK
<1>24. ASSUME NEW r \in Robots, NEW hb \in Reports, Register(r, hb.low)
       PROVE  TypeOK'
  <2>1. hb.low \in BOOLEAN
    BY DEF Heartbeat
  <2>2. StoreTypeOK'
    BY <1>24, <2>1, AgesLemma
    DEF Register, register_robot, taskVars, RobotStatus, TypeOK, StoreTypeOK,
        RobotsTypeOK, TasksTypeOK
  <2> QED
    BY <1>24, <2>2 DEF Register, scratch, channels, TypeOK
<1>25. ASSUME NEW r \in Robots, NEW hb \in Reports, HeartbeatArrives(r, hb)
       PROVE  TypeOK'
  <2>1. hb.status \in RobotStatus /\ hb.low \in BOOLEAN /\ hb.delay \in Ages
    BY DEF Heartbeat
  <2>2. StoreTypeOK'
    BY <1>25, <2>1
    DEF HeartbeatArrives, apply_heartbeat, taskVars, TypeOK, StoreTypeOK,
        RobotsTypeOK, TasksTypeOK
  <2> QED
    BY <1>25, <2>2 DEF HeartbeatArrives, scratch, channels, TypeOK
<1>26. CASE UNCHANGED vars
  BY <1>26 DEF vars, storeVars, robotVars, taskVars, scratch, channels, TypeOK,
               StoreTypeOK, RobotsTypeOK, TasksTypeOK
<1> QED
  BY <1>1, <1>2, <1>3, <1>4, <1>5, <1>6, <1>7, <1>8, <1>9, <1>10, <1>11, <1>12,
     <1>13, <1>14, <1>15, <1>16, <1>17, <1>18, <1>19, <1>20, <1>21, <1>22,
     <1>23, <1>24, <1>25, <1>26
  DEF Next, HandleEvent, TickStep, Environment

----------------------------------------------------------------------------
(* Which steps touch the tables.                                           *)

tables == <<status, current_task, task_status, assigned_robot, retry_count>>

(* Everything else leaves the bindings and the life cycles alone.          *)
LEMMA TableSteps ==
    ASSUME [Next]_vars, ~UNCHANGED tables
    PROVE  \/ \E t \in Tasks : HandleSubmitted(t) \/ ReclaimTask(t)
           \/ \E r \in Robots, t \in Tasks :
                    HandleCompleted(r, t) \/ AssignTask(r, t)
           \/ \E r \in Robots : EvictRobot(r)
           \/ RollBack
           \/ \E c \in cycles : \E v \in c : Parole(c, v)
           \/ \E r \in Robots, hb \in Reports :
                    Register(r, hb.low) \/ HeartbeatArrives(r, hb)
<1>1. HandleShutdown \/ Tick => UNCHANGED tables
  BY DEF HandleShutdown, Tick, tables, storeVars, robotVars, taskVars
<1>2. ScanForEviction \/ StartMatching \/ SendDispatch \/ FinishMatching
        => UNCHANGED tables
  BY DEF ScanForEviction, StartMatching, SendDispatch, FinishMatching, tables,
         storeVars, robotVars, taskVars
<1>3. \A t \in Tasks : DropInvalid(t) \/ SubmitTask(t) => UNCHANGED tables
  BY DEF DropInvalid, SubmitTask, tables, storeVars, robotVars, taskVars
<1>4. \A r \in Robots, t \in Tasks :
        DeferTask(r, t) \/ AssignRefused(r, t) \/ ReportComplete(r, t)
            \/ WorkLost(r, t) => UNCHANGED tables
  BY DEF DeferTask, AssignRefused, ReportComplete, WorkLost, tables, storeVars,
         robotVars, taskVars
<1>5. RequestShutdown \/ Deliver \/ DeliveryLost \/ Advance
        => UNCHANGED tables
  BY DEF RequestShutdown, Deliver, DeliveryLost, Advance, advance, tables,
         storeVars, robotVars, taskVars
<1>6. UNCHANGED vars => UNCHANGED tables
  BY DEF vars, tables, storeVars, robotVars, taskVars
<1> QED
  BY <1>1, <1>2, <1>3, <1>4, <1>5, <1>6
  DEF Next, HandleEvent, TickStep, Environment

----------------------------------------------------------------------------
(* A bound robot is Busy: whatever changes a robot's status to another one *)
(* takes its binding away.                                                 *)
LEMMA BoundStep ==
    ASSUME Inv, [Next]_vars
    PROVE  BoundRobotIsBusy'
<1> SUFFICES ASSUME NEW q \in Robots, current_task'[q] # NoTask
             PROVE  status'[q] = "Busy"
  BY DEF BoundRobotIsBusy
<1> USE DEF Inv, BoundRobotIsBusy
<1>0. /\ status \in [Robots -> RobotStatus \cup {"Absent"}]
      /\ current_task \in [Robots -> Tasks \cup {NoTask}]
  BY DEF TypeOK, StoreTypeOK, RobotsTypeOK
<1>1. CASE UNCHANGED tables
  BY <1>1 DEF tables
<1>2. ASSUME NEW t \in Tasks, HandleSubmitted(t) PROVE status'[q] = "Busy"
  BY <1>2 DEF HandleSubmitted, submit_task, robotVars
<1>3. ASSUME NEW t \in Tasks, ReclaimTask(t) PROVE status'[q] = "Busy"
  BY <1>3, <1>0 DEF ReclaimTask, reclaim, Release, robotVars
<1>4. ASSUME NEW r \in Robots, NEW t \in Tasks, HandleCompleted(r, t)
      PROVE  status'[q] = "Busy"
  BY <1>4, <1>0
  DEF HandleCompleted, complete_task, Release, storeVars, robotVars
<1>5. ASSUME NEW r \in Robots, NEW t \in Tasks, AssignTask(r, t)
      PROVE  status'[q] = "Busy"
  BY <1>5, <1>0 DEF AssignTask, assign
<1>6. ASSUME NEW r \in Robots, EvictRobot(r) PROVE status'[q] = "Busy"
  BY <1>6, <1>0 DEF EvictRobot, evict, Release
<1>7. CASE RollBack
  BY <1>7, <1>0 DEF RollBack, unassign, Release
<1>8. ASSUME NEW c \in cycles, NEW v \in c, Parole(c, v)
      PROVE  status'[q] = "Busy"
  BY <1>8, <1>0 DEF Parole, unassign, Release
<1>9. ASSUME NEW r \in Robots, NEW hb \in Reports, Register(r, hb.low)
      PROVE  status'[q] = "Busy"
  BY <1>9, <1>0 DEF Register, register_robot
<1>10. ASSUME NEW r \in Robots, NEW hb \in Reports, HeartbeatArrives(r, hb)
       PROVE  status'[q] = "Busy"
  BY <1>10, <1>0 DEF HeartbeatArrives, apply_heartbeat
<1> QED
  BY <1>1, <1>2, <1>3, <1>4, <1>5, <1>6, <1>7, <1>8, <1>9, <1>10, TableSteps

----------------------------------------------------------------------------
(* The tables agree.                                                       *)

(* A task has at most one holder.                                          *)
LEMMA OneHolder ==
    ASSUME HolderIsAssignee, NEW t \in Tasks, NEW r \in Robots,
           NEW s \in Robots, current_task[r] = t, current_task[s] = t
    PROVE  r = s
  BY DEF HolderIsAssignee

(* Every binding that survives a step was there before it, and its task    *)
(* stays with the robot; the one binding that is made is of a free task.   *)
LEMMA HolderStep ==
    ASSUME Inv, [Next]_vars
    PROVE  HolderIsAssignee'
<1> DEFINE Agrees(q, u) ==
        /\ assigned_robot'[u] = q
        /\ task_status'[u] \in {"Assigned", "Completed"}
<1> SUFFICES ASSUME NEW q \in Robots, NEW u \in Tasks, current_task'[q] = u
             PROVE  Agrees(q, u)
  BY DEF HolderIsAssignee
<1> USE DEF Inv, HolderIsAssignee
<1>0. /\ current_task \in [Robots -> Tasks \cup {NoTask}]
      /\ task_status \in [Tasks -> TaskStatus \cup {"Absent"}]
      /\ assigned_robot \in [Tasks -> Robots \cup {NoRobot}]
  BY DEF TypeOK, StoreTypeOK, RobotsTypeOK, TasksTypeOK
<1>1. CASE UNCHANGED tables
  BY <1>1 DEF tables
<1>2. ASSUME NEW t \in Tasks, HandleSubmitted(t) PROVE Agrees(q, u)
  <2>1. task_status[t] = "Absent"
    <3>1. events # <<>> /\ events \in Seq(SchedulerEvent)
      BY <1>2 DEF HandleSubmitted, TypeOK
    <3>2. 1 \in 1..Len(events) /\ events[1] = TaskSubmitted(t)
      BY <1>2, <3>1, TailLemma DEF HandleSubmitted
    <3> QED
      BY <3>2 DEF NotesHold, QueuedSubmissions
  <2> QED
    BY <1>2, <1>0, <2>1 DEF HandleSubmitted, submit_task, robotVars
<1>3. ASSUME NEW t \in Tasks, ReclaimTask(t) PROVE Agrees(q, u)
  <2>1. current_task'[q] # t
    BY <1>3, <1>0 DEF ReclaimTask, reclaim, Release, robotVars
  <2>2. current_task[q] = u
    BY <1>3, <1>0 DEF ReclaimTask, reclaim, Release, robotVars
  <2> QED
    BY <1>3, <1>0, <2>1, <2>2 DEF ReclaimTask, reclaim, Detach
<1>4. ASSUME NEW r \in Robots, NEW t \in Tasks, HandleCompleted(r, t)
      PROVE  Agrees(q, u)
  BY <1>4, <1>0
  DEF HandleCompleted, complete_task, Release, storeVars, robotVars, taskVars
<1>5. ASSUME NEW r \in Robots, NEW t \in Tasks, AssignTask(r, t)
      PROVE  Agrees(q, u)
  <2>1. t \in pending /\ t # offer[2]
    BY <1>5 DEF AssignTask, NotesHold, RoundNotes, OfferNotes, NoOffer
  <2>2. \A s \in Robots : current_task[s] # t
    BY <2>1 DEF PendingTaskIsFree
  <2> QED
    BY <1>5, <1>0, <2>2 DEF AssignTask, assign
<1>6. ASSUME NEW r \in Robots, EvictRobot(r) PROVE Agrees(q, u)
  BY <1>6, <1>0 DEF EvictRobot, evict, Release, taskVars
<1>7. CASE RollBack
  <2>1. /\ offer[1] \in Robots /\ offer[2] \in Tasks
        /\ assigned_robot[offer[2]] = offer[1]
    BY <1>7 DEF RollBack, NotesHold, OfferNotes
  <2> QED
    BY <1>7, <1>0, <2>1 DEF RollBack, unassign, Release, Detach
<1>8. ASSUME NEW c \in cycles, NEW v \in c, Parole(c, v) PROVE Agrees(q, u)
  <2>1. /\ v \in Robots /\ robot_task[v] \in Tasks
        /\ \A r \in Robots : current_task[r] = robot_task[v] => r = v
    BY DEF NotesHold, CycleNotes, TypeOK
  <2> QED
    BY <1>8, <1>0, <2>1 DEF Parole, unassign, Release, Detach
<1>9. ASSUME NEW r \in Robots, NEW hb \in Reports, Register(r, hb.low)
      PROVE  Agrees(q, u)
  BY <1>9, <1>0 DEF Register, register_robot, taskVars
<1>10. ASSUME NEW r \in Robots, NEW hb \in Reports, HeartbeatArrives(r, hb)
       PROVE  Agrees(q, u)
  BY <1>10 DEF HeartbeatArrives, apply_heartbeat, taskVars
<1> QED
  BY <1>1, <1>2, <1>3, <1>4, <1>5, <1>6, <1>7, <1>8, <1>9, <1>10, TableSteps

----------------------------------------------------------------------------
(* What the scheduler can rely on while others act.                        *)

notes == <<pc, pending, scratch, task_status, assigned_robot, retry_count>>

(* The fleet, the handlers and the clock leave alone what the scheduler    *)
(* writes, but for the bindings that a registration takes away.            *)
LEMMA OutsideSteps ==
    ASSUME TypeOK, Environment \/ UNCHANGED vars
    PROVE  /\ UNCHANGED notes
           /\ \A r \in Robots :
                current_task'[r] = current_task[r] \/ current_task'[r] = NoTask
<1>0. current_task \in [Robots -> Tasks \cup {NoTask}]
  BY DEF TypeOK, StoreTypeOK, RobotsTypeOK
<1> DEFINE Goal ==
        /\ UNCHANGED notes
        /\ \A r \in Robots :
             current_task'[r] = current_task[r] \/ current_task'[r] = NoTask
<1>1. ASSUME NEW t \in Tasks, SubmitTask(t) PROVE Goal
  BY <1>1 DEF SubmitTask, notes, storeVars, robotVars, taskVars
<1>2. ASSUME NEW r \in Robots, NEW t \in Tasks,
             ReportComplete(r, t) \/ WorkLost(r, t)
      PROVE  Goal
  BY <1>2 DEF ReportComplete, WorkLost, notes, storeVars, robotVars, taskVars
<1>3. CASE RequestShutdown \/ Deliver \/ DeliveryLost
  BY <1>3 DEF RequestShutdown, Deliver, DeliveryLost, notes, storeVars,
              robotVars, taskVars
<1>4. CASE Advance
  BY <1>4 DEF Advance, advance, notes
<1>5. ASSUME NEW r \in Robots, NEW hb \in Reports, Register(r, hb.low)
      PROVE  Goal
  BY <1>5, <1>0 DEF Register, register_robot, notes, taskVars
<1>6. ASSUME NEW r \in Robots, NEW hb \in Reports, HeartbeatArrives(r, hb)
      PROVE  Goal
  BY <1>6 DEF HeartbeatArrives, apply_heartbeat, notes, taskVars
<1>7. CASE UNCHANGED vars
  BY <1>7 DEF vars, notes, storeVars, robotVars, taskVars
<1> QED
  BY <1>1, <1>2, <1>3, <1>4, <1>5, <1>6, <1>7 DEF Environment

----------------------------------------------------------------------------
(* Pending tasks are free.                                                 *)

(* Outside the sending of an assignment the exception is empty.            *)
LEMMA PendingOutsideSend ==
    ASSUME Inv, pc # "send", NEW t \in pending
    PROVE  /\ task_status[t] \in {"Pending", "Completed"}
           /\ \A r \in Robots : current_task[r] # t
  BY DEF Inv, PendingTaskIsFree, NotesHold, OfferNotes, NoOffer, TypeOK

(* A task enters the pending table when it is submitted or reclaimed, both *)
(* of which leave it free, and is handed out only from the table.          *)
LEMMA PendingStep ==
    ASSUME Inv, [Next]_vars
    PROVE  PendingTaskIsFree'
<1> DEFINE Free(u) ==
        /\ task_status'[u] \in {"Pending", "Completed"}
        /\ \A q \in Robots : current_task'[q] # u
<1> SUFFICES ASSUME NEW u \in pending', u # offer'[2] PROVE Free(u)
  BY DEF PendingTaskIsFree
<1>0. /\ current_task \in [Robots -> Tasks \cup {NoTask}]
      /\ task_status \in [Tasks -> TaskStatus \cup {"Absent"}]
      /\ pending \subseteq Tasks
  BY DEF Inv, TypeOK, StoreTypeOK, RobotsTypeOK, TasksTypeOK
<1>1. CASE Environment \/ UNCHANGED vars
  <2>1. u \in pending /\ u # offer[2] /\ u # NoTask
    BY <1>0, <1>1, OutsideSteps DEF Inv, notes, scratch
  <2> QED
    BY <1>0, <1>1, <2>1, OutsideSteps DEF Inv, notes, PendingTaskIsFree
<1>2. CASE HandleShutdown \/ Tick \/ ScanForEviction \/ StartMatching
             \/ FinishMatching
  <2>1. /\ UNCHANGED <<pending, task_status, current_task>>
        /\ pc # "send"
    BY <1>2 DEF HandleShutdown, Tick, ScanForEviction, StartMatching,
                FinishMatching, storeVars, robotVars, taskVars
  <2> QED
    BY <2>1, PendingOutsideSend
<1>3. ASSUME NEW t \in Tasks, HandleSubmitted(t) PROVE Free(u)
  <2>1. task_status[t] = "Absent"
    BY <1>3, TailLemma
    DEF HandleSubmitted, Inv, NotesHold, QueuedSubmissions, TypeOK
  <2>2. \A q \in Robots : current_task[q] # t
    BY <2>1 DEF Inv, HolderIsAssignee
  <2> QED
    BY <1>0, <1>3, <2>2, PendingOutsideSend
    DEF HandleSubmitted, submit_task, robotVars
<1>4. ASSUME NEW r \in Robots, NEW t \in Tasks, HandleCompleted(r, t)
      PROVE  Free(u)
  <2>1. u \in pending /\ u # NoTask /\ pc # "send"
    BY <1>0, <1>4 DEF HandleCompleted
  <2> QED
    BY <1>0, <1>4, <2>1, PendingOutsideSend
    DEF HandleCompleted, complete_task, Release, storeVars, robotVars, taskVars
<1>5. ASSUME NEW t \in Tasks, ReclaimTask(t) PROVE Free(u)
  <2>1. \A q \in Robots : current_task'[q] # t
    BY <1>0, <1>5
    DEF ReclaimTask, reclaim, Release, robotVars, Inv, HolderIsAssignee
  <2>2. CASE u = t
    <3>1. t \notin pending /\ ~exhausted(t)
      BY <1>5, <2>2 DEF ReclaimTask, Inv, NotesHold, StaleNotes
    <3> QED
      BY <1>0, <1>5, <2>1, <2>2, <3>1 DEF ReclaimTask, reclaim, Detach
  <2>3. CASE u # t
    <3>1. u \in pending /\ u # NoTask /\ pc # "send"
      BY <1>0, <1>5, <2>3 DEF ReclaimTask
    <3>2. Free(u)!1
      BY <1>0, <1>5, <2>3, <3>1, PendingOutsideSend
      DEF ReclaimTask, reclaim, Detach
    <3> QED
      BY <1>0, <1>5, <3>1, <3>2, PendingOutsideSend
      DEF ReclaimTask, reclaim, Release, robotVars
  <2> QED
    BY <2>2, <2>3
<1>6. ASSUME NEW r \in Robots, EvictRobot(r) PROVE Free(u)
  <2>1. u \in pending /\ u # NoTask /\ pc # "send"
    BY <1>0, <1>6 DEF EvictRobot
  <2> QED
    BY <1>0, <1>6, <2>1, PendingOutsideSend
    DEF EvictRobot, evict, Release, taskVars
<1>7. ASSUME NEW t \in Tasks, DropInvalid(t) PROVE Free(u)
  BY <1>7, PendingOutsideSend DEF DropInvalid, storeVars, robotVars, taskVars
<1>8. ASSUME NEW r \in Robots, NEW t \in Tasks,
             DeferTask(r, t) \/ AssignRefused(r, t)
      PROVE  Free(u)
  BY <1>8, PendingOutsideSend
  DEF DeferTask, AssignRefused, storeVars, robotVars, taskVars
<1>9. ASSUME NEW r \in Robots, NEW t \in Tasks, AssignTask(r, t)
      PROVE  Free(u)
  <2>1. u \in pending /\ u # t /\ pc # "send"
    BY <1>9 DEF AssignTask
  <2> QED
    BY <1>0, <1>9, <2>1, PendingOutsideSend DEF AssignTask, assign
<1>10. CASE SendDispatch
  <2>1. u \in pending /\ u # offer[2]
    BY <1>10 DEF SendDispatch
  <2> QED
    BY <1>10, <2>1
    DEF SendDispatch, Inv, PendingTaskIsFree, storeVars, robotVars, taskVars
<1>11. CASE RollBack
  <2>1. /\ offer[1] \in Robots /\ offer[2] \in Tasks
        /\ assigned_robot[offer[2]] = offer[1]
        /\ u \in pending /\ u # NoTask
    BY <1>0, <1>11 DEF RollBack, Inv, NotesHold, OfferNotes
  <2>2. \A q \in Robots : current_task'[q] # offer[2]
    BY <1>0, <1>11, <2>1
    DEF RollBack, unassign, Release, Inv, HolderIsAssignee
  <2>3. CASE u = offer[2]
    BY <1>0, <1>11, <2>1, <2>2, <2>3 DEF RollBack, unassign, Detach
  <2>4. CASE u # offer[2]
    BY <1>0, <1>11, <2>1, <2>4
    DEF RollBack, unassign, Release, Detach, Inv, PendingTaskIsFree
  <2> QED
    BY <2>3, <2>4
<1>12. ASSUME NEW c \in cycles, NEW v \in c, Parole(c, v) PROVE Free(u)
  <2>1. /\ u \in pending /\ u # robot_task[v] /\ pc # "send"
        /\ v \in Robots /\ u # NoTask
    BY <1>0, <1>12 DEF Parole, Inv, NotesHold, CycleNotes, TypeOK
  <2> QED
    BY <1>0, <1>12, <2>1, PendingOutsideSend
    DEF Parole, unassign, Release, Detach
<1> QED
  BY <1>1, <1>2, <1>3, <1>4, <1>5, <1>6, <1>7, <1>8, <1>9, <1>10, <1>11, <1>12
  DEF Next, HandleEvent, TickStep

----------------------------------------------------------------------------
(* Failed means that the retries are used up.                              *)

(* Only a reclaim that finds the retries used up says Failed, and no step  *)
(* that changes the count leaves the task Failed.                          *)
LEMMA FailedStep ==
    ASSUME Inv, [Next]_vars
    PROVE  FailedAfterAllRetries'
<1> SUFFICES ASSUME NEW u \in Tasks, task_status'[u] = "Failed"
             PROVE  retry_count'[u] = MaxRetries
  BY DEF FailedAfterAllRetries
<1> USE DEF Inv, FailedAfterAllRetries
<1>0. /\ task_status \in [Tasks -> TaskStatus \cup {"Absent"}]
      /\ retry_count \in [Tasks -> 0..MaxRetries]
  BY DEF TypeOK, StoreTypeOK, TasksTypeOK
<1>1. CASE UNCHANGED tables
  BY <1>1 DEF tables
<1>2. ASSUME NEW t \in Tasks, HandleSubmitted(t)
      PROVE  retry_count'[u] = MaxRetries
  BY <1>0, <1>2 DEF HandleSubmitted, submit_task
<1>3. ASSUME NEW t \in Tasks, ReclaimTask(t)
      PROVE  retry_count'[u] = MaxRetries
  <2>1. CASE exhausted(t)
    BY <1>0, <1>3, <2>1 DEF ReclaimTask, reclaim, Detach, exhausted
  <2>2. CASE ~exhausted(t)
    BY <1>0, <1>3, <2>2 DEF ReclaimTask, reclaim, Detach
  <2> QED
    BY <2>1, <2>2
<1>4. ASSUME NEW r \in Robots, NEW t \in Tasks, HandleCompleted(r, t)
      PROVE  retry_count'[u] = MaxRetries
  BY <1>0, <1>4 DEF HandleCompleted, complete_task, storeVars, taskVars
<1>5. ASSUME NEW r \in Robots, NEW t \in Tasks, AssignTask(r, t)
      PROVE  retry_count'[u] = MaxRetries
  BY <1>0, <1>5 DEF AssignTask, assign
<1>6. ASSUME NEW r \in Robots, EvictRobot(r) PROVE retry_count'[u] = MaxRetries
  BY <1>6 DEF EvictRobot, evict, taskVars
<1>7. CASE RollBack
  BY <1>0, <1>7 DEF RollBack, unassign, Detach
<1>8. ASSUME NEW c \in cycles, NEW v \in c, Parole(c, v)
      PROVE  retry_count'[u] = MaxRetries
  BY <1>0, <1>8 DEF Parole, unassign, Detach
<1>9. ASSUME NEW r \in Robots, NEW hb \in Reports,
             Register(r, hb.low) \/ HeartbeatArrives(r, hb)
      PROVE  retry_count'[u] = MaxRetries
  BY <1>9 DEF Register, register_robot, HeartbeatArrives, apply_heartbeat,
              taskVars
<1> QED
  BY <1>1, <1>2, <1>3, <1>4, <1>5, <1>6, <1>7, <1>8, <1>9, TableSteps

----------------------------------------------------------------------------
(* The notes of a tick hold.                                               *)

(* A task that the reclaim scan collected is Assigned, so it is not in the *)
(* pending table; no other step of the reclaim touches it.                 *)
LEMMA StaleStep ==
    ASSUME Inv, [Next]_vars
    PROVE  StaleNotes'
<1> USE DEF Inv, NotesHold, StaleNotes
<1>0. /\ task_status \in [Tasks -> TaskStatus \cup {"Absent"}]
      /\ pending \subseteq Tasks /\ stale \subseteq Tasks
  BY DEF TypeOK, StoreTypeOK, TasksTypeOK
<1>1. CASE Environment \/ UNCHANGED vars
  BY <1>1, OutsideSteps DEF notes, scratch
<1>2. CASE HandleEvent
  BY <1>2 DEF HandleEvent, HandleShutdown, HandleSubmitted, HandleCompleted,
              scratch
<1>3. CASE Tick
  <2>1. \A t \in stale' : t \in Tasks /\ task_status[t] = "Assigned"
    BY <1>3 DEF Tick, Reclaimable
  <2>2. \A t \in stale' : t \notin pending
    BY <1>3, <2>1, PendingOutsideSend DEF Tick
  <2> QED
    BY <1>3, <2>1, <2>2 DEF Tick, storeVars, taskVars
<1>4. ASSUME NEW t \in Tasks, ReclaimTask(t) PROVE StaleNotes'
  BY <1>0, <1>4 DEF ReclaimTask, reclaim, Detach
<1>5. CASE ScanForEviction \/ StartMatching \/ SendDispatch \/ RollBack
             \/ FinishMatching
  BY <1>5 DEF ScanForEviction, StartMatching, SendDispatch, RollBack,
              FinishMatching
<1>6. ASSUME NEW r \in Robots, NEW t \in Tasks,
             DeferTask(r, t) \/ AssignTask(r, t) \/ AssignRefused(r, t)
      PROVE  StaleNotes'
  BY <1>6 DEF DeferTask, AssignTask, AssignRefused
<1>7. ASSUME NEW r \in Robots, EvictRobot(r) PROVE StaleNotes'
  BY <1>7 DEF EvictRobot
<1>8. ASSUME NEW t \in Tasks, DropInvalid(t) PROVE StaleNotes'
  BY <1>8 DEF DropInvalid
<1>9. ASSUME NEW c \in cycles, NEW v \in c, Parole(c, v) PROVE StaleNotes'
  BY <1>9 DEF Parole
<1> QED
  BY <1>1, <1>2, <1>3, <1>4, <1>5, <1>6, <1>7, <1>8, <1>9 DEF Next, TickStep

(* The round visits pending tasks only.                                    *)
LEMMA RoundStep ==
    ASSUME Inv, [Next]_vars
    PROVE  RoundNotes'
<1> USE DEF Inv, NotesHold, RoundNotes
<1>1. CASE Environment \/ UNCHANGED vars
  BY <1>1, OutsideSteps DEF notes, scratch
<1>2. CASE HandleEvent \/ Tick
  BY <1>2 DEF HandleEvent, HandleShutdown, HandleSubmitted, HandleCompleted,
              Tick, scratch
<1>3. ASSUME NEW t \in Tasks, ReclaimTask(t) \/ DropInvalid(t)
      PROVE  RoundNotes'
  BY <1>3 DEF ReclaimTask, DropInvalid
<1>4. ASSUME NEW r \in Robots, EvictRobot(r) PROVE RoundNotes'
  BY <1>4 DEF EvictRobot
<1>5. CASE ScanForEviction \/ StartMatching \/ FinishMatching
  BY <1>5 DEF ScanForEviction, StartMatching, FinishMatching
<1>6. ASSUME NEW r \in Robots, NEW t \in Tasks,
             DeferTask(r, t) \/ AssignTask(r, t) \/ AssignRefused(r, t)
      PROVE  RoundNotes'
  BY <1>6 DEF DeferTask, AssignTask, AssignRefused
<1>7. CASE SendDispatch \/ RollBack
  BY <1>7 DEF SendDispatch, RollBack
<1>8. ASSUME NEW c \in cycles, NEW v \in c, Parole(c, v) PROVE RoundNotes'
  BY <1>8 DEF Parole
<1> QED
  BY <1>1, <1>2, <1>3, <1>4, <1>5, <1>6, <1>7, <1>8 DEF Next, TickStep

(* Nothing takes the task being sent from the robot it is sent to.         *)
LEMMA OfferStep ==
    ASSUME Inv, [Next]_vars
    PROVE  OfferNotes'
<1> USE DEF Inv, NotesHold, OfferNotes
<1>1. CASE Environment \/ UNCHANGED vars
  BY <1>1, OutsideSteps DEF notes, scratch
<1>2. CASE HandleEvent \/ Tick
  BY <1>2 DEF HandleEvent, HandleShutdown, HandleSubmitted, HandleCompleted,
              Tick, scratch
<1>3. ASSUME NEW t \in Tasks, ReclaimTask(t) \/ DropInvalid(t)
      PROVE  OfferNotes'
  BY <1>3 DEF ReclaimTask, DropInvalid
<1>4. ASSUME NEW r \in Robots, EvictRobot(r) PROVE OfferNotes'
  BY <1>4 DEF EvictRobot
<1>5. CASE ScanForEviction \/ StartMatching \/ FinishMatching
  BY <1>5 DEF ScanForEviction, StartMatching, FinishMatching
<1>6. ASSUME NEW r \in Robots, NEW t \in Tasks,
             DeferTask(r, t) \/ AssignRefused(r, t)
      PROVE  OfferNotes'
  BY <1>6 DEF DeferTask, AssignRefused
<1>7. ASSUME NEW r \in Robots, NEW t \in Tasks, AssignTask(r, t)
      PROVE  OfferNotes'
  BY <1>7 DEF AssignTask, assign, RoundNotes, TypeOK, StoreTypeOK, TasksTypeOK
<1>8. CASE SendDispatch \/ RollBack
  BY <1>8 DEF SendDispatch, RollBack
<1>9. ASSUME NEW c \in cycles, NEW v \in c, Parole(c, v) PROVE OfferNotes'
  BY <1>9 DEF Parole
<1> QED
  BY <1>1, <1>2, <1>3, <1>4, <1>5, <1>6, <1>7, <1>8, <1>9 DEF Next, TickStep

(* The victim of a cycle stays the only robot that may hold its task.      *)
LEMMA CycleStep ==
    ASSUME Inv, [Next]_vars
    PROVE  CycleNotes'
<1> USE DEF Inv, NotesHold, CycleNotes
<1>0. /\ current_task \in [Robots -> Tasks \cup {NoTask}]
      /\ task_status \in [Tasks -> TaskStatus \cup {"Absent"}]
      /\ cycles \subseteq SUBSET Robots
  BY DEF TypeOK, StoreTypeOK, RobotsTypeOK, TasksTypeOK
<1>1. CASE Environment \/ UNCHANGED vars
  BY <1>0, <1>1, OutsideSteps DEF notes, scratch
<1>2. CASE HandleEvent \/ Tick
  BY <1>2 DEF HandleEvent, HandleShutdown, HandleSubmitted, HandleCompleted,
              Tick, scratch
<1>3. ASSUME NEW t \in Tasks, ReclaimTask(t) \/ DropInvalid(t)
      PROVE  CycleNotes'
  BY <1>3 DEF ReclaimTask, DropInvalid
<1>4. ASSUME NEW r \in Robots, EvictRobot(r) PROVE CycleNotes'
  BY <1>4 DEF EvictRobot
<1>5. CASE ScanForEviction \/ StartMatching \/ SendDispatch \/ RollBack
  BY <1>5 DEF ScanForEviction, StartMatching, SendDispatch, RollBack
<1>6. ASSUME NEW r \in Robots, NEW t \in Tasks,
             DeferTask(r, t) \/ AssignTask(r, t) \/ AssignRefused(r, t)
      PROVE  CycleNotes'
  BY <1>6 DEF DeferTask, AssignTask, AssignRefused
<1>7. CASE FinishMatching
  <2>1. \A c \in cycles' : c \subseteq Waiting
    BY <1>7 DEF FinishMatching
  <2>2. /\ UNCHANGED <<current_task, task_status, pending>>
        /\ pc # "send"
    BY <1>7 DEF FinishMatching, storeVars, robotVars, taskVars
  <2>3. ASSUME NEW c \in cycles', NEW v \in c
        PROVE  /\ v \in Robots
               /\ robot_task'[v] = current_task[v]
               /\ current_task[v] \in Tasks
    BY <1>0, <1>7, <2>1 DEF FinishMatching, Waiting
  <2>4. ASSUME NEW c \in cycles', NEW v \in c
        PROVE  /\ robot_task'[v] \in Tasks \ pending'
               /\ task_status'[robot_task'[v]]
                    \in {"Pending", "Assigned", "Completed"}
               /\ \A r \in Robots :
                    current_task'[r] = robot_task'[v] => r = v
    BY <2>2, <2>3, PendingOutsideSend, OneHolder DEF HolderIsAssignee
  <2> QED
    BY <1>7, <2>4 DEF FinishMatching
<1>8. ASSUME NEW c \in cycles, NEW v \in c, Parole(c, v) PROVE CycleNotes'
  <2>1. \A r \in Robots :
            current_task'[r] = current_task[r] \/ current_task'[r] = NoTask
    BY <1>0, <1>8 DEF Parole, unassign, Release
  <2>2. /\ cycles' \subseteq cycles
        /\ UNCHANGED pending
        /\ cycles' # {} => robot_task' = robot_task
        /\ pc' # "parole" => cycles' = {}
    BY <1>8 DEF Parole
  <2>3. \A t \in Tasks : task_status'[t] \in {task_status[t], "Pending"}
    BY <1>0, <1>8 DEF Parole, unassign, Detach
  <2> QED
    BY <1>0, <2>1, <2>2, <2>3
<1> QED
  BY <1>1, <1>2, <1>3, <1>4, <1>5, <1>6, <1>7, <1>8 DEF Next, TickStep

(* A task that the store knows is never unknown again, and only its        *)
(* submission makes it known.                                              *)
LEMMA KnownTasks ==
    ASSUME Inv, [Next]_vars, NEW u \in Tasks, task_status[u] = "Absent",
           task_status'[u] # "Absent"
    PROVE  HandleSubmitted(u)
<1> USE DEF Inv
<1>0. task_status \in [Tasks -> TaskStatus \cup {"Absent"}]
  BY DEF TypeOK, StoreTypeOK, TasksTypeOK
<1>1. CASE UNCHANGED tables
  BY <1>1 DEF tables
<1>2. ASSUME NEW t \in Tasks, HandleSubmitted(t) PROVE HandleSubmitted(u)
  BY <1>0, <1>2 DEF HandleSubmitted, submit_task
<1>3. ASSUME NEW t \in Tasks, ReclaimTask(t) PROVE HandleSubmitted(u)
  BY <1>0, <1>3 DEF ReclaimTask, reclaim, Detach, NotesHold, StaleNotes
<1>4. ASSUME NEW r \in Robots, NEW t \in Tasks, HandleCompleted(r, t)
      PROVE  HandleSubmitted(u)
  BY <1>0, <1>4 DEF HandleCompleted, complete_task, storeVars, taskVars
<1>5. ASSUME NEW r \in Robots, NEW t \in Tasks, AssignTask(r, t)
      PROVE  HandleSubmitted(u)
  BY <1>0, <1>5, PendingOutsideSend
  DEF AssignTask, assign, NotesHold, RoundNotes
<1>6. ASSUME NEW r \in Robots, EvictRobot(r) PROVE HandleSubmitted(u)
  BY <1>6 DEF EvictRobot, evict, taskVars
<1>7. CASE RollBack
  BY <1>0, <1>7 DEF RollBack, unassign, Detach, NotesHold, OfferNotes
<1>8. ASSUME NEW c \in cycles, NEW v \in c, Parole(c, v)
      PROVE  HandleSubmitted(u)
  BY <1>0, <1>8 DEF Parole, unassign, Detach, NotesHold, CycleNotes
<1>9. ASSUME NEW r \in Robots, NEW hb \in Reports,
             Register(r, hb.low) \/ HeartbeatArrives(r, hb)
      PROVE  HandleSubmitted(u)
  BY <1>9 DEF Register, register_robot, HeartbeatArrives, apply_heartbeat,
              taskVars
<1> QED
  BY <1>1, <1>2, <1>3, <1>4, <1>5, <1>6, <1>7, <1>8, <1>9, TableSteps

(* What a step can do to the event channel.                                *)
LEMMA EventSteps ==
    ASSUME [Next]_vars
    PROVE  \/ UNCHANGED events
           \/ events' = <<>>
           \/ events # <<>> /\ events' = Tail(events)
           \/ \E t \in Tasks : SubmitTask(t)
           \/ \E r \in Robots, t \in Tasks : ReportComplete(r, t)
           \/ events' = Append(events, Shutdown)
<1> DEFINE Goal ==
           \/ UNCHANGED events
           \/ events' = <<>>
           \/ events # <<>> /\ events' = Tail(events)
           \/ \E t \in Tasks : SubmitTask(t)
           \/ \E r \in Robots, t \in Tasks : ReportComplete(r, t)
           \/ events' = Append(events, Shutdown)
<1>1. CASE HandleEvent
  BY <1>1 DEF HandleEvent, HandleShutdown, HandleSubmitted, HandleCompleted
<1>2. CASE Tick
  BY <1>2 DEF Tick, channels
<1>3. CASE TickStep
  BY <1>3 DEF TickStep, ScanForEviction, StartMatching, SendDispatch, RollBack,
              FinishMatching, ReclaimTask, DropInvalid, EvictRobot, DeferTask,
              AssignTask, AssignRefused, Parole, channels
<1>4. CASE Environment
  BY <1>4 DEF Environment, RequestShutdown, Deliver, DeliveryLost, Advance,
              WorkLost, Register, HeartbeatArrives, Send, channels
<1>5. CASE UNCHANGED vars
  BY <1>5 DEF vars, channels
<1> QED
  BY <1>1, <1>2, <1>3, <1>4, <1>5 DEF Next

(* A queued submission stays the only one of its task until it is handled. *)
LEMMA QueueStep ==
    ASSUME Inv, [Next]_vars
    PROVE  QueuedSubmissions'
<1> SUFFICES ASSUME NEW i \in 1..Len(events'), NEW u \in Tasks,
                    events'[i] = TaskSubmitted(u)
             PROVE  /\ task_status'[u] = "Absent"
                    /\ \A j \in 1..Len(events') :
                            events'[j] = TaskSubmitted(u) => i = j
  BY DEF QueuedSubmissions
<1> DEFINE Goal == /\ task_status'[u] = "Absent"
                   /\ \A j \in 1..Len(events') :
                            events'[j] = TaskSubmitted(u) => i = j
<1>0. events \in Seq(SchedulerEvent) /\ Len(events) \in Nat
  BY DEF Inv, TypeOK
<1>1. ASSUME NEW k \in 1..Len(events), events[k] = TaskSubmitted(u)
      PROVE  /\ task_status[u] = "Absent"
             /\ \A j \in 1..Len(events) :
                    events[j] = TaskSubmitted(u) => k = j
  BY <1>1 DEF Inv, NotesHold, QueuedSubmissions
<1>2. ASSUME HandleSubmitted(u) PROVE FALSE
  <2>1. /\ events # <<>> /\ events[1] = TaskSubmitted(u)
        /\ i + 1 \in 1..Len(events) /\ events[i + 1] = TaskSubmitted(u)
        /\ 1 \in 1..Len(events)
    BY <1>0, <1>2, TailLemma DEF HandleSubmitted
  <2> QED
    BY <1>1, <2>1
<1>3. task_status[u] = "Absent" => task_status'[u] = "Absent"
  BY <1>2, KnownTasks
<1>4. CASE UNCHANGED events
  BY <1>1, <1>3, <1>4
<1>5. CASE events' = <<>>
  BY <1>5
<1>6. CASE events # <<>> /\ events' = Tail(events)
  <2>1. /\ Len(events') = Len(events) - 1
        /\ \A j \in 1..Len(events') : events'[j] = events[j + 1]
    BY <1>0, <1>6, TailLemma
  <2> QED
    BY <1>0, <1>1, <1>3, <2>1
<1>7. ASSUME NEW t \in Tasks, SubmitTask(t) PROVE Goal
  <2>1. /\ events' = Append(events, TaskSubmitted(t))
        /\ task_status[t] = "Absent"
        /\ \A j \in 1..Len(events) : events[j] # TaskSubmitted(t)
    BY <1>7 DEF SubmitTask, Send
  <2>2. TaskSubmitted(t) \in SchedulerEvent
    BY DEF SchedulerEvent
  <2>3. /\ Len(events') = Len(events) + 1
        /\ \A j \in 1..Len(events) : events'[j] = events[j]
        /\ events'[Len(events) + 1] = TaskSubmitted(t)
    BY <1>0, <2>1, <2>2, AppendLemma
  <2>4. TaskSubmitted(t) = TaskSubmitted(u) => t = u
    BY DEF TaskSubmitted
  <2>5. CASE t = u
    BY <1>0, <1>3, <2>1, <2>3, <2>5
  <2>6. CASE t # u
    <3>1. i \in 1..Len(events) /\ events[i] = TaskSubmitted(u)
      BY <1>0, <2>3, <2>4, <2>6
    <3> QED
      BY <1>0, <1>1, <1>3, <2>3, <2>4, <2>6, <3>1
  <2> QED
    BY <2>5, <2>6
<1>8. ASSUME NEW e \in SchedulerEvent, events' = Append(events, e),
             e # TaskSubmitted(u)
      PROVE  Goal
  <2>1. /\ Len(events') = Len(events) + 1
        /\ \A j \in 1..Len(events) : events'[j] = events[j]
        /\ events'[Len(events) + 1] = e
    BY <1>0, <1>8, AppendLemma
  <2> QED
    BY <1>0, <1>1, <1>3, <1>8, <2>1
<1>9. ASSUME NEW r \in Robots, NEW t \in Tasks, ReportComplete(r, t)
      PROVE  Goal
  <2>1. /\ TaskCompleted(r, t) \in SchedulerEvent
        /\ TaskCompleted(r, t) # TaskSubmitted(u)
    BY DEF SchedulerEvent, TaskCompleted, TaskSubmitted
  <2> QED
    BY <1>8, <1>9, <2>1 DEF ReportComplete, Send
<1>10. Shutdown \in SchedulerEvent /\ Shutdown # TaskSubmitted(u)
  BY DEF SchedulerEvent, Shutdown, TaskSubmitted
<1> QED
  BY <1>4, <1>5, <1>6, <1>7, <1>8, <1>9, <1>10, EventSteps

----------------------------------------------------------------------------
(* The invariant, and what follows from it.                                *)

(* Every reachable state has well-typed tables that agree with each other, *)
(* with the pending table and with the notes of the tick under way.        *)
THEOREM Invariance == Spec => []Inv
<1>1. Init => Inv
  <2> SUFFICES ASSUME Init PROVE Inv
    OBVIOUS
  <2>1. TypeOK
    BY AgesLemma DEF Init, StoreInit, TypeOK, StoreTypeOK, RobotsTypeOK,
                     TasksTypeOK, NoBindings
  <2>2. NotesHold
    BY DEF Init, StoreInit, NotesHold, StaleNotes, RoundNotes, OfferNotes,
           CycleNotes, QueuedSubmissions
  <2> QED
    BY <2>1, <2>2
    DEF Init, StoreInit, Inv, BoundRobotIsBusy, HolderIsAssignee,
        PendingTaskIsFree, FailedAfterAllRetries
<1>2. Inv /\ [Next]_vars => Inv'
  <2> SUFFICES ASSUME Inv, [Next]_vars PROVE Inv'
    OBVIOUS
  <2>1. TypeOK'
    BY TypeStep DEF Inv, NotesHold
  <2>2. NotesHold'
    BY StaleStep, RoundStep, OfferStep, CycleStep, QueueStep DEF NotesHold
  <2> QED
    BY <2>1, <2>2, BoundStep, HolderStep, PendingStep, FailedStep DEF Inv
<1> QED
  BY <1>1, <1>2, PTL DEF Spec

(* Every variable keeps its type; in particular a retry count never leaves *)
(* 0..MaxRetries, so the u8 of Task.retry_count cannot overflow.           *)
THEOREM Typing == Spec => []TypeOK
<1>1. Inv => TypeOK
  BY DEF Inv
<1> QED
  BY <1>1, Invariance, PTL

(* A robot that is bound to a task is Busy, so that available_robots never *)
(* offers it a second one.                                                 *)
THEOREM Bound == Spec => []BoundRobotIsBusy
<1>1. Inv => BoundRobotIsBusy
  BY DEF Inv
<1> QED
  BY <1>1, Invariance, PTL

(* The binding of a robot and the assignment of its task name each other,  *)
(* through reclaims, rollbacks, paroles and late completion reports.       *)
THEOREM Agreement == Spec => []HolderIsAssignee
<1>1. Inv => HolderIsAssignee
  BY DEF Inv
<1> QED
  BY <1>1, Invariance, PTL

(* No two robots ever hold the same task, although one that timed out is   *)
(* handed to another robot while the first may still be driving.           *)
THEOREM Exclusion ==
    Spec => [](\A t \in Tasks : \A r, s \in Robots :
                    current_task[r] = t /\ current_task[s] = t => r = s)
<1>1. Inv => (\A t \in Tasks : \A r, s \in Robots :
                    current_task[r] = t /\ current_task[s] = t => r = s)
  BY OneHolder DEF Inv
<1> QED
  BY <1>1, Invariance, PTL

(* What the scheduler has in its pending table is in no robot's hands, but *)
(* for the task that it is sending at this moment.                         *)
THEOREM PendingFree == Spec => []PendingTaskIsFree
<1>1. Inv => PendingTaskIsFree
  BY DEF Inv
<1> QED
  BY <1>1, Invariance, PTL

(* A task is given up only after MaxRetries reclaims.                      *)
THEOREM Verdict == Spec => []FailedAfterAllRetries
<1>1. Inv => FailedAfterAllRetries
  BY DEF Inv
<1> QED
  BY <1>1, Invariance, PTL

(* What a tick noted down is still true when a later step of it acts on    *)
(* the note, whatever heartbeats and registrations came in between.        *)
THEOREM Notes == Spec => []NotesHold
<1>1. Inv => NotesHold
  BY DEF Inv
<1> QED
  BY <1>1, Invariance, PTL

----------------------------------------------------------------------------
(* What is sent.                                                           *)

(* Only SendDispatch lengthens the dispatch channel.                       *)
LEMMA DispatchSteps ==
    ASSUME TypeOK, [Next]_vars, Len(dispatch') > Len(dispatch)
    PROVE  SendDispatch
<1>0. dispatch \in Seq(Robots \X Tasks) /\ Len(dispatch) \in Nat
  BY DEF TypeOK
<1>1. CASE HandleEvent
  BY <1>0, <1>1 DEF HandleEvent, HandleShutdown, HandleSubmitted,
                    HandleCompleted
<1>2. CASE Tick
  BY <1>0, <1>2 DEF Tick, channels
<1>3. CASE TickStep
  <2>1. SendDispatch \/ UNCHANGED dispatch
    BY <1>3
    DEF TickStep, ScanForEviction, StartMatching, RollBack, FinishMatching,
        ReclaimTask, DropInvalid, EvictRobot, DeferTask, AssignTask,
        AssignRefused, Parole, channels
  <2> QED
    BY <1>0, <2>1
<1>4. CASE Environment
  <2>1. Deliver \/ DeliveryLost \/ UNCHANGED dispatch
    BY <1>4
    DEF Environment, RequestShutdown, Advance, SubmitTask, ReportComplete,
        WorkLost, Register, HeartbeatArrives, channels
  <2> QED
    BY <1>0, <2>1, TailLemma DEF Deliver, DeliveryLost
<1>5. CASE UNCHANGED vars
  BY <1>0, <1>5 DEF vars, channels
<1> QED
  BY <1>1, <1>2, <1>3, <1>4, <1>5 DEF Next

(* Every dispatch is an assignment that the store holds when it is sent,   *)
(* of a task that leaves the pending table in the same step.               *)
THEOREM Sending == Spec => SentIsAssigned
<1> DEFINE d == dispatch'[Len(dispatch')]
           Sent == Len(dispatch') > Len(dispatch) =>
                        /\ task_status'[d[2]] = "Assigned"
                        /\ assigned_robot'[d[2]] = d[1]
                        /\ d[2] \notin pending'
<1>1. Inv /\ [Next]_vars => [Sent]_vars
  <2> SUFFICES ASSUME Inv, [Next]_vars, Len(dispatch') > Len(dispatch)
               PROVE  Sent
    OBVIOUS
  <2>1. SendDispatch
    BY DispatchSteps DEF Inv
  <2>2. /\ offer \in Robots \X Tasks
        /\ task_status[offer[2]] = "Assigned"
        /\ assigned_robot[offer[2]] = offer[1]
    BY <2>1 DEF SendDispatch, Inv, NotesHold, OfferNotes
  <2>3. d = offer
    BY <2>1, <2>2, AppendLemma DEF SendDispatch, Inv, TypeOK
  <2> QED
    BY <2>1, <2>2, <2>3 DEF SendDispatch, storeVars, taskVars
<1> QED
  BY <1>1, Invariance, PTL DEF Spec, SentIsAssigned

----------------------------------------------------------------------------
(* Who is bound.                                                           *)

\* Whoever is a candidate when the round begins does not come to rest in it.
Rested == pc \in {"match", "send"} => \A r \in free : cooldown[r] = 0

(* Cooldowns are set after the round and run out between ticks.            *)
LEMMA RestedStep == Rested /\ [Next]_vars => Rested'
<1> SUFFICES ASSUME Rested, [Next]_vars, pc' \in {"match", "send"}
             PROVE  \A r \in free' : cooldown'[r] = 0
  BY DEF Rested
<1>1. CASE HandleEvent \/ Tick
  BY <1>1 DEF HandleEvent, HandleShutdown, HandleSubmitted, HandleCompleted, Tick
<1>2. CASE StartMatching
  BY <1>2 DEF StartMatching, Candidates
<1>3. CASE SendDispatch \/ RollBack \/ FinishMatching
  BY <1>3 DEF SendDispatch, RollBack, FinishMatching, Rested
<1>4. CASE ScanForEviction \/ \E t \in Tasks : ReclaimTask(t)
  BY <1>4 DEF ScanForEviction, ReclaimTask
<1>5. ASSUME NEW t \in Tasks, DropInvalid(t)
      PROVE  \A r \in free' : cooldown'[r] = 0
  BY <1>5 DEF DropInvalid, Rested
<1>6. ASSUME NEW r \in Robots, NEW t \in Tasks,
             DeferTask(r, t) \/ AssignTask(r, t) \/ AssignRefused(r, t)
      PROVE  \A q \in free' : cooldown'[q] = 0
  BY <1>6 DEF DeferTask, AssignTask, AssignRefused, Rested
<1>7. CASE \/ \E r \in Robots : EvictRobot(r)
           \/ \E c \in cycles : \E v \in c : Parole(c, v)
  BY <1>7 DEF EvictRobot, Parole
<1>8. CASE Environment
  BY <1>8 DEF Environment, RequestShutdown, Deliver, DeliveryLost, Advance,
              SubmitTask, ReportComplete, WorkLost, Register,
              HeartbeatArrives, scratch, Rested
<1>9. CASE UNCHANGED vars
  BY <1>9 DEF vars, scratch, Rested
<1> QED
  BY <1>1, <1>2, <1>3, <1>4, <1>5, <1>6, <1>7, <1>8, <1>9 DEF Next, TickStep

(* A robot is bound only while the store shows it Idle, over no other task *)
(* and not while it rests, whatever became of it since the snapshot.       *)
THEOREM Binding == Spec => BoundWhenIdle
<1> DEFINE Binds(r) == /\ status[r] = "Idle"
                       /\ current_task[r] = NoTask
                       /\ cooldown[r] = 0
           Step == \A r \in Robots :
                current_task'[r] \notin {current_task[r], NoTask} => Binds(r)
<1>1. Init => Rested
  BY DEF Init, Rested
<1>2. Inv /\ Rested /\ [Next]_vars => [Step]_vars
  <2> SUFFICES ASSUME Inv, Rested, [Next]_vars, NEW q \in Robots,
                      current_task'[q] \notin {current_task[q], NoTask}
               PROVE  Binds(q)
    OBVIOUS
  <2>0. current_task \in [Robots -> Tasks \cup {NoTask}]
    BY DEF Inv, TypeOK, StoreTypeOK, RobotsTypeOK
  <2>1. ~UNCHANGED tables
    BY DEF tables
  <2>2. ASSUME NEW t \in Tasks, HandleSubmitted(t) \/ ReclaimTask(t)
        PROVE  FALSE
    BY <2>0, <2>2 DEF HandleSubmitted, submit_task, ReclaimTask, reclaim,
                      Release, robotVars
  <2>3. ASSUME NEW r \in Robots, NEW t \in Tasks, HandleCompleted(r, t)
        PROVE  FALSE
    BY <2>0, <2>3 DEF HandleCompleted, complete_task, Release, storeVars,
                      robotVars
  <2>4. ASSUME NEW r \in Robots, NEW t \in Tasks, AssignTask(r, t)
        PROVE  Binds(q)
    <3>1. /\ q = r /\ status[r] = "Idle"
          /\ pc = "match" /\ r \in free
      BY <2>0, <2>4 DEF AssignTask, assign
    <3> QED
      BY <3>1 DEF Inv, BoundRobotIsBusy, Rested
  <2>5. ASSUME NEW r \in Robots, EvictRobot(r) PROVE FALSE
    BY <2>0, <2>5 DEF EvictRobot, evict, Release
  <2>6. CASE RollBack
    BY <2>0, <2>6 DEF RollBack, unassign, Release
  <2>7. ASSUME NEW c \in cycles, NEW v \in c, Parole(c, v) PROVE FALSE
    BY <2>0, <2>7 DEF Parole, unassign, Release
  <2>8. ASSUME NEW r \in Robots, NEW hb \in Reports,
               Register(r, hb.low) \/ HeartbeatArrives(r, hb)
        PROVE  FALSE
    BY <2>0, <2>8 DEF Register, register_robot, HeartbeatArrives,
                      apply_heartbeat
  <2> QED
    BY <2>1, <2>2, <2>3, <2>4, <2>5, <2>6, <2>7, <2>8, TableSteps
<1>3. Rested /\ [Next]_vars => Rested'
  BY RestedStep
<1> QED
  BY <1>1, <1>2, <1>3, Invariance, PTL DEF Spec, BoundWhenIdle

----------------------------------------------------------------------------
(* The dispatch core implements the life cycle that a submitter sees.      *)

(* What moves a task in or out of line, or up to the channel.              *)
LEMMA LineSteps ==
    ASSUME [Next]_vars, ~UNCHANGED <<pending, offer>>
    PROVE  \/ \E t \in Tasks :
                    HandleSubmitted(t) \/ ReclaimTask(t) \/ DropInvalid(t)
           \/ \E r \in Robots, t \in Tasks : AssignTask(r, t)
           \/ SendDispatch
           \/ RollBack
<1>1. CASE HandleEvent
  BY <1>1 DEF HandleEvent, HandleShutdown, HandleCompleted, scratch
<1>2. CASE Tick
  BY <1>2 DEF Tick
<1>3. CASE TickStep
  BY <1>3 DEF TickStep, ScanForEviction, StartMatching, FinishMatching,
              EvictRobot, DeferTask, AssignRefused, Parole
<1>4. CASE Environment
  BY <1>4 DEF Environment, RequestShutdown, Deliver, DeliveryLost, Advance,
              SubmitTask, ReportComplete, WorkLost, Register,
              HeartbeatArrives, scratch
<1>5. CASE UNCHANGED vars
  BY <1>5 DEF vars, scratch
<1> QED
  BY <1>1, <1>2, <1>3, <1>4, <1>5 DEF Next

(* Every step of the dispatch core is a step of the life cycle, or leaves  *)
(* the submitter's view alone.                                             *)
LEMMA LifecycleStep ==
    ASSUME Inv, [Next]_vars
    PROVE  [Lifecycle!Next]_(Lifecycle!vars)
<1> USE DEF Inv
<1>0. /\ task_status \in [Tasks -> TaskStatus \cup {"Absent"}]
      /\ assigned_robot \in [Tasks -> Robots \cup {NoRobot}]
      /\ retry_count \in [Tasks -> 0..MaxRetries]
      /\ MaxRetries \in Nat
      /\ pending \subseteq Tasks
  BY DEF TypeOK, StoreTypeOK, TasksTypeOK
<1>a. pc # "send" => offer[2] = NoTask
  BY DEF NotesHold, OfferNotes, NoOffer
<1> DEFINE view == <<task_status, assigned_robot, retry_count,
                     pending \ {offer[2]}>>
<1>1. UNCHANGED view => UNCHANGED Lifecycle!vars
  BY DEF Lifecycle!vars
<1>2. ASSUME NEW t \in Tasks, HandleSubmitted(t) PROVE Lifecycle!Submit(t)
  <2>1. task_status[t] = "Absent"
    <3>1. /\ events \in Seq(SchedulerEvent) /\ events # <<>>
          /\ Head(events) = TaskSubmitted(t)
      BY <1>2 DEF HandleSubmitted, TypeOK
    <3>2. 1 \in 1..Len(events) /\ events[1] = TaskSubmitted(t)
      BY <3>1, TailLemma
    <3> QED
      BY <3>2 DEF NotesHold, QueuedSubmissions
  <2>2. retry_count' = [retry_count EXCEPT ![t] = 0]
    BY <1>2 DEF HandleSubmitted, submit_task
  <2>3. Lifecycle!Becomes(t, "Pending", NoRobot, 0)
    BY <1>0, <1>2 DEF HandleSubmitted, submit_task, Lifecycle!Becomes
  <2>4. (pending \ {offer[2]})' = (pending \ {offer[2]}) \cup {t}
    BY <1>0, <1>a, <1>2 DEF HandleSubmitted, scratch
  <2> QED
    BY <2>1, <2>3, <2>4 DEF Lifecycle!Submit
<1>3. ASSUME NEW t \in Tasks, ReclaimTask(t)
      PROVE  Lifecycle!Retry(t) \/ Lifecycle!GiveUp(t)
  <2>1. task_status[t] = "Assigned" /\ pc = "reclaim" /\ offer' = offer
    BY <1>3 DEF ReclaimTask, NotesHold, StaleNotes
  <2>2. CASE exhausted(t)
    <3>1. retry_count[t] = MaxRetries
      BY <1>0, <2>2 DEF exhausted
    <3>2. Lifecycle!Becomes(t, "Failed", NoRobot, retry_count[t])
      BY <1>0, <1>3, <2>2
      DEF ReclaimTask, reclaim, Detach, Lifecycle!Becomes
    <3>3. UNCHANGED (pending \ {offer[2]})
      BY <1>3, <2>1, <2>2 DEF ReclaimTask
    <3> QED
      BY <2>1, <3>1, <3>2, <3>3 DEF Lifecycle!GiveUp
  <2>3. CASE ~exhausted(t)
    <3>1. retry_count[t] < MaxRetries
      BY <1>0, <2>3 DEF exhausted
    <3>2. Lifecycle!Becomes(t, "Pending", NoRobot, retry_count[t] + 1)
      BY <1>0, <1>3, <2>3
      DEF ReclaimTask, reclaim, Detach, Lifecycle!Becomes
    <3>3. (pending \ {offer[2]})' = (pending \ {offer[2]}) \cup {t}
      BY <1>a, <1>3, <2>1, <2>3 DEF ReclaimTask
    <3> QED
      BY <2>1, <3>1, <3>2, <3>3 DEF Lifecycle!Retry
  <2> QED
    BY <2>2, <2>3
<1>4. ASSUME NEW r \in Robots, NEW t \in Tasks, HandleCompleted(r, t)
      PROVE  Lifecycle!Complete(t) \/ UNCHANGED Lifecycle!vars
  <2>0. UNCHANGED (pending \ {offer[2]})
    BY <1>4 DEF HandleCompleted, scratch
  <2>1. CASE task_status[t] = "Absent"
    BY <1>4, <2>0, <2>1
    DEF HandleCompleted, complete_task, storeVars, taskVars, Lifecycle!vars
  <2>2. CASE task_status[t] # "Absent"
    <3>1. retry_count' = [retry_count EXCEPT ![t] = retry_count[t]]
      BY <1>0, <1>4, <2>2 DEF HandleCompleted, complete_task
    <3>2. Lifecycle!Becomes(t, "Completed", NoRobot, retry_count[t])
      BY <1>0, <1>4, <2>2, <3>1
      DEF HandleCompleted, complete_task, Lifecycle!Becomes
    <3> QED
      BY <2>0, <2>2, <3>2 DEF Lifecycle!Complete
  <2> QED
    BY <2>1, <2>2
<1>5. ASSUME NEW r \in Robots, NEW t \in Tasks, AssignTask(r, t)
      PROVE  Lifecycle!Assign(t, r)
  <2>1. task_status[t] \in {"Pending", "Completed"}
    BY <1>5, PendingOutsideSend DEF AssignTask, NotesHold, RoundNotes
  <2>2. retry_count' = [retry_count EXCEPT ![t] = retry_count[t]]
    BY <1>0, <1>5 DEF AssignTask, assign
  <2>3. Lifecycle!Becomes(t, "Assigned", r, retry_count[t])
    BY <1>0, <1>5, <2>2 DEF AssignTask, assign, Lifecycle!Becomes
  <2>4. /\ t \in pending \ {offer[2]}
        /\ (pending \ {offer[2]})' = (pending \ {offer[2]}) \ {t}
    BY <1>0, <1>a, <1>5 DEF AssignTask, NotesHold, RoundNotes
  <2> QED
    BY <2>1, <2>3, <2>4 DEF Lifecycle!Assign
<1>6. ASSUME NEW r \in Robots, EvictRobot(r) PROVE UNCHANGED view
  BY <1>6 DEF EvictRobot, evict, taskVars
<1>7. ASSUME NEW r, NEW t \in Tasks, unassign(r, t)
      PROVE  Lifecycle!Becomes(t, "Pending", NoRobot, retry_count[t])
  BY <1>0, <1>7 DEF unassign, Detach, Lifecycle!Becomes
<1>8. ASSUME RollBack PROVE Lifecycle!Next
  <2> SUFFICES ASSUME NEW t \in Tasks, t = offer[2]
               PROVE  Lifecycle!SendBack(t)
    BY <1>8 DEF RollBack, NotesHold, OfferNotes, Lifecycle!Next
  <2>1. t \in pending /\ task_status[t] = "Assigned" /\ unassign(offer[1], t)
    BY <1>8 DEF RollBack, NotesHold, OfferNotes
  <2>2. (pending \ {offer[2]})' = (pending \ {offer[2]}) \cup {t}
    BY <1>0, <1>8, <2>1 DEF RollBack, NoOffer
  <2> QED
    BY <1>7, <2>1, <2>2 DEF Lifecycle!SendBack
<1>9. ASSUME NEW c \in cycles, NEW v \in c, Parole(c, v)
      PROVE  [Lifecycle!Next]_(Lifecycle!vars)
  <2> SUFFICES ASSUME NEW t \in Tasks, t = robot_task[v]
               PROVE  [Lifecycle!Next]_(Lifecycle!vars)
    BY DEF NotesHold, CycleNotes
  <2>1. /\ t \notin pending /\ unassign(v, t)
        /\ task_status[t] \in {"Pending", "Assigned", "Completed"}
        /\ UNCHANGED <<pending, offer>>
    BY <1>9 DEF Parole, NotesHold, CycleNotes
  <2>2. CASE task_status[t] = "Pending"
    BY <1>0, <2>1, <2>2 DEF unassign, Detach, Lifecycle!vars
  <2>3. CASE task_status[t] # "Pending"
    BY <1>7, <2>1, <2>3 DEF Lifecycle!PutAside, Lifecycle!Next
  <2> QED
    BY <2>2, <2>3
<1>10. ASSUME NEW r \in Robots, NEW hb \in Reports,
              Register(r, hb.low) \/ HeartbeatArrives(r, hb)
       PROVE  UNCHANGED view
  BY <1>10 DEF Register, register_robot, HeartbeatArrives, apply_heartbeat,
               taskVars, scratch
<1>11. CASE SendDispatch
  <2>1. UNCHANGED view
    BY <1>0, <1>11 DEF SendDispatch, NoOffer, storeVars, taskVars
  <2> QED
    BY <1>1, <2>1
<1>12. ASSUME NEW t \in Tasks, DropInvalid(t)
       PROVE  Lifecycle!Drop(t)
  <2>1. /\ t \in pending /\ pc = "match"
        /\ pending' = pending \ {t} /\ offer' = offer
        /\ UNCHANGED <<task_status, assigned_robot, retry_count>>
    BY <1>12 DEF DropInvalid, NotesHold, RoundNotes, storeVars, taskVars
  <2> QED
    BY <1>0, <1>a, <2>1 DEF Lifecycle!Drop
<1>13. UNCHANGED <<tables, pending, offer>> => UNCHANGED view
  BY DEF tables
<1> QED
  BY <1>1, <1>2, <1>3, <1>4, <1>5, <1>6, <1>8, <1>9, <1>10, <1>11, <1>12,
     <1>13, TableSteps, LineSteps
  DEF Lifecycle!Next

(* Scheduler implements TaskLifecycle, for every fleet and configuration.  *)
THEOREM ImplementsLifecycle == Spec => LifecycleSpec
<1>1. Init => Lifecycle!Init
  BY DEF Init, StoreInit, Lifecycle!Init
<1>2. Inv /\ [Next]_vars => [Lifecycle!Next]_(Lifecycle!vars)
  BY LifecycleStep
<1> QED
  BY <1>1, <1>2, Invariance, PTL DEF Spec, LifecycleSpec, Lifecycle!Spec

(* In the life cycle no step leads out of Over.                            *)
LEMMA OverStays ==
    ASSUME TypeOK, NEW t \in Tasks, Lifecycle!Over(t),
           [Lifecycle!Next]_(Lifecycle!vars)
    PROVE  Lifecycle!Over(t)'
<1> DEFINE line == pending \ {offer[2]}
<1>0. /\ task_status \in [Tasks -> TaskStatus \cup {"Absent"}]
      /\ t \notin line /\ task_status[t] \in {"Pending", "Completed", "Failed"}
  BY DEF TypeOK, StoreTypeOK, TasksTypeOK, Lifecycle!Over
<1> DEFINE Goal == t \notin line' /\ task_status'[t] \in {"Pending", "Completed", "Failed"}
<1>1. CASE UNCHANGED Lifecycle!vars
  BY <1>0, <1>1 DEF Lifecycle!vars, Lifecycle!Over
<1>2. ASSUME NEW u \in Tasks,
             Lifecycle!Submit(u) \/ Lifecycle!SendBack(u) \/ Lifecycle!Retry(u)
      PROVE  Goal
  <2>1. u # t
    BY <1>0, <1>2 DEF Lifecycle!Submit, Lifecycle!SendBack, Lifecycle!Retry
  <2>2. line' = line \cup {u} /\ task_status'[t] = task_status[t]
    BY <1>0, <1>2, <2>1
    DEF Lifecycle!Submit, Lifecycle!SendBack, Lifecycle!Retry,
        Lifecycle!Becomes
  <2> QED
    BY <1>0, <2>1, <2>2
<1>3. ASSUME NEW u \in Tasks, NEW r \in Robots, Lifecycle!Assign(u, r)
      PROVE  Goal
  BY <1>0, <1>3 DEF Lifecycle!Assign, Lifecycle!Becomes
<1>4. ASSUME NEW u \in Tasks,
             \/ Lifecycle!PutAside(u) \/ Lifecycle!GiveUp(u)
             \/ Lifecycle!Complete(u) \/ Lifecycle!Drop(u)
      PROVE  Goal
  BY <1>0, <1>4 DEF Lifecycle!PutAside, Lifecycle!GiveUp, Lifecycle!Complete,
                    Lifecycle!Drop, Lifecycle!Becomes
<1> QED
  BY <1>1, <1>2, <1>3, <1>4 DEF Lifecycle!Next, Lifecycle!Over

(* A task that was given up is over: it is not in the table, unless as the *)
(* one being sent, and that one is Assigned.                               *)
LEMMA FailedIsOver ==
    ASSUME Inv, NEW t \in Tasks, task_status[t] = "Failed"
    PROVE  Lifecycle!Over(t)
  BY DEF Inv, PendingTaskIsFree, Lifecycle!Over

(* What is over stays over, and what was given up is over.                 *)
THEOREM Finality == Spec => NoComeback
<1> DEFINE Step == \A t \in Tasks :
                /\ Lifecycle!Over(t) => Lifecycle!Over(t)'
                /\ task_status'[t] = "Failed" => Lifecycle!Over(t)'
<1>1. Inv /\ Inv' /\ [Next]_vars => [Step]_vars
  <2> SUFFICES ASSUME Inv, Inv', [Next]_vars, NEW t \in Tasks
               PROVE  /\ Lifecycle!Over(t) => Lifecycle!Over(t)'
                      /\ task_status'[t] = "Failed" => Lifecycle!Over(t)'
    OBVIOUS
  <2>1. ASSUME Lifecycle!Over(t) PROVE Lifecycle!Over(t)'
    BY <2>1, LifecycleStep, OverStays DEF Inv
  <2>2. ASSUME task_status'[t] = "Failed" PROVE Lifecycle!Over(t)'
    BY <2>2 DEF Inv, PendingTaskIsFree, Lifecycle!Over
  <2> QED
    BY <2>1, <2>2
<1> QED
  BY <1>1, Invariance, PTL DEF Spec, NoComeback

(* Once a task has Failed it is never Assigned again.                      *)
THEOREM NeverAgain == Spec => GivenUpForGood
<1> SUFFICES ASSUME NEW t \in Tasks
             PROVE  Spec => [](task_status[t] = "Failed"
                                    => [](task_status[t] # "Assigned"))
  BY DEF GivenUpForGood
<1>1. Inv /\ task_status[t] = "Failed" => Lifecycle!Over(t)
  BY FailedIsOver
<1>2. Inv /\ Lifecycle!Over(t) /\ [Next]_vars => Lifecycle!Over(t)'
  BY LifecycleStep, OverStays DEF Inv
<1>3. Lifecycle!Over(t) => task_status[t] # "Assigned"
  BY DEF Lifecycle!Over
<1> QED
  BY <1>1, <1>2, <1>3, Invariance, PTL DEF Spec

----------------------------------------------------------------------------
(* A task that nobody was late with is carried out once.                   *)

\* Nothing says that t was ever sent to a robot.
Fresh(t) ==
    task_status[t] = "Absent" \/ (t \in pending /\ retry_count[t] = 0)

\* No robot has t, or will have it from what is under way, or has had it.
Untouched(t) ==
    /\ task_status[t] # "Completed"
    /\ \A i \in 1..Len(dispatch) : dispatch[i][2] # t
    /\ \A r \in Robots : work[<<r, t>>] = 0
    /\ \A i \in 1..Len(events), r \in Robots : events[i] # TaskCompleted(r, t)

FreshIsUntouched == \A t \in Tasks : Fresh(t) => Untouched(t)

(* No task becomes fresh: what comes back to the table has been counted.   *)
LEMMA FreshBefore ==
    ASSUME Inv, [Next]_vars, NEW t \in Tasks, Fresh(t)'
    PROVE  Fresh(t)
<1> USE DEF Fresh
<1>0. /\ task_status \in [Tasks -> TaskStatus \cup {"Absent"}]
      /\ retry_count \in [Tasks -> 0..MaxRetries] /\ MaxRetries \in Nat
      /\ pending \subseteq Tasks
  BY DEF Inv, TypeOK, StoreTypeOK, TasksTypeOK
<1>1. CASE HandleSubmitted(t)
  <2>1. /\ events \in Seq(SchedulerEvent) /\ events # <<>>
        /\ Head(events) = TaskSubmitted(t)
    BY <1>1 DEF HandleSubmitted, Inv, TypeOK
  <2>2. 1 \in 1..Len(events) /\ events[1] = TaskSubmitted(t)
    BY <2>1, TailLemma
  <2> QED
    BY <2>2 DEF Inv, NotesHold, QueuedSubmissions
<1>2. CASE ReclaimTask(t)
  <2>1. task_status[t] = "Assigned" /\ t \notin pending
    BY <1>2 DEF ReclaimTask, Inv, NotesHold, StaleNotes
  <2>2. CASE exhausted(t)
    BY <1>0, <1>2, <2>1, <2>2 DEF ReclaimTask, reclaim, Detach
  <2>3. CASE ~exhausted(t)
    BY <1>0, <1>2, <2>1, <2>3 DEF ReclaimTask, reclaim, Detach
  <2> QED
    BY <2>2, <2>3
<1>3. CASE ~HandleSubmitted(t) /\ ~ReclaimTask(t)
  <2>1. t \in pending' => t \in pending
    <3>1. ASSUME NEW u \in Tasks, u # t,
                 HandleSubmitted(u) \/ ReclaimTask(u) \/ DropInvalid(u),
                 t \in pending'
          PROVE  t \in pending
      BY <3>1 DEF HandleSubmitted, ReclaimTask, DropInvalid
    <3>2. DropInvalid(t) => t \notin pending'
      BY DEF DropInvalid
    <3>3. SendDispatch \/ RollBack => pending' \subseteq pending
      BY DEF SendDispatch, RollBack
    <3>4. \A r \in Robots, u \in Tasks : AssignTask(r, u) => pending' = pending
      BY DEF AssignTask
    <3> QED
      BY <1>3, <3>1, <3>2, <3>3, <3>4, LineSteps
  <2>2. retry_count'[t] = retry_count[t]
        /\ (task_status'[t] = "Absent" => task_status[t] = "Absent")
    <3> DEFINE Same == /\ retry_count'[t] = retry_count[t]
                       /\ task_status'[t] = "Absent" => task_status[t] = "Absent"
    <3>1. UNCHANGED tables => Same
      BY DEF tables
    <3>2. ASSUME NEW u \in Tasks, u # t, HandleSubmitted(u) \/ ReclaimTask(u)
          PROVE  Same
      BY <1>0, <3>2
      DEF HandleSubmitted, submit_task, ReclaimTask, reclaim, Detach
    <3>3. ASSUME NEW r \in Robots, NEW u \in Tasks, HandleCompleted(r, u)
          PROVE  Same
      BY <1>0, <3>3 DEF HandleCompleted, complete_task, storeVars, taskVars
    <3>4. ASSUME NEW r \in Robots, NEW u \in Tasks, AssignTask(r, u)
          PROVE  Same
      BY <1>0, <3>4 DEF AssignTask, assign
    <3>5. ASSUME NEW r \in Robots, EvictRobot(r) PROVE Same
      BY <3>5 DEF EvictRobot, evict, taskVars
    <3>6. CASE RollBack
      BY <1>0, <3>6 DEF RollBack, unassign, Detach
    <3>7. ASSUME NEW c \in cycles, NEW v \in c, Parole(c, v) PROVE Same
      BY <1>0, <3>7 DEF Parole, unassign, Detach
    <3>8. ASSUME NEW r \in Robots, NEW hb \in Reports,
                 Register(r, hb.low) \/ HeartbeatArrives(r, hb)
          PROVE  Same
      BY <3>8 DEF Register, register_robot, HeartbeatArrives, apply_heartbeat,
                  taskVars
    <3> QED
      BY <1>3, <3>1, <3>2, <3>3, <3>4, <3>5, <3>6, <3>7, <3>8, TableSteps
  <2> QED
    BY <2>1, <2>2
<1> QED
  BY <1>1, <1>2, <1>3

(* What a step can do to the dispatch channel and to the robots' work.     *)
LEMMA WorkSteps ==
    ASSUME [Next]_vars
    PROVE  \/ UNCHANGED <<dispatch, work>>
           \/ SendDispatch
           \/ Deliver
           \/ DeliveryLost
           \/ \E r \in Robots, t \in Tasks : ReportComplete(r, t) \/ WorkLost(r, t)
<1>1. CASE HandleEvent \/ Tick
  BY <1>1 DEF HandleEvent, HandleShutdown, HandleSubmitted, HandleCompleted,
              Tick, channels
<1>2. CASE TickStep
  BY <1>2 DEF TickStep, ScanForEviction, StartMatching, RollBack,
              FinishMatching, ReclaimTask, DropInvalid, EvictRobot, DeferTask,
              AssignTask, AssignRefused, Parole, channels
<1>3. CASE Environment
  BY <1>3 DEF Environment, RequestShutdown, Advance, SubmitTask, Register,
              HeartbeatArrives, channels
<1>4. CASE UNCHANGED vars
  BY <1>4 DEF vars, channels
<1> QED
  BY <1>1, <1>2, <1>3, <1>4 DEF Next

(* Only a report completes a task.                                         *)
LEMMA OnlyReportsComplete ==
    ASSUME Inv, [Next]_vars, NEW t \in Tasks,
           task_status[t] # "Completed", task_status'[t] = "Completed"
    PROVE  \E r \in Robots : HandleCompleted(r, t)
<1>0. task_status \in [Tasks -> TaskStatus \cup {"Absent"}]
  BY DEF Inv, TypeOK, StoreTypeOK, TasksTypeOK
<1>1. ~UNCHANGED tables
  BY DEF tables
<1>2. ASSUME NEW u \in Tasks, HandleSubmitted(u) \/ ReclaimTask(u) PROVE FALSE
  BY <1>0, <1>2 DEF HandleSubmitted, submit_task, ReclaimTask, reclaim, Detach
<1>3. ASSUME NEW r \in Robots, NEW u \in Tasks, HandleCompleted(r, u)
      PROVE  HandleCompleted(r, t)
  BY <1>0, <1>3 DEF HandleCompleted, complete_task, storeVars, taskVars
<1>4. ASSUME NEW r \in Robots, NEW u \in Tasks, AssignTask(r, u) PROVE FALSE
  BY <1>0, <1>4 DEF AssignTask, assign
<1>5. ASSUME NEW r \in Robots, EvictRobot(r) PROVE FALSE
  BY <1>5 DEF EvictRobot, evict, taskVars
<1>6. CASE RollBack
  BY <1>0, <1>6 DEF RollBack, unassign, Detach
<1>7. ASSUME NEW c \in cycles, NEW v \in c, Parole(c, v) PROVE FALSE
  BY <1>0, <1>7 DEF Parole, unassign, Detach
<1>8. ASSUME NEW r \in Robots, NEW hb \in Reports,
             Register(r, hb.low) \/ HeartbeatArrives(r, hb)
      PROVE  FALSE
  BY <1>8 DEF Register, register_robot, HeartbeatArrives, apply_heartbeat,
              taskVars
<1> QED
  BY <1>1, <1>2, <1>3, <1>4, <1>5, <1>6, <1>7, <1>8, TableSteps

(* A fresh task stays untouched until it is sent, and then it is not fresh *)
(* any more: it leaves the table, and comes back only counted.             *)
LEMMA FreshStep ==
    ASSUME Inv, FreshIsUntouched, [Next]_vars
    PROVE  FreshIsUntouched'
<1> SUFFICES ASSUME NEW t \in Tasks, Fresh(t)' PROVE Untouched(t)'
  BY DEF FreshIsUntouched
<1>0. /\ dispatch \in Seq(Robots \X Tasks)
      /\ events \in Seq(SchedulerEvent) /\ Len(events) \in Nat
      /\ work \in [Robots \X Tasks -> 0..MaxCopies]
  BY DEF Inv, TypeOK
<1>1. Fresh(t) /\ Untouched(t)
  BY FreshBefore DEF FreshIsUntouched
<1>2. task_status'[t] # "Completed"
  <2> SUFFICES ASSUME NEW r \in Robots, HandleCompleted(r, t) PROVE FALSE
    BY <1>1, OnlyReportsComplete DEF Untouched
  <2>1. events # <<>> /\ Head(events) = TaskCompleted(r, t)
    BY DEF HandleCompleted
  <2>2. 1 \in 1..Len(events) /\ events[1] = TaskCompleted(r, t)
    BY <1>0, <2>1, TailLemma
  <2> QED
    BY <1>1, <2>2 DEF Untouched
<1>3. ~(SendDispatch /\ offer[2] = t)
  <2> SUFFICES ASSUME SendDispatch, offer[2] = t PROVE FALSE
    OBVIOUS
  <2>1. t \notin pending' /\ task_status'[t] = "Assigned"
    BY DEF SendDispatch, Inv, NotesHold, OfferNotes, storeVars, taskVars
  <2> QED
    BY <2>1 DEF Fresh
<1>4. ASSUME dispatch # <<>>
      PROVE  /\ Head(dispatch) \in Robots \X Tasks /\ Head(dispatch)[2] # t
             /\ \A i \in 1..Len(Tail(dispatch)) : Tail(dispatch)[i][2] # t
  <2>1. /\ Head(dispatch) \in Robots \X Tasks /\ Head(dispatch) = dispatch[1]
        /\ Len(dispatch) \in Nat \ {0} /\ Len(Tail(dispatch)) = Len(dispatch) - 1
        /\ \A i \in 1..Len(Tail(dispatch)) : Tail(dispatch)[i] = dispatch[i + 1]
    BY <1>0, <1>4, TailLemma
  <2>2. \A i \in 1..Len(dispatch) : dispatch[i][2] # t
    BY <1>1 DEF Untouched
  <2>3. \A i \in 1..Len(Tail(dispatch)) : i + 1 \in 1..Len(dispatch)
    BY <2>1
  <2> QED
    BY <2>1, <2>2, <2>3
<1>5. \A i \in 1..Len(dispatch') : dispatch'[i][2] # t
  <2>1. CASE SendDispatch
    <3>1. offer \in Robots \X Tasks /\ dispatch' = Append(dispatch, offer)
      BY <2>1 DEF SendDispatch, Inv, NotesHold, OfferNotes
    <3>2. /\ Len(dispatch) \in Nat /\ Len(dispatch') = Len(dispatch) + 1
          /\ \A i \in 1..Len(dispatch) : dispatch'[i] = dispatch[i]
          /\ dispatch'[Len(dispatch) + 1] = offer
      BY <1>0, <3>1, AppendLemma
    <3> QED
      BY <1>1, <1>3, <2>1, <3>2 DEF Untouched
  <2>2. CASE Deliver \/ DeliveryLost
    BY <1>4, <2>2 DEF Deliver, DeliveryLost
  <2>3. CASE UNCHANGED dispatch
    BY <1>1, <2>3 DEF Untouched
  <2> QED
    BY <2>1, <2>2, <2>3, WorkSteps DEF ReportComplete, WorkLost
<1>6. \A r \in Robots : work'[<<r, t>>] = 0
  <2> SUFFICES ASSUME NEW r \in Robots PROVE work'[<<r, t>>] = 0
    OBVIOUS
  <2>0. work[<<r, t>>] = 0 /\ <<r, t>> \in Robots \X Tasks
    BY <1>1 DEF Untouched
  <2>1. CASE Deliver
    BY <1>0, <1>4, <2>0, <2>1 DEF Deliver
  <2>2. ASSUME NEW q \in Robots, NEW u \in Tasks,
               ReportComplete(q, u) \/ WorkLost(q, u)
        PROVE  work'[<<r, t>>] = 0
    <3>1. work[<<q, u>>] > 0 /\ work' = [work EXCEPT ![<<q, u>>] = @ - 1]
      BY <2>2 DEF ReportComplete, WorkLost
    <3>2. <<q, u>> # <<r, t>>
      BY <2>0, <3>1
    <3> QED
      BY <1>0, <2>0, <3>1, <3>2
  <2>3. CASE UNCHANGED work
    BY <2>0, <2>3
  <2> QED
    BY <2>1, <2>2, <2>3, WorkSteps DEF SendDispatch, DeliveryLost
<1>7. \A i \in 1..Len(events'), r \in Robots : events'[i] # TaskCompleted(r, t)
  <2> DEFINE Quiet == \A i \in 1..Len(events'), r \in Robots :
                            events'[i] # TaskCompleted(r, t)
  <2>0. \A i \in 1..Len(events), r \in Robots : events[i] # TaskCompleted(r, t)
    BY <1>1 DEF Untouched
  <2>1. ASSUME NEW e \in SchedulerEvent, events' = Append(events, e),
               \A r \in Robots : e # TaskCompleted(r, t)
        PROVE  Quiet
    <3>1. /\ Len(events') = Len(events) + 1
          /\ \A j \in 1..Len(events) : events'[j] = events[j]
          /\ events'[Len(events) + 1] = e
      BY <1>0, <2>1, AppendLemma
    <3> QED
      BY <1>0, <2>0, <2>1, <3>1
  <2>2. CASE UNCHANGED events
    BY <2>0, <2>2
  <2>3. CASE events' = <<>>
    BY <2>3
  <2>4. CASE events # <<>> /\ events' = Tail(events)
    <3>1. /\ Len(events') = Len(events) - 1
          /\ \A j \in 1..Len(events') : events'[j] = events[j + 1]
      BY <1>0, <2>4, TailLemma
    <3> QED
      BY <1>0, <2>0, <3>1
  <2>5. ASSUME NEW u \in Tasks, SubmitTask(u) PROVE Quiet
    <3>1. /\ TaskSubmitted(u) \in SchedulerEvent
          /\ \A r \in Robots : TaskSubmitted(u) # TaskCompleted(r, t)
      BY DEF SchedulerEvent, TaskSubmitted, TaskCompleted
    <3> QED
      BY <2>1, <2>5, <3>1 DEF SubmitTask, Send
  <2>6. ASSUME NEW q \in Robots, NEW u \in Tasks, ReportComplete(q, u)
        PROVE  Quiet
    <3>1. work[<<q, u>>] > 0 /\ events' = Append(events, TaskCompleted(q, u))
      BY <2>6 DEF ReportComplete, Send
    <3>2. work[<<q, t>>] = 0
      BY <1>1 DEF Untouched
    <3>3. u # t
      BY <3>1, <3>2
    <3>4. /\ TaskCompleted(q, u) \in SchedulerEvent
          /\ \A r \in Robots : TaskCompleted(q, u) # TaskCompleted(r, t)
      BY <3>3 DEF SchedulerEvent, TaskCompleted
    <3> QED
      BY <2>1, <3>1, <3>4
  <2>7. CASE events' = Append(events, Shutdown)
    <3>1. /\ Shutdown \in SchedulerEvent
          /\ \A r \in Robots : Shutdown # TaskCompleted(r, t)
      BY DEF SchedulerEvent, Shutdown, TaskCompleted
    <3> QED
      BY <2>1, <2>7, <3>1
  <2> QED
    BY <2>2, <2>3, <2>4, <2>5, <2>6, <2>7, EventSteps
<1> QED
  BY <1>2, <1>5, <1>6, <1>7 DEF Untouched

(* A task that was completed is handed out again only if it was taken back *)
(* from a robot before.                                                    *)
THEOREM Reopening == Spec => OnlyLateTasksReopen
<1> DEFINE Step == \A t \in Tasks :
          task_status[t] = "Completed" /\ task_status'[t] = "Assigned" =>
              retry_count[t] > 0
<1>1. Init => FreshIsUntouched
  BY DEF Init, StoreInit, FreshIsUntouched, Untouched
<1>2. Inv /\ FreshIsUntouched /\ [Next]_vars => FreshIsUntouched'
  BY FreshStep
<1>3. Inv /\ FreshIsUntouched /\ [Next]_vars => [Step]_vars
  <2> SUFFICES ASSUME Inv, FreshIsUntouched, [Next]_vars, NEW t \in Tasks,
                      task_status[t] = "Completed", task_status'[t] = "Assigned"
               PROVE  retry_count[t] > 0
    OBVIOUS
  <2>0. /\ task_status \in [Tasks -> TaskStatus \cup {"Absent"}]
        /\ retry_count[t] \in Nat
    BY DEF Inv, TypeOK, StoreTypeOK, TasksTypeOK
  <2>1. Lifecycle!Next /\ t \in Tasks
    BY LifecycleStep DEF Lifecycle!vars
  <2>2. t \in pending
    <3>1. ASSUME NEW u \in Tasks, NEW p \in {"Pending", "Failed", "Completed"},
                 task_status' = [task_status EXCEPT ![u] = p]
          PROVE  FALSE
      BY <2>0, <3>1
    <3>2. \A u \in Tasks : /\ ~Lifecycle!Submit(u) /\ ~Lifecycle!SendBack(u)
                           /\ ~Lifecycle!PutAside(u) /\ ~Lifecycle!Retry(u)
                           /\ ~Lifecycle!GiveUp(u) /\ ~Lifecycle!Complete(u)
      BY <3>1
      DEF Lifecycle!Submit, Lifecycle!SendBack, Lifecycle!PutAside,
          Lifecycle!Retry, Lifecycle!GiveUp, Lifecycle!Complete,
          Lifecycle!Becomes
    <3>3. \A u \in Tasks : ~Lifecycle!Drop(u)
      BY DEF Lifecycle!Drop
    <3>4. PICK u \in Tasks, r \in Robots : Lifecycle!Assign(u, r)
      BY <2>1, <3>2, <3>3 DEF Lifecycle!Next
    <3>5. u \in pending /\ task_status' = [task_status EXCEPT ![u] = "Assigned"]
      BY <3>4 DEF Lifecycle!Assign, Lifecycle!Becomes
    <3>6. u = t
      BY <2>0, <3>5
    <3> QED
      BY <3>5, <3>6
  <2>3. ~Fresh(t)
    BY DEF FreshIsUntouched, Untouched
  <2> QED
    BY <2>0, <2>2, <2>3 DEF Fresh
<1> QED
  BY <1>1, <1>2, <1>3, Invariance, PTL DEF Spec, OnlyLateTasksReopen

----------------------------------------------------------------------------
(* Without deadlock resolution no task is forgotten.                       *)

\* With resolution off there is never a cycle to break, and so no parole.
NoneForgotten == Inv /\ cycles = {} /\ NoTaskForgotten

(* A step keeps every Pending task with a goal on the map in the table: it *)
(* becomes Pending together with its entry, and loses the entry only by    *)
(* being handed out.                                                       *)
LEMMA ForgottenStep ==
    ASSUME EnableDeadlockResolution = FALSE, NoneForgotten, [Next]_vars
    PROVE  cycles' = {} /\ NoTaskForgotten'
<1> USE DEF NoneForgotten, Inv
<1>0. /\ task_status \in [Tasks -> TaskStatus \cup {"Absent"}]
      /\ pending \subseteq Tasks
  BY DEF TypeOK, StoreTypeOK, TasksTypeOK
<1> USE DEF NoTaskForgotten
<1>1. CASE Environment \/ UNCHANGED vars
  BY <1>1, OutsideSteps DEF notes, scratch
<1>2. CASE HandleShutdown \/ Tick
  BY <1>2 DEF HandleShutdown, Tick, storeVars, taskVars, scratch
<1>3. ASSUME NEW t \in Tasks, HandleSubmitted(t)
      PROVE  cycles' = {} /\ NoTaskForgotten'
  BY <1>0, <1>3 DEF HandleSubmitted, submit_task, scratch
<1>4. ASSUME NEW r \in Robots, NEW t \in Tasks, HandleCompleted(r, t)
      PROVE  cycles' = {} /\ NoTaskForgotten'
  BY <1>0, <1>4
  DEF HandleCompleted, complete_task, storeVars, taskVars, scratch
<1>5. ASSUME NEW t \in Tasks, ReclaimTask(t)
      PROVE  cycles' = {} /\ NoTaskForgotten'
  BY <1>0, <1>5 DEF ReclaimTask, reclaim, Detach
<1>6. ASSUME NEW t \in Tasks, DropInvalid(t)
      PROVE  cycles' = {} /\ NoTaskForgotten'
  BY <1>6 DEF DropInvalid, storeVars, taskVars
<1>7. ASSUME NEW r \in Robots, EvictRobot(r)
      PROVE  cycles' = {} /\ NoTaskForgotten'
  BY <1>7 DEF EvictRobot, evict, taskVars
<1>8. ASSUME NEW r \in Robots, NEW t \in Tasks,
             DeferTask(r, t) \/ AssignTask(r, t) \/ AssignRefused(r, t)
      PROVE  cycles' = {} /\ NoTaskForgotten'
  BY <1>0, <1>8
  DEF DeferTask, AssignTask, AssignRefused, assign, storeVars, taskVars
<1>9. CASE ScanForEviction \/ StartMatching
  BY <1>9 DEF ScanForEviction, StartMatching, storeVars, taskVars
<1>10. CASE SendDispatch
  BY <1>10 DEF SendDispatch, NotesHold, OfferNotes, storeVars, taskVars
<1>11. CASE RollBack
  BY <1>0, <1>11
  DEF RollBack, unassign, Detach, NotesHold, OfferNotes
<1>12. CASE FinishMatching
  BY <1>12 DEF FinishMatching, storeVars, taskVars
<1> QED
  BY <1>1, <1>2, <1>3, <1>4, <1>5, <1>6, <1>7, <1>8, <1>9, <1>10, <1>11,
     <1>12
  DEF Next, HandleEvent, TickStep

(* With enable_deadlock_resolution off, no task with a goal on the map is  *)
(* Pending in the store and missing from the scheduler's pending table.    *)
THEOREM Remembering ==
    ASSUME EnableDeadlockResolution = FALSE
    PROVE  Spec => []NoTaskForgotten
<1>1. Init => cycles = {} /\ NoTaskForgotten
  BY DEF Init, StoreInit, NoTaskForgotten
<1>2. (Inv /\ cycles = {} /\ NoTaskForgotten) /\ [Next]_vars
        => (cycles = {} /\ NoTaskForgotten)'
  BY ForgottenStep DEF NoneForgotten
<1> QED
  BY <1>1, <1>2, Invariance, PTL DEF Spec
=============================================================================

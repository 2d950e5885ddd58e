------------------------ MODULE SchedulerProperties ------------------------
(* What the dispatch core promises.                                        *)
EXTENDS Scheduler

(* A robot that is bound to a task is Busy, so matching never offers it a  *)
(* second one: heartbeats, evictions, late reports and registrations that  *)
(* come in between must clear the binding whenever they change the status. *)
BoundRobotIsBusy ==
    \A r \in Robots : current_task[r] # NoTask => status[r] = "Busy"

(* The two tables agree from the robot's side, whatever heartbeats,        *)
(* registrations, timeouts, rollbacks, paroles and late reports come in    *)
(* between: a task that a robot holds names that robot, and has been       *)
(* handed out.  In particular no two robots hold the same task, although   *)
(* a task that timed out is handed to another robot while the first one    *)
(* may still be driving.                                                   *)
HolderIsAssignee ==
    \A r \in Robots, t \in Tasks :
        current_task[r] = t =>
            /\ assigned_robot[t] = r
            /\ task_status[t] \in {"Assigned", "Completed"}

(* A task in the scheduler's pending table is in no robot's hands and is   *)
(* not counted as handed out, except the one being sent at this moment:    *)
(* otherwise the next tick would give it out twice.                        *)
PendingTaskIsFree ==
    \A t \in pending :
        t # offer[2] =>
            /\ task_status[t] \in {"Pending", "Completed"}
            /\ \A r \in Robots : current_task[r] # t

(* Failed is the verdict of a reclaim after MaxRetries others, never of    *)
(* fewer.  (What else counts as a try, and what does not, is a matter of   *)
(* LifecycleSpec.)                                                         *)
FailedAfterAllRetries ==
    \A t \in Tasks : task_status[t] = "Failed" => retry_count[t] = MaxRetries

(* What goes down the dispatch channel is an assignment that the store     *)
(* holds at that moment, of a task that leaves the pending table with it.  *)
SentIsAssigned ==
    [][Len(dispatch') > Len(dispatch) =>
          LET d == dispatch'[Len(dispatch')]
          IN  /\ task_status'[d[2]] = "Assigned"
              /\ assigned_robot'[d[2]] = d[1]
              /\ d[2] \notin pending'
      ]_vars

(* Candidates are a snapshot, and heartbeats, registrations and reports    *)
(* come in before the last of them has its task.  Still a robot is bound   *)
(* only while the store shows it Idle, never over a task that it already   *)
(* has, and never while it rests after having given way.                   *)
BoundWhenIdle ==
    [][\A r \in Robots :
          current_task'[r] \notin {current_task[r], NoTask} =>
              /\ status[r] = "Idle"
              /\ current_task[r] = NoTask
              /\ cooldown[r] = 0
      ]_vars

(* A task that was completed is handed out again only if it was taken back *)
(* from a robot before: the report was late, and the task was waiting for  *)
(* its next try.  A task that nobody was late with is carried out once,    *)
(* through lost dispatches, rollbacks, paroles and registrations.          *)
OnlyLateTasksReopen ==
    [][\A t \in Tasks :
          task_status[t] = "Completed" /\ task_status'[t] = "Assigned" =>
              retry_count[t] > 0
      ]_vars

(* What the scheduler wrote down at an earlier step of the tick is still   *)
(* true when it acts on it, although the robot table moves under it: the   *)
(* task of a reclaim is still handed out and not pending again, the task   *)
(* being sent still belongs to the robot it is sent to, the victim of a    *)
(* cycle is still the only robot that may hold the task it is to give up,  *)
(* and a task still queued for submission is unknown to the store.         *)
StaleNotes ==
    /\ pc # "reclaim" => stale = {}
    /\ \A t \in stale : task_status[t] = "Assigned" /\ t \notin pending

RoundNotes ==
    /\ pc \notin {"match", "send"} => todo = {}
    /\ todo \subseteq pending

OfferNotes ==
    IF pc = "send"
    THEN /\ offer \in Robots \X Tasks
         /\ offer[2] \in pending
         /\ task_status[offer[2]] = "Assigned"
         /\ assigned_robot[offer[2]] = offer[1]
    ELSE offer = NoOffer

CycleNotes ==
    /\ pc # "parole" => cycles = {}
    /\ \A c \in cycles : \A v \in c :
        /\ robot_task[v] \in Tasks \ pending
        /\ task_status[robot_task[v]] \in {"Pending", "Assigned", "Completed"}
        /\ \A r \in Robots : current_task[r] = robot_task[v] => r = v

QueuedSubmissions ==
    \A i \in 1..Len(events), t \in Tasks :
        events[i] = TaskSubmitted(t) =>
            /\ task_status[t] = "Absent"
            /\ \A j \in 1..Len(events) : events[j] = TaskSubmitted(t) => i = j

NotesHold ==
    StaleNotes /\ RoundNotes /\ OfferNotes /\ CycleNotes /\ QueuedSubmissions

(* Whatever channels, ticks and robots do, a submitter sees each task go   *)
(* through the steps of TaskLifecycle and no others: it is handed out only *)
(* from the line, and leaves the line with that; submissions, reclaims and *)
(* rollbacks put it in line, paroles and reports do not; rollbacks and     *)
(* paroles cost it no try and a reclaim costs exactly one.  The task that  *)
(* is being sent is still in the table, but no longer in line.             *)
Lifecycle == INSTANCE TaskLifecycle WITH
    phase <- task_status,
    tries <- retry_count,
    line <- pending \ {offer[2]},
    holder <- [t \in Tasks |-> IF task_status[t] = "Assigned"
                               THEN assigned_robot[t] ELSE NoRobot]

LifecycleSpec == Lifecycle!Spec

(* A task that is over stays over, whatever late reports and paroles still *)
(* make of its status; and a task is over when it is given up, so it is    *)
(* never handed out again.                                                 *)
NoComeback ==
    [][\A t \in Tasks :
          /\ Lifecycle!Over(t) => Lifecycle!Over(t)'
          /\ task_status'[t] = "Failed" => Lifecycle!Over(t)'
      ]_vars

(* The same from the submitter's side: after Failed there is no Assigned.  *)
GivenUpForGood ==
    \A t \in Tasks :
        [](task_status[t] = "Failed" => [](task_status[t] # "Assigned"))

(* With deadlock resolution off no task with a goal on the map is ever     *)
(* forgotten: the store says Pending only of tasks that the scheduler has  *)
(* in its table, through timeouts, lost robots, refusals and rollbacks.    *)
NoTaskForgotten ==
    \A t \in Tasks \ BadGoals : task_status[t] = "Pending" => t \in pending

(* Whatever becomes of its robot or of the dispatch, a task does not stay  *)
(* Assigned: a report or a reclaim ends it (the recovery that README.md    *)
(* promises for lost robots), unless the scheduler is shut down.           *)
AssignmentEnds ==
    \A t \in Tasks :
        task_status[t] = "Assigned" ~>
            (task_status[t] # "Assigned" \/ pc = "stopped")

(* memory_store.rs:254: completing a task releases the robot that had it.  *)
(* So a robot that is bound to a task which is Completed does not remain   *)
(* bound to it.                                                            *)
CompletedTaskFreesRobot ==
    \A r \in Robots, t \in Tasks :
        (current_task[r] = t /\ task_status[t] = "Completed") ~>
            (current_task[r] # t \/ task_status[t] # "Completed"
                \/ pc = "stopped")

(* memory_store.rs:292: the task of a paroled robot is scheduled again in  *)
(* a later tick.  So a task that the store holds as Pending comes to the   *)
(* scheduler's pending table, or is brought to its end by the robot.       *)
ParoledTaskIsRescheduled ==
    \A t \in Tasks :
        task_status[t] = "Pending" ~>
            (t \in pending \/ task_status[t] # "Pending" \/ pc = "stopped")
=============================================================================

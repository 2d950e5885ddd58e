---------------------------- MODULE MemoryStore ----------------------------
(***************************************************************************)
(* The store shared by the scheduler, the TCP server and the front ends    *)
(* (src/src/storage/memory_store.rs): a robot table, a task table, and the *)
(* operations that move both through their life cycle.                     *)
(*                                                                         *)
(* Each operation below is one critical section or a pair of them that     *)
(* nothing can tell apart: the task table is written by the scheduler task *)
(* alone, so the task half of an operation commutes with everything the    *)
(* other threads do, and the robot half, taken under the shard lock, is    *)
(* where heartbeats and registrations can come in between.  Operations     *)
(* that first scan and then update (eviction, reclaim) are split at that   *)
(* point by the modules that use them.                                     *)
(*                                                                         *)
(* Times are ages: `silent` is how long ago the last heartbeat was         *)
(* stamped, `assigned_age` how long ago the task was handed out.  An age   *)
(* stops at AgeCap, past every timeout it is compared with.                *)
(***************************************************************************)
EXTENDS Naturals

CONSTANTS
    Robots,            \* RobotId
    Tasks,             \* TaskId
    NoRobot,           \* Option::<RobotId>::None
    NoTask,            \* Option::<TaskId>::None
    HeartbeatTimeout,  \* config.heartbeat_timeout_ms, in units of time
    TaskTimeout,       \* config.task_timeout_ms, in units of time
    MaxRetries         \* config.max_task_retries

ASSUME NoneAssumption == NoRobot \notin Robots /\ NoTask \notin Tasks
ASSUME TimeoutAssumption == HeartbeatTimeout \in Nat /\ TaskTimeout \in Nat
ASSUME RetryAssumption == MaxRetries \in 0..255  \* u8

VARIABLES
    status,          \* RobotState.status; "Absent" when the table has no entry
    current_task,    \* RobotState.current_task
    silent,          \* now - RobotState.last_heartbeat
    low_battery,     \* RobotState.battery.is_low()
    task_status,     \* Task.status; "Absent" when the table has no entry
    assigned_robot,  \* Task.assigned_robot
    assigned_age,    \* now - Task.assigned_at while Assigned, the only status
                     \* under which it is read, and 0 otherwise
    retry_count      \* Task.retry_count

robotVars == <<status, current_task, silent, low_battery>>
taskVars == <<task_status, assigned_robot, assigned_age, retry_count>>
storeVars == <<robotVars, taskVars>>

RobotStatus == {"Idle", "Busy", "Charging", "Error", "Offline"}
\* TaskStatus::Executing is left out: no code ever writes it.
TaskStatus == {"Pending", "Assigned", "Completed", "Failed"}

AgeCap == 1 + IF HeartbeatTimeout > TaskTimeout THEN HeartbeatTimeout
                                                ELSE TaskTimeout
Ages == 0..AgeCap

\* A heartbeat as the store uses it: what it reports and how old its stamp is
\* when it is applied (it waited in the socket).
Heartbeat == [status : RobotStatus, low : BOOLEAN, delay : Ages]

RobotsTypeOK ==
    /\ status \in [Robots -> RobotStatus \cup {"Absent"}]
    /\ current_task \in [Robots -> Tasks \cup {NoTask}]
    /\ silent \in [Robots -> Ages]
    /\ low_battery \in [Robots -> BOOLEAN]

TasksTypeOK ==
    /\ task_status \in [Tasks -> TaskStatus \cup {"Absent"}]
    /\ assigned_robot \in [Tasks -> Robots \cup {NoRobot}]
    /\ assigned_age \in [Tasks -> Ages]
    /\ retry_count \in [Tasks -> 0..MaxRetries]

StoreTypeOK == RobotsTypeOK /\ TasksTypeOK

StoreInit ==
    /\ status = [r \in Robots |-> "Absent"]
    /\ current_task = [r \in Robots |-> NoTask]
    /\ silent = [r \in Robots |-> 0]
    /\ low_battery = [r \in Robots |-> FALSE]
    /\ task_status = [t \in Tasks |-> "Absent"]
    /\ assigned_robot = [t \in Tasks |-> NoRobot]
    /\ assigned_age = [t \in Tasks |-> 0]
    /\ retry_count = [t \in Tasks |-> 0]

----------------------------------------------------------------------------
(* Pieces of the operations.                                               *)

is_stale(r, timeout) == silent[r] > timeout

\* The robot half of releasing r: the binding goes, the status becomes st.
\* (target, route and carrying go with the binding.)
Release(r, st) ==
    /\ status' = [status EXCEPT ![r] = st]
    /\ current_task' = [current_task EXCEPT ![r] = NoTask]
    /\ UNCHANGED <<silent, low_battery>>

\* The task half: t leaves its robot with status st and n retries.
Detach(t, st, n) ==
    /\ task_status' = [task_status EXCEPT ![t] = st]
    /\ assigned_robot' = [assigned_robot EXCEPT ![t] = NoRobot]
    /\ assigned_age' = [assigned_age EXCEPT ![t] = 0]
    /\ retry_count' = [retry_count EXCEPT ![t] = n]

----------------------------------------------------------------------------
(* Operations of the connection handlers.                                  *)

\* Overwrites any earlier entry, with it the binding the entry held.
register_robot(r, low) ==
    /\ status' = [status EXCEPT ![r] = "Idle"]
    /\ current_task' = [current_task EXCEPT ![r] = NoTask]
    /\ silent' = [silent EXCEPT ![r] = 0]
    /\ low_battery' = [low_battery EXCEPT ![r] = low]
    /\ UNCHANGED taskVars

MutantHeartbeatTrusted(r, hb) ==
    /\ status[r] # "Absent"
    /\ status' = [status EXCEPT ![r] = hb.status]
    /\ silent' = [silent EXCEPT ![r] = hb.delay]
    /\ low_battery' = [low_battery EXCEPT ![r] = hb.low]
    /\ UNCHANGED <<current_task, taskVars>>

\* The reported status is ignored while the scheduler holds the robot Busy.
apply_heartbeat(r, hb) ==
    /\ status[r] # "Absent"
    /\ status' = IF status[r] = "Busy" THEN status
                                       ELSE [status EXCEPT ![r] = hb.status]
    /\ silent' = [silent EXCEPT ![r] = hb.delay]
    /\ low_battery' = [low_battery EXCEPT ![r] = hb.low]
    /\ UNCHANGED <<current_task, taskVars>>

----------------------------------------------------------------------------
(* Operations of the scheduler.                                            *)

submit_task(t) ==
    /\ task_status' = [task_status EXCEPT ![t] = "Pending"]
    /\ assigned_robot' = [assigned_robot EXCEPT ![t] = NoRobot]
    /\ assigned_age' = [assigned_age EXCEPT ![t] = 0]
    /\ retry_count' = [retry_count EXCEPT ![t] = 0]
    /\ UNCHANGED robotVars

available_robots ==
    {r \in Robots : status[r] = "Idle" /\ ~is_stale(r, HeartbeatTimeout)}

MutantAssignUnchecked(r, t) ==
    /\ status[r] # "Absent"
    /\ status' = [status EXCEPT ![r] = "Busy"]
    /\ current_task' = [current_task EXCEPT ![r] = t]
    /\ task_status' = [task_status EXCEPT ![t] = "Assigned"]
    /\ assigned_robot' = [assigned_robot EXCEPT ![t] = r]
    /\ assigned_age' = [assigned_age EXCEPT ![t] = 0]
    /\ UNCHANGED <<silent, low_battery, retry_count>>

assign(r, t) ==
    /\ status[r] = "Idle"
    /\ status' = [status EXCEPT ![r] = "Busy"]
    /\ current_task' = [current_task EXCEPT ![r] = t]
    /\ task_status' = [task_status EXCEPT ![t] = "Assigned"]
    /\ assigned_robot' = [assigned_robot EXCEPT ![t] = r]
    /\ assigned_age' = [assigned_age EXCEPT ![t] = 0]
    /\ UNCHANGED <<silent, low_battery, retry_count>>

MutantCompleteIfBound(r, t) ==
    IF task_status[t] = "Absent" THEN UNCHANGED storeVars
    ELSE /\ task_status' = [task_status EXCEPT ![t] = "Completed"]
         /\ IF current_task[r] # t THEN UNCHANGED robotVars
                                   ELSE Release(r, "Idle")
         /\ assigned_age' = [assigned_age EXCEPT ![t] = 0]
         /\ UNCHANGED <<assigned_robot, retry_count>>

\* Unconditional on both sides: neither the task's status nor the robot's
\* binding is looked at.
complete_task(r, t) ==
    IF task_status[t] = "Absent" THEN UNCHANGED storeVars
    ELSE /\ task_status' = [task_status EXCEPT ![t] = "Completed"]
         /\ IF status[r] = "Absent" THEN UNCHANGED robotVars
                                    ELSE Release(r, "Idle")
         /\ assigned_age' = [assigned_age EXCEPT ![t] = 0]
         /\ UNCHANGED <<assigned_robot, retry_count>>

MutantUnassignCounts(r, t) ==
    /\ Release(r, IF status[r] = "Busy" THEN "Idle" ELSE status[r])
    /\ Detach(t, "Pending", retry_count[t] + 1)

unassign(r, t) ==
    /\ Release(r, IF status[r] = "Busy" THEN "Idle" ELSE status[r])
    /\ Detach(t, "Pending", retry_count[t])

\* The bound robot cannot be expected to finish.
Gone(r) ==
    \/ r = NoRobot
    \/ status[r] \in {"Absent", "Offline"}
    \/ is_stale(r, TaskTimeout)

MutantReclaimableOfflineOnly(t) ==
    /\ task_status[t] = "Assigned"
    /\ Gone(assigned_robot[t])

\* First half of reclaim_stale_tasks: the filter of its scan.
Reclaimable(t) ==
    /\ task_status[t] = "Assigned"
    /\ assigned_age[t] > TaskTimeout \/ Gone(assigned_robot[t])

MutantExhaustedLate(t) == retry_count[t] > MaxRetries

exhausted(t) == retry_count[t] >= MaxRetries

MutantReclaimForgetsRobot(t) ==
    /\ UNCHANGED robotVars
    /\ IF exhausted(t) THEN Detach(t, "Failed", retry_count[t])
                       ELSE Detach(t, "Pending", retry_count[t] + 1)

MutantReclaimGivesUp(t) ==
    LET r == assigned_robot[t]
    IN  /\ IF r \in Robots /\ current_task[r] = t
           THEN Release(r, IF status[r] = "Offline" THEN "Offline" ELSE "Idle")
           ELSE UNCHANGED robotVars
        /\ Detach(t, "Failed", retry_count[t])

\* Second half, once per collected task.  Nobody but the scheduler writes the
\* task table, so the robot and the retries are still those of the scan; the
\* robot may have been heard of, or have registered again, since.
reclaim(t) ==
    LET r == assigned_robot[t]
    IN  /\ IF r \in Robots /\ current_task[r] = t
           THEN Release(r, IF status[r] = "Offline" THEN "Offline" ELSE "Idle")
           ELSE UNCHANGED robotVars
        /\ IF exhausted(t) THEN Detach(t, "Failed", retry_count[t])
                           ELSE Detach(t, "Pending", retry_count[t] + 1)

\* The two halves of evict_stale_robots: whom the scan collects, and what
\* happens to each of them without a second look.
Evictable(r) ==
    /\ status[r] \notin {"Absent", "Offline"}
    /\ is_stale(r, HeartbeatTimeout)

evict(r) == Release(r, "Offline") /\ UNCHANGED taskVars

----------------------------------------------------------------------------
(* The clock (config::monotonic_ms).                                       *)

Older(a) == IF a < AgeCap THEN a + 1 ELSE a

advance ==
    /\ silent' = [r \in Robots |->
                    IF status[r] = "Absent" THEN 0 ELSE Older(silent[r])]
    /\ assigned_age' = [t \in Tasks |->
                    IF task_status[t] = "Assigned" THEN Older(assigned_age[t])
                                                   ELSE 0]
    /\ UNCHANGED <<status, current_task, low_battery,
                   task_status, assigned_robot, retry_count>>
=============================================================================

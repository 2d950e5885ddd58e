--------------------------- MODULE TaskLifecycle ---------------------------
(***************************************************************************)
(* What a task goes through, seen by the one who submitted it: in which    *)
(* status it is, who has it, how often it was taken back, and whether it   *)
(* is in line to be handed out.  Channels, ticks, heartbeats and positions *)
(* are not visible here; SchedulerProperties and Fleet map the code to     *)
(* this module.                                                            *)
(*                                                                         *)
(* The place in line is apart from the status, because it is apart in the  *)
(* code: a late report completes a task that was taken back and leaves it  *)
(* in line, so it is handed out once more; a task put aside to break a     *)
(* deadlock is Pending and in no line.  A task that nobody has and that is *)
(* in no line is over: it never comes back, whatever is reported of it     *)
(* (Over).  Every task that was given up is over.                          *)
(***************************************************************************)
EXTENDS Naturals

CONSTANTS
    Robots,      \* those who can have a task
    Tasks,
    NoRobot,     \* nobody has it
    MaxRetries   \* how often a task is taken back before it is given up

VARIABLES
    phase,   \* status of each task, "Absent" before its submission
    holder,  \* who has it while it is Assigned
    tries,   \* how often it was taken back
    line     \* the tasks that wait to be handed out

vars == <<phase, holder, tries, line>>

Init ==
    /\ phase = [t \in Tasks |-> "Absent"]
    /\ holder = [t \in Tasks |-> NoRobot]
    /\ tries = [t \in Tasks |-> 0]
    /\ line = {}

\* t comes to phase p, in the hands of r, having been taken back n times.
Becomes(t, p, r, n) ==
    /\ phase' = [phase EXCEPT ![t] = p]
    /\ holder' = [holder EXCEPT ![t] = r]
    /\ tries' = [tries EXCEPT ![t] = n]

Submit(t) ==
    /\ phase[t] = "Absent"
    /\ Becomes(t, "Pending", NoRobot, 0)
    /\ line' = line \cup {t}

Assign(t, r) ==
    /\ t \in line
    /\ phase[t] \in {"Pending", "Completed"}
    /\ Becomes(t, "Assigned", r, tries[t])
    /\ line' = line \ {t}

\* It could not be sent to r: back in line, and it costs no try.
SendBack(t) ==
    /\ phase[t] = "Assigned"
    /\ Becomes(t, "Pending", NoRobot, tries[t])
    /\ line' = line \cup {t}

\* Its robot has to give way.  No try is counted, and nobody puts t back in
\* line; it may have been completed in the meantime.
PutAside(t) ==
    /\ phase[t] \in {"Assigned", "Completed"}
    /\ t \notin line
    /\ Becomes(t, "Pending", NoRobot, tries[t])
    /\ UNCHANGED line

\* Taken back from a robot that is late or gone.
Retry(t) ==
    /\ phase[t] = "Assigned"
    /\ tries[t] < MaxRetries
    /\ Becomes(t, "Pending", NoRobot, tries[t] + 1)
    /\ line' = line \cup {t}

GiveUp(t) ==
    /\ phase[t] = "Assigned"
    /\ tries[t] = MaxRetries
    /\ Becomes(t, "Failed", NoRobot, tries[t])
    /\ UNCHANGED line

\* A report of success, whoever sent it and however late.
Complete(t) ==
    /\ phase[t] # "Absent"
    /\ Becomes(t, "Completed", NoRobot, tries[t])
    /\ UNCHANGED line

\* There is no such place as it is to go to.
Drop(t) ==
    /\ t \in line
    /\ line' = line \ {t}
    /\ UNCHANGED <<phase, holder, tries>>

Next ==
    \E t \in Tasks :
        \/ Submit(t)
        \/ \E r \in Robots : Assign(t, r)
        \/ SendBack(t) \/ PutAside(t) \/ Retry(t) \/ GiveUp(t)
        \/ Complete(t) \/ Drop(t)

Spec == Init /\ [][Next]_vars

\* Submitted, with nobody and in no line.  No step leads out of this.
Over(t) == t \notin line /\ phase[t] \in {"Pending", "Completed", "Failed"}
=============================================================================

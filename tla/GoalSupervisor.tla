--------------------------- MODULE GoalSupervisor ---------------------------
(***************************************************************************)
(* What task_manager promises about the robot, without its task states,    *)
(* timers, generations or vision: at most one goal is out; a cancelled     *)
(* goal is never followed by another of the same task; a fault cancels     *)
(* what runs and voids a recovery under way; recovery is asked of the      *)
(* robot only once nothing runs, and only its success leads back to        *)
(* NORMAL, the one level at which a goal is sent.                          *)
(***************************************************************************)
VARIABLES
  goal,        \* the robot's goal: "none", "sent" (not yet accepted) or "running"
  cancelling,  \* has its cancellation been asked for?
  level,       \* the safety level
  recovery     \* "no", "waiting" for the goal to end, or "calling" the robot

vars == <<goal, cancelling, level, recovery>>

Fault == {"PROTECTIVE_STOP", "FAULT", "EMERGENCY_STOP"}
Level == Fault \cup {"NORMAL", "RECOVERY_REQUIRED"}

Init ==
  /\ goal = "none"
  /\ cancelling = FALSE
  /\ level = "NORMAL"
  /\ recovery = "no"

Start ==
  /\ goal = "none"
  /\ level = "NORMAL"
  /\ goal' = "sent"
  /\ UNCHANGED <<cancelling, level, recovery>>

Accept ==
  /\ goal = "sent"
  /\ goal' = "running"
  /\ UNCHANGED <<cancelling, level, recovery>>

\* The goal ended by itself: the task goes on with the next goal, rests, or fails.
Finish ==
  /\ goal # "none"
  /\ ~cancelling
  /\ \/ goal' = "none" /\ level' = level
     \/ goal' = "none" /\ level' \in Fault
     \/ goal' = "sent" /\ level = "NORMAL" /\ level' = level
  /\ UNCHANGED <<cancelling, recovery>>

Cancel ==
  /\ goal # "none"
  /\ level = "NORMAL"
  /\ cancelling' = TRUE
  /\ UNCHANGED <<goal, level, recovery>>

\* The cancelled goal ended, however it ended: only a recovery that waited for it follows.
CancelConfirmed ==
  /\ cancelling
  /\ goal' = "none"
  /\ cancelling' = FALSE
  /\ recovery' \in IF recovery = "waiting" THEN {"calling", "no"} ELSE {recovery}
  /\ UNCHANGED level

CancelTimeout ==
  /\ cancelling
  /\ level' = "FAULT"
  /\ recovery' = "no"
  /\ UNCHANGED <<goal, cancelling>>

RaiseFault ==
  /\ level' \in Fault
  /\ cancelling' = (goal # "none")
  /\ recovery' = "no"
  /\ UNCHANGED goal

\* The connection to the robot broke: nothing is known of the goal any more.
LoseGoal ==
  /\ goal' = "none"
  /\ cancelling' = FALSE
  /\ level' = "FAULT"
  /\ recovery' = "no"

Reset ==
  /\ level # "NORMAL"
  /\ recovery = "no"
  /\ level' = "RECOVERY_REQUIRED"
  /\ cancelling' = (goal # "none")
  /\ recovery' \in IF goal = "none" THEN {"calling", "no"} ELSE {"waiting"}
  /\ UNCHANGED goal

RecoveryEnds ==
  /\ recovery = "calling"
  /\ recovery' = "no"
  /\ level' \in {level, "NORMAL"}
  /\ UNCHANGED <<goal, cancelling>>

Next ==
  \/ Start \/ Accept \/ Finish
  \/ Cancel \/ CancelConfirmed \/ CancelTimeout
  \/ RaiseFault \/ LoseGoal
  \/ Reset \/ RecoveryEnds

Spec == Init /\ [][Next]_vars

TypeOK ==
  /\ goal \in {"none", "sent", "running"}
  /\ cancelling \in BOOLEAN
  /\ level \in Level
  /\ recovery \in {"no", "waiting", "calling"}

(***************************************************************************)
(* While /robot/recover is being called the robot has no goal and none can *)
(* be sent: RECOVERY_REQUIRED lasts until the answer, or a new fault voids *)
(* the call (_call_recover_service runs "only after the cancellation is    *)
(* confirmed").                                                            *)
(***************************************************************************)
RecoversOnlyAtRest ==
  /\ recovery = "calling" => goal = "none" /\ level = "RECOVERY_REQUIRED"
  /\ recovery = "waiting" => cancelling /\ level = "RECOVERY_REQUIRED"

(***************************************************************************)
(* Away from NORMAL, a goal the robot still has is a goal being cancelled. *)
(***************************************************************************)
StoppedMeansCancelling == level # "NORMAL" /\ goal # "none" => cancelling

=============================================================================

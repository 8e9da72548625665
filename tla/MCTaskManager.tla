--------------------------- MODULE MCTaskManager ---------------------------
(***************************************************************************)
(* The fairness task_manager runs under, and what must come to an end      *)
(* because of it.                                                          *)
(***************************************************************************)
EXTENDS TaskManager

\* The node is spun for ever, so a timer that stays armed fires.
TimersFire ==
  /\ WF_vars(OnCancelTimeout)
  /\ WF_vars(OnDetectTrackTimeout)
  /\ WF_vars(\E c \in Waiting("set_mode") : OnVisionModeTimeout(c))
  /\ WF_vars(\E c \in Waiting("recover") : OnRecoveryTimeout(c))

\* Nothing is assumed of the robot, of vision_node or of the operator.
LiveSpec == Spec /\ TimersFire

\* A task that waits for a track, or for vision_node's answer.
Detecting == tm.state = "DETECT_TRACK" /\ tm.safety = "NORMAL"
AwaitingVision ==
  /\ tm.state \in {"MOVE_TO_WATCH", "APPROACH_HAND"}
  /\ tm.safety = "NORMAL"
  /\ ~tm.goalInProgress

(***************************************************************************)
(* Both waits of a task at NORMAL end.  DETECT_TRACK: a track starts the   *)
(* pick, or the timeout takes the task back to IDLE; a lost target starts  *)
(* a new wait, never one without a clock.  vision_node: the stage gets its *)
(* goal out, or the task stops or fails; an unanswered or abandoned        *)
(* request cannot hold it.                                                 *)
(***************************************************************************)
VisionWaitsEnd == (Detecting ~> ~Detecting) /\ (AwaitingVision ~> ~AwaitingVision)

(***************************************************************************)
(* CANCELLING ends: confirmed, it leads to IDLE; unconfirmed, the timeout  *)
(* leads to FAULT (docs: cancel_timeout_s).                                *)
(***************************************************************************)
Cancelling == tm.state = "CANCELLING" /\ tm.safety = "NORMAL"
CancellingEnds == Cancelling ~> (tm.state = "IDLE" \/ tm.safety # "NORMAL")

(***************************************************************************)
(* Once /robot/recover is called, the robot's answer, the timeout or a new *)
(* fault decides the recovery, and reset is open again.                    *)
(***************************************************************************)
RecoveryDecided == Current(tm.calls, {"recover"}) # {} ~> ~tm.recoveryInProgress

=============================================================================

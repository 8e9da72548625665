---------------------------- MODULE TaskManager ----------------------------
(***************************************************************************)
(* task_manager: the node that turns operator commands into RobotTask      *)
(* goals and supervises the hand-over of a tool (mixins TaskFlow,          *)
(* ActionCoordinator and SafetyRecovery of TaskManagerNode).               *)
(*                                                                         *)
(* The node is spun by one thread, so a callback is one step.  A method of *)
(* the node is an operator from its attributes (a record of TaskState) to  *)
(* its attributes after the call; a callback is an action that applies     *)
(* such an operator to the variable tm.                                    *)
(*                                                                         *)
(* Generation counters are only ever compared for equality with their      *)
(* present value, so a reply or a timer keeps one bit instead of a number: *)
(* "current" says that the counter has not moved since the call was made,  *)
(* and incrementing the counter (Retire) clears it.  "timed" says that the *)
(* response timer started with the call is still running.                  *)
(***************************************************************************)
EXTENDS Naturals, FiniteSets

CONSTANTS
  Tools,                  \* tool classes an operator can ask for
  ConfiguredTools,        \* those with a valid grasp spec in the parameters
  VerifyGraspMaxRetries,  \* parameter verify_grasp_max_retries
  Commands,               \* the kinds of command the operators issue
  FaultLevels,            \* levels of the /robot/fault messages that arrive
  FaultTexts,             \* texts a /robot/fault message of one level can carry
  LateTracks,             \* may a ToolTrack be read after its mode was switched off?
  Flaky,                  \* endpoints whose calls can fail
  MaxCalls                \* bound: replies outstanding at the same time

None == "none"

State == {"IDLE", "MOVE_TO_WATCH", "DETECT_TRACK", "SERVO_PICK", "VERIFY_GRASP",
          "MOVE_SAFE", "APPROACH_HAND", "WAIT_PULL", "HOME", "MANUAL_MOVE",
          "CANCELLING"}
FaultLevel == {"PROTECTIVE_STOP", "FAULT", "EMERGENCY_STOP"}
Safety == FaultLevel \cup {"NORMAL", "RECOVERY_REQUIRED"}
Mode == {"MANUAL", "AUTO"}
Command == {"reset", "stop", "mode_switch", "move_named", "fetch_tool", "resume"}
Endpoint == {"set_mode", "recover", "robot_task"}

\* Where a manual move may go.  "pose" stands for front, up and down, which differ
\* only in the joint target.
NamedTarget == {"home", "watch", "pose"}

\* A RobotTask goal: its task_type, or its named_target when that is move_named.
Goal == NamedTarget \cup {"handover_safe", "servo_pick", "release_and_retry",
                          "handover_approach", "handover_hold"}

ASSUME ConstantsAssumption ==
  /\ None \notin Tools
  /\ ConfiguredTools \subseteq Tools
  /\ VerifyGraspMaxRetries \in Nat
  /\ Commands \subseteq Command
  /\ FaultLevels \subseteq FaultLevel
  /\ LateTracks \in BOOLEAN
  /\ Flaky \subseteq Endpoint
  /\ MaxCalls \in Nat

SafetyPriority ==
  [NORMAL |-> 0, RECOVERY_REQUIRED |-> 1, PROTECTIVE_STOP |-> 2, FAULT |-> 3,
   EMERGENCY_STOP |-> 4]

ContinueStates == {"MOVE_SAFE", "APPROACH_HAND", "WAIT_PULL"}
RetryPickStates == {"SERVO_PICK", "VERIFY_GRASP"}

(***************************************************************************)
(* The attributes of the node.                                             *)
(***************************************************************************)
ToolOrNone == Tools \cup {None}

\* An outstanding asynchronous call: the response to send_goal, the result of an
\* accepted goal, the response to set_mode (kept only when a callback waits for it)
\* and the response to recover.  what is the goal, or the state that waits.
Call == [kind : {"send_goal", "get_result", "set_mode", "recover"},
         what : Goal \cup State \cup {None},
         current : BOOLEAN,
         timed : BOOLEAN]

GoalKinds == {"send_goal", "get_result"}

\* The resume snapshot (_resume_kind, _resume_state, _resume_tool, _resume_grasp_spec).
Snapshot == [kind : {"continue", "retry_pick", None},
             state : State \cup {None},
             tool : ToolOrNone,
             spec : ToolOrNone]
NoSnapshot == [kind |-> None, state |-> None, tool |-> None, spec |-> None]

VisionRequest == [mode : {"TRACK_TOOL"}, tool : Tools]
                   \cup [mode : {"OFF", "TRACK_HAND"}, tool : {None}]

\* A grasp spec is read from the parameters of one tool, so it is named by that tool.
\* cancelPending is the callback a cancellation will run: nothing, back to IDLE, or
\* the mode to switch to.
TaskState ==
  [state : State, mode : Mode, safety : Safety,
   tool : ToolOrNone, spec : ToolOrNone, retries : Nat,
   resume : Snapshot,
   detectTimer : BOOLEAN, waitPullTimer : {"off", "timeout", "reminder"},
   goalInProgress : BOOLEAN, goalHandle : BOOLEAN, resultState : State \cup {None},
   cancelPending : {None, "noop", "idle"} \cup Mode, cancelTimer : BOOLEAN,
   recoveryInProgress : BOOLEAN,
   lastFault : (FaultLevel \X FaultTexts) \cup {<<>>},
   asked : VisionRequest,
   calls : SUBSET Call]

VARIABLES
  tm,       \* the attributes of the node
  up,       \* environment: the endpoints whose client calls succeed now
  tracks,   \* environment: tools for which a ToolTrack may still reach the node
  gripper   \* environment: "open", "tool" (a verified grasp) or "unsure"

vars == <<tm, up, tracks, gripper>>

InitialTask ==
  [state |-> "IDLE", mode |-> "MANUAL", safety |-> "NORMAL",
   tool |-> None, spec |-> None, retries |-> 0,
   resume |-> NoSnapshot,
   detectTimer |-> FALSE, waitPullTimer |-> "off",
   goalInProgress |-> FALSE, goalHandle |-> FALSE, resultState |-> None,
   cancelPending |-> None, cancelTimer |-> FALSE,
   recoveryInProgress |-> FALSE,
   lastFault |-> <<>>,
   asked |-> [mode |-> "OFF", tool |-> None],
   calls |-> {}]

Init ==
  /\ tm = InitialTask
  /\ up = Endpoint
  /\ tracks = {}
  /\ gripper = "open"

(***************************************************************************)
(* Calls and their generations.                                            *)
(***************************************************************************)
\* The counter of these kinds moves on: the calls already out belong to the past.
Retire(calls, kinds) == {[c EXCEPT !.current = @ /\ c.kind \notin kinds] : c \in calls}

\* The response timer of these kinds is cancelled.
Untime(calls, kinds) == {[c EXCEPT !.timed = @ /\ c.kind \notin kinds] : c \in calls}

NewCall(kind, what, timed) ==
  [kind |-> kind, what |-> what, current |-> TRUE, timed |-> timed]

\* The reply to c has arrived; its callback no longer waits.
Settle(s, c) == [s EXCEPT !.calls = @ \ {c}]

(***************************************************************************)
(* Helpers every callback shares.                                          *)
(***************************************************************************)
\* _set_vision_mode: every request, answered or not, starts a new vision generation.
SetVisionMode(s, mode, tool) ==
  [s EXCEPT !.calls = Retire(@, {"set_mode"}),
            !.asked = IF "set_mode" \in up THEN [mode |-> mode, tool |-> tool] ELSE @]

CancelAllTimers(s) == [s EXCEPT !.detectTimer = FALSE, !.waitPullTimer = "off"]

ClearResumeSnapshot(s) == [s EXCEPT !.resume = NoSnapshot]

\* _capture_resume_snapshot: what an interrupted task could be resumed from.
CaptureResumeSnapshot(s) ==
  [s EXCEPT !.resume =
     CASE s.state \in ContinueStates ->
            [kind |-> "continue", state |-> s.state, tool |-> s.tool, spec |-> s.spec]
       [] s.state \in RetryPickStates ->
            [kind |-> "retry_pick", state |-> s.state, tool |-> s.tool, spec |-> None]
       [] OTHER -> NoSnapshot]

\* _handle_action_future_exception: the action client raised, so nothing is known of
\* the goal.  The goal, the cancellation and the recovery are all given up.
ActionFutureException(s) ==
  SetVisionMode(
    [CaptureResumeSnapshot(s) EXCEPT
       !.goalInProgress = FALSE, !.goalHandle = FALSE, !.resultState = None,
       !.cancelTimer = FALSE, !.cancelPending = None,
       !.calls = Untime(Retire(@, GoalKinds \cup {"recover"}), {"recover"}),
       !.recoveryInProgress = FALSE,
       !.safety = "FAULT"],
    "OFF", None)

\* _send_robot_goal: ignored while another goal is in progress.
SendRobotGoal(s, goal) ==
  LET sent == [s EXCEPT !.goalInProgress = TRUE, !.resultState = s.state,
                        !.calls = Retire(@, GoalKinds)]
  IN  IF s.goalInProgress THEN s
      ELSE IF "robot_task" \notin up THEN ActionFutureException(sent)
      ELSE [sent EXCEPT !.calls = @ \cup {NewCall("send_goal", goal, FALSE)}]

\* Faulty variant, for the mutation runs: nobody times the robot's answer.
CallRecoverServiceUntimed(s) ==
  IF "recover" \notin up THEN [s EXCEPT !.recoveryInProgress = FALSE]
  ELSE [s EXCEPT !.calls = @ \cup {NewCall("recover", None, FALSE)}]

\* _call_recover_service, once _maybe_start_recovery has found the robot idle.
CallRecoverService(s) ==
  IF "recover" \notin up THEN [s EXCEPT !.recoveryInProgress = FALSE]
  ELSE [s EXCEPT !.calls = Untime(@, {"recover"}) \cup {NewCall("recover", None, TRUE)}]

\* _maybe_start_recovery
MaybeStartRecovery(s) ==
  IF ~s.recoveryInProgress \/ s.goalInProgress THEN s
  ELSE IF s.safety # "RECOVERY_REQUIRED" THEN [s EXCEPT !.recoveryInProgress = FALSE]
  ELSE CallRecoverService(s)

\* The callback of a confirmed cancellation, then the recovery that waited for it.
FinishCancel(s, callback) ==
  MaybeStartRecovery(
    CASE callback = "noop" -> s
      [] callback = "idle" -> [s EXCEPT !.state = "IDLE"]
      [] callback \in Mode -> [s EXCEPT !.mode = callback, !.state = "IDLE"])

\* Faulty variant, for the mutation runs: the timeout is armed only once there is a handle.
RequestCancelTimedByHandle(s, callback) ==
  LET quiet == CancelAllTimers(SetVisionMode(s, "OFF", None))
      asked == [quiet EXCEPT !.cancelPending = callback, !.cancelTimer = s.goalHandle]
  IN  IF ~s.goalInProgress THEN FinishCancel(quiet, callback)
      ELSE IF s.goalHandle /\ "robot_task" \notin up THEN ActionFutureException(asked)
      ELSE asked

\* _request_cancel: the callback runs now if the robot has no goal, otherwise when the
\* goal's last reply arrives.  The handle is missing until the goal is accepted.
RequestCancel(s, callback) ==
  LET quiet == CancelAllTimers(SetVisionMode(s, "OFF", None))
      asked == [quiet EXCEPT !.cancelPending = callback, !.cancelTimer = TRUE]
  IN  IF ~s.goalInProgress THEN FinishCancel(quiet, callback)
      ELSE IF s.goalHandle /\ "robot_task" \notin up THEN ActionFutureException(asked)
      ELSE asked

\* Faulty variant, for the mutation runs: late recovery answers stay welcome.
EnterFaultKeepsRecovery(s, level) ==
  RequestCancel([CaptureResumeSnapshot(s) EXCEPT !.recoveryInProgress = FALSE,
                                                 !.safety = level], "noop")

\* _enter_fault: the state is kept, the goal is cancelled, a pending recovery is void.
EnterFault(s, level) ==
  RequestCancel(
    [CaptureResumeSnapshot(s) EXCEPT
       !.recoveryInProgress = FALSE,
       !.calls = Untime(Retire(@, {"recover"}), {"recover", "set_mode"}),
       !.safety = level],
    "noop")

\* Faulty variant, for the mutation runs: nobody times vision_node's answer.
StartAfterVisionModeUntimed(s, mode, tool, expected) ==
  LET t == SetVisionMode(s, mode, tool)
  IN  IF "set_mode" \notin up THEN EnterFault(t, "FAULT")
      ELSE [t EXCEPT !.calls = @ \cup {NewCall("set_mode", expected, FALSE)}]

\* _start_after_vision_mode: the goal of this state waits for vision_node's answer.
StartAfterVisionMode(s, mode, tool, expected) ==
  LET t == SetVisionMode(s, mode, tool)
  IN  IF "set_mode" \notin up THEN EnterFault(t, "FAULT")
      ELSE [t EXCEPT !.calls = Untime(@, {"set_mode"})
                                 \cup {NewCall("set_mode", expected, TRUE)}]

(***************************************************************************)
(* The stages of a hand-over, entered by the flow or by a resume.          *)
(***************************************************************************)
EnterDetectTrack(s) == [s EXCEPT !.state = "DETECT_TRACK", !.detectTimer = TRUE]

EnterMoveSafe(s) == SendRobotGoal([s EXCEPT !.state = "MOVE_SAFE"], "handover_safe")

EnterApproachHand(s) ==
  StartAfterVisionMode([s EXCEPT !.state = "APPROACH_HAND"],
                       "TRACK_HAND", None, "APPROACH_HAND")

EnterWaitPull(s) ==
  SendRobotGoal([s EXCEPT !.state = "WAIT_PULL", !.waitPullTimer = "timeout"],
                "handover_hold")

\* Faulty variant, for the mutation runs: the budget is off by one.
RetryGraspOnceMore(s) ==
  LET t == [s EXCEPT !.retries = @ + 1]
  IN  IF t.retries > VerifyGraspMaxRetries + 1 THEN EnterFault(t, "FAULT")
      ELSE SendRobotGoal([t EXCEPT !.state = "VERIFY_GRASP"], "release_and_retry")

\* Verification failed or the grasp is in doubt: open and retry, unless that was the last.
RetryGrasp(s) ==
  LET t == [s EXCEPT !.retries = @ + 1]
  IN  IF t.retries > VerifyGraspMaxRetries THEN EnterFault(t, "FAULT")
      ELSE SendRobotGoal([t EXCEPT !.state = "VERIFY_GRASP"], "release_and_retry")

(***************************************************************************)
(* What a RobotTask result can say.  "grasped" is a result that passes     *)
(* _verify_grasp, "missed" one that does not; "lost" stands for the        *)
(* messages that send the task back to DETECT_TRACK.                       *)
(***************************************************************************)
Outcomes(goal) ==
  IF goal = "servo_pick" THEN {"grasped", "missed", "lost", "failed"} ELSE {"ok", "failed"}

\* Faulty variant, for the mutation runs: nobody watches the clock after a lost target.
HandleServoPickResultUntimed(s, outcome) ==
  CASE outcome = "lost" -> [s EXCEPT !.state = "DETECT_TRACK"]
    [] outcome = "failed" -> EnterFault(s, "FAULT")
    [] outcome = "grasped" /\ s.spec # None -> EnterMoveSafe(s)
    [] OTHER -> RetryGrasp([s EXCEPT !.state = "VERIFY_GRASP"])

\* Faulty variant, for the mutation runs: a successful motion is taken for a grasp.
HandleServoPickResultUnverified(s, outcome) ==
  CASE outcome = "lost" -> EnterDetectTrack(s)
    [] outcome = "failed" -> EnterFault(s, "FAULT")
    [] OTHER -> EnterMoveSafe(s)

\* Faulty variant, for the mutation runs: tracking ends with the pick, even when it retries.
HandleServoPickResultBlind(s, outcome) ==
  LET t == SetVisionMode(s, "OFF", None)
  IN  CASE outcome = "lost" -> EnterDetectTrack(t)
        [] outcome = "failed" -> EnterFault(t, "FAULT")
        [] outcome = "grasped" /\ t.spec # None -> EnterMoveSafe(t)
        [] OTHER -> RetryGrasp([t EXCEPT !.state = "VERIFY_GRASP"])

\* _handle_servo_pick_result
HandleServoPickResult(s, outcome) ==
  CASE outcome = "lost" -> EnterDetectTrack(s)
    [] outcome = "failed" -> EnterFault(s, "FAULT")
    [] outcome = "grasped" /\ s.spec # None -> EnterMoveSafe(s)
    [] OTHER -> RetryGrasp([s EXCEPT !.state = "VERIFY_GRASP"])

\* _handle_wait_pull_result
HandleWaitPullResult(s, outcome) ==
  LET t == [s EXCEPT !.waitPullTimer = "off"]
  IN  IF outcome # "ok" THEN EnterFault(t, "FAULT")
      ELSE SendRobotGoal(SetVisionMode([t EXCEPT !.state = "HOME"], "OFF", None), "home")

\* _handle_home_result
FinishTask(s) == [s EXCEPT !.tool = None, !.spec = None, !.resume = NoSnapshot,
                           !.state = "IDLE"]

\* The handler table of _on_robot_result, by the state that sent the goal.
HandleResult(s, sender, outcome) ==
  CASE sender = "SERVO_PICK" -> HandleServoPickResult(s, outcome)
    [] sender = "WAIT_PULL" -> HandleWaitPullResult(s, outcome)
    [] sender \notin {"SERVO_PICK", "WAIT_PULL"} /\ outcome # "ok" -> EnterFault(s, "FAULT")
    [] sender \in {"MOVE_TO_WATCH", "VERIFY_GRASP"} /\ outcome = "ok" -> EnterDetectTrack(s)
    [] sender = "MOVE_SAFE" /\ outcome = "ok" -> EnterApproachHand(s)
    [] sender = "APPROACH_HAND" /\ outcome = "ok" -> EnterWaitPull(s)
    [] sender = "HOME" /\ outcome = "ok" -> FinishTask(s)
    [] sender = "MANUAL_MOVE" /\ outcome = "ok" -> [s EXCEPT !.state = "IDLE"]
    [] OTHER -> EnterFault(s, "FAULT")

(***************************************************************************)
(* A callback leaves the node with the attributes s.                       *)
(***************************************************************************)
Becomes(s) ==
  /\ Cardinality(s.calls) <= MaxCalls
  /\ tm' = s
  /\ tracks' = IF s.asked.mode = "TRACK_TOOL" THEN tracks \cup {s.asked.tool} ELSE tracks
  /\ UNCHANGED up

(***************************************************************************)
(* Operator commands (_on_user_command).  Refused commands only report.    *)
(***************************************************************************)
Commanded(kind) == kind \in Commands /\ (kind = "reset" \/ tm.safety = "NORMAL")

\* _handle_reset while NORMAL: drop the task and the snapshot.
ResetTask ==
  /\ Commanded("reset")
  /\ tm.safety = "NORMAL"
  /\ tm.state # "IDLE" \/ tm.resume # NoSnapshot
  /\ LET s == ClearResumeSnapshot(tm)
     IN  Becomes(IF tm.state = "IDLE" \/ tm.cancelPending # None THEN s
                 ELSE RequestCancel([s EXCEPT !.state = "CANCELLING"], "idle"))
  /\ UNCHANGED gripper

\* _handle_reset otherwise: recovery is asked for once the robot's goal is gone.
ResetSafety ==
  /\ Commanded("reset")
  /\ tm.safety # "NORMAL"
  /\ ~tm.recoveryInProgress
  /\ LET s == [tm EXCEPT !.safety = "RECOVERY_REQUIRED", !.recoveryInProgress = TRUE]
     IN  Becomes(IF tm.cancelPending # None THEN s ELSE RequestCancel(s, "noop"))
  /\ UNCHANGED gripper

\* _handle_mode_switch
ModeSwitch(mode) ==
  /\ Commanded("mode_switch")
  /\ \/ /\ tm.state = "IDLE" /\ ~tm.goalInProgress
        /\ Becomes(SetVisionMode([tm EXCEPT !.mode = mode], "OFF", None))
     \/ /\ tm.state # "IDLE" \/ tm.goalInProgress
        /\ tm.cancelPending = None
        /\ Becomes(RequestCancel([tm EXCEPT !.state = "CANCELLING"], mode))
  /\ UNCHANGED gripper

\* _handle_stop: a pause, so the snapshot is taken before the state changes.
Stop ==
  /\ Commanded("stop")
  /\ tm.cancelPending = None
  /\ Becomes(RequestCancel([CaptureResumeSnapshot(tm) EXCEPT !.state = "CANCELLING"], "idle"))
  /\ UNCHANGED gripper

\* Faulty variant, for the mutation runs: a manual move does not wait for the running goal.
ManualMoveAnytime(target) ==
  /\ Commanded("move_named")
  /\ tm.mode = "MANUAL"
  /\ Becomes(SendRobotGoal([tm EXCEPT !.state = "MANUAL_MOVE"], target))
  /\ UNCHANGED gripper

\* _handle_manual_move
ManualMove(target) ==
  /\ Commanded("move_named")
  /\ tm.mode = "MANUAL"
  /\ ~tm.goalInProgress
  /\ Becomes(SendRobotGoal([tm EXCEPT !.state = "MANUAL_MOVE"], target))
  /\ UNCHANGED gripper

\* _handle_fetch_tool
FetchTool(tool) ==
  /\ Commanded("fetch_tool")
  /\ tm.state = "IDLE"
  /\ Becomes(StartAfterVisionMode(
       [tm EXCEPT !.tool = tool, !.spec = None, !.retries = 0, !.state = "MOVE_TO_WATCH"],
       "TRACK_TOOL", tool, "MOVE_TO_WATCH"))
  /\ UNCHANGED gripper

\* _handle_resume: once, from the snapshot.
ResumeFrom(s, snapshot) ==
  LET t == [ClearResumeSnapshot(s) EXCEPT !.tool = snapshot.tool]
      c == [t EXCEPT !.spec = snapshot.spec]
  IN  CASE snapshot.kind = "continue" /\ snapshot.state = "MOVE_SAFE" -> EnterMoveSafe(c)
        [] snapshot.kind = "continue" /\ snapshot.state = "APPROACH_HAND" ->
             EnterApproachHand(c)
        [] snapshot.kind = "continue" /\ snapshot.state = "WAIT_PULL" -> EnterWaitPull(c)
        [] OTHER -> RetryGrasp(IF t.retries + 1 > VerifyGraspMaxRetries
                               THEN [t EXCEPT !.tool = None] ELSE t)

Resume ==
  /\ Commanded("resume")
  /\ tm.state = "IDLE"
  /\ tm.resume.kind # None
  /\ Becomes(ResumeFrom(tm, tm.resume))
  /\ UNCHANGED gripper

(***************************************************************************)
(* Subscriptions.                                                          *)
(***************************************************************************)
\* _on_fault: never to a lower level, and a repeated text of the same level is skipped.
OnFault(level, text) ==
  /\ SafetyPriority[level] >= SafetyPriority[tm.safety]
  /\ level = tm.safety => tm.lastFault # <<level, text>>
  /\ Becomes(EnterFault([tm EXCEPT !.lastFault = <<level, text>>], level))
  /\ UNCHANGED gripper

\* _on_tool_track, for a message that passes _check_trigger: it shows the asked-for tool.
OnToolTrack(tool) ==
  /\ tm.state = "DETECT_TRACK"
  /\ tool \in tracks
  /\ LateTracks \/ tm.asked = [mode |-> "TRACK_TOOL", tool |-> tool]
  /\ tool = tm.tool
  /\ LET s == [tm EXCEPT !.detectTimer = FALSE]
     IN  Becomes(IF tool \notin ConfiguredTools
                 THEN [SetVisionMode([s EXCEPT !.spec = None], "OFF", None) EXCEPT
                         !.tool = None, !.state = "IDLE"]
                 ELSE SendRobotGoal([s EXCEPT !.spec = tool, !.state = "SERVO_PICK"],
                                    "servo_pick"))
  /\ UNCHANGED gripper

(***************************************************************************)
(* Replies.                                                                *)
(***************************************************************************)
Waiting(kind) == {c \in tm.calls : c.kind = kind}

\* Faulty variant, for the mutation runs: a rejection forgets the cancellation that waits.
GoalRejectedWhileCancelling(s) ==
  EnterFault([s EXCEPT !.goalInProgress = FALSE, !.goalHandle = FALSE,
                       !.resultState = None], "FAULT")

\* _on_goal_response.  The robot may reject; an accepted goal that a cancellation waits
\* for is cancelled at once.
GoalRejected(s) ==
  LET t == [s EXCEPT !.goalInProgress = FALSE, !.goalHandle = FALSE, !.resultState = None]
  IN  IF s.cancelPending # None
      THEN FinishCancel([t EXCEPT !.cancelTimer = FALSE, !.cancelPending = None],
                        s.cancelPending)
      ELSE EnterFault(t, "FAULT")

GoalAccepted(s, goal) ==
  LET t == [s EXCEPT !.goalHandle = TRUE]
  IN  IF "robot_task" \notin up THEN ActionFutureException(t)
      ELSE [t EXCEPT !.calls = @ \cup {NewCall("get_result", goal, FALSE)}]

OnGoalResponse(c, accepted) ==
  /\ LET s == Settle(tm, c)
     IN  Becomes(IF ~c.current THEN s
                 ELSE IF accepted THEN GoalAccepted(s, c.what) ELSE GoalRejected(s))
  /\ UNCHANGED gripper

\* _on_robot_result.  With a cancellation pending the outcome does not matter.
RobotResult(s, outcome) ==
  LET t == [s EXCEPT !.goalInProgress = FALSE, !.goalHandle = FALSE, !.resultState = None]
  IN  IF s.cancelPending # None
      THEN FinishCancel([t EXCEPT !.cancelTimer = FALSE, !.cancelPending = None],
                        s.cancelPending)
      ELSE HandleResult(t, IF s.resultState = None THEN s.state ELSE s.resultState, outcome)

\* What a finished goal has done to the gripper: home and watch open it first,
\* release_and_retry and a felt pull open it, only servo_pick closes it.
GripperAfter(goal, outcome, g) ==
  CASE goal = "servo_pick" ->
         IF outcome = "grasped" THEN {"tool"}
         ELSE IF outcome = "missed" THEN {"unsure"} ELSE {g, "unsure"}
    [] goal \in {"home", "watch", "release_and_retry", "handover_hold"} ->
         IF outcome = "ok" THEN {"open"} ELSE {g, "open"}
    [] OTHER -> {g}

\* Faulty variant, for the mutation runs: the result of a replaced goal counts.
OnRobotResultOfAnyGoal(c, outcome) ==
  /\ outcome \in Outcomes(c.what)
  /\ Becomes(RobotResult(Settle(tm, c), outcome))
  /\ gripper' \in GripperAfter(c.what, outcome, gripper)

OnRobotResult(c, outcome) ==
  /\ outcome \in Outcomes(c.what)
  /\ LET s == Settle(tm, c)
     IN  Becomes(IF c.current THEN RobotResult(s, outcome) ELSE s)
  /\ gripper' \in GripperAfter(c.what, outcome, gripper)

\* A future of the action client that raises instead of answering.
OnActionFutureException(c) ==
  /\ "robot_task" \in Flaky
  /\ LET s == Settle(tm, c)
     IN  Becomes(IF c.current THEN ActionFutureException(s) ELSE s)
  /\ gripper' \in IF c.kind = "send_goal" THEN {gripper}
                  ELSE GripperAfter(c.what, "failed", gripper)

\* Faulty variant, for the mutation runs: the answer moves the robot whatever the state is now.
VisionAnsweredInAnyState(s, c, success) ==
  IF ~c.current THEN s
  ELSE IF ~success THEN EnterFault(s, "FAULT")
  ELSE SendRobotGoal(s, IF c.what = "MOVE_TO_WATCH" THEN "watch" ELSE "handover_approach")

\* _on_vision_mode_response: acts only for the newest request and the state that made it.
VisionAnswered(s, c, success) ==
  IF ~c.current \/ s.state # c.what THEN s
  ELSE IF ~success THEN EnterFault(s, "FAULT")
  ELSE SendRobotGoal(s, IF c.what = "MOVE_TO_WATCH" THEN "watch" ELSE "handover_approach")

OnVisionModeResponse(c, success) ==
  /\ Becomes(VisionAnswered(Settle(tm, c), c, success))
  /\ UNCHANGED gripper

\* _on_recover_response
RecoverAnswered(s, success) ==
  LET t == [s EXCEPT !.recoveryInProgress = FALSE]
  IN  IF s.safety # "RECOVERY_REQUIRED" \/ ~success THEN t
      ELSE [SetVisionMode(CancelAllTimers([t EXCEPT !.safety = "NORMAL", !.mode = "MANUAL",
                                             !.tool = None, !.spec = None, !.retries = 0]),
                          "OFF", None) EXCEPT !.state = "IDLE"]

\* Faulty variant, for the mutation runs: an answer counts whichever request it is for.
OnRecoverResponseOfAnyRequest(c, success) ==
  /\ Becomes(RecoverAnswered(Settle(tm, c), success))
  /\ UNCHANGED gripper

OnRecoverResponse(c, success) ==
  /\ LET s == Settle(tm, c)
     IN  Becomes(IF c.current THEN RecoverAnswered(s, success) ELSE s)
  /\ UNCHANGED gripper

(***************************************************************************)
(* Timers.                                                                 *)
(***************************************************************************)
\* _on_cancel_timeout: the late result may still free the goal, but moves nothing on.
OnCancelTimeout ==
  /\ tm.cancelTimer
  /\ LET s == [tm EXCEPT !.cancelTimer = FALSE]
     IN  Becomes(IF tm.cancelPending = None THEN s
                 ELSE [s EXCEPT !.cancelPending = "noop",
                                !.calls = Retire(@, {"recover"}),
                                !.recoveryInProgress = FALSE,
                                !.safety = "FAULT"])
  /\ UNCHANGED gripper

\* _on_detect_track_timeout
OnDetectTrackTimeout ==
  /\ tm.detectTimer
  /\ LET s == [tm EXCEPT !.detectTimer = FALSE]
     IN  Becomes(IF tm.state # "DETECT_TRACK" THEN s
                 ELSE [SetVisionMode(s, "OFF", None) EXCEPT
                         !.tool = None, !.spec = None, !.state = "IDLE"])
  /\ UNCHANGED gripper

\* _on_wait_pull_timeout and _on_wait_pull_reminder: they only remind the operator.
OnWaitPullTimer ==
  /\ tm.waitPullTimer # "off"
  /\ Becomes([tm EXCEPT !.waitPullTimer =
                          IF tm.state = "WAIT_PULL" THEN "reminder" ELSE "off"])
  /\ UNCHANGED gripper

\* _on_vision_mode_timeout
OnVisionModeTimeout(c) ==
  /\ c.timed /\ c.current
  /\ Becomes(EnterFault([tm EXCEPT !.calls = Untime(Retire(@, {"set_mode"}), {"set_mode"})],
                        "FAULT"))
  /\ UNCHANGED gripper

\* _on_recovery_timeout: RECOVERY_REQUIRED stays, and reset may be asked for again.
OnRecoveryTimeout(c) ==
  /\ c.timed /\ c.current
  /\ LET s == [tm EXCEPT !.calls = Untime(@, {"recover"})]
     IN  Becomes(IF ~tm.recoveryInProgress THEN s
                 ELSE [s EXCEPT !.calls = Retire(@, {"recover"}),
                                !.recoveryInProgress = FALSE])
  /\ UNCHANGED gripper

(***************************************************************************)
(* The environment.                                                        *)
(***************************************************************************)
\* Endpoints come and go.
EndpointsChange ==
  /\ \E down \in SUBSET Flaky : up' = Endpoint \ down
  /\ up' # up
  /\ UNCHANGED <<tm, tracks, gripper>>

\* vision_node has stopped tracking the tool and its last message has been read.
TracksDrain(tool) ==
  /\ tool \in tracks
  /\ tm.asked # [mode |-> "TRACK_TOOL", tool |-> tool]
  /\ tracks' = tracks \ {tool}
  /\ UNCHANGED <<tm, up, gripper>>

Commanding ==
  \/ ResetTask \/ ResetSafety \/ Stop \/ Resume
  \/ \E mode \in Mode : ModeSwitch(mode)
  \/ \E target \in NamedTarget : ManualMove(target)
  \/ \E tool \in Tools : FetchTool(tool)

Replying ==
  \/ \E c \in Waiting("send_goal"), accepted \in BOOLEAN : OnGoalResponse(c, accepted)
  \/ \E c \in Waiting("get_result") :
       \E outcome \in Outcomes(c.what) : OnRobotResult(c, outcome)
  \/ \E c \in Waiting("send_goal") \cup Waiting("get_result") : OnActionFutureException(c)
  \/ \E c \in Waiting("set_mode"), success \in BOOLEAN : OnVisionModeResponse(c, success)
  \/ \E c \in Waiting("recover"), success \in BOOLEAN : OnRecoverResponse(c, success)

TimersFiring ==
  \/ OnCancelTimeout \/ OnDetectTrackTimeout \/ OnWaitPullTimer
  \/ \E c \in Waiting("set_mode") : OnVisionModeTimeout(c)
  \/ \E c \in Waiting("recover") : OnRecoveryTimeout(c)

Next ==
  \/ Commanding \/ Replying \/ TimersFiring \/ EndpointsChange
  \/ \E level \in FaultLevels, text \in FaultTexts : OnFault(level, text)
  \/ \E tool \in Tools : OnToolTrack(tool)
  \/ \E tool \in Tools : TracksDrain(tool)

Spec == Init /\ [][Next]_vars

(***************************************************************************)
(* Properties.  A reply is current when its generation is.                 *)
(***************************************************************************)
Current(calls, kinds) == {c \in calls : c.kind \in kinds /\ c.current}

\* The attributes, and what the environment may still deliver, keep their types.
TypeOK ==
  /\ tm \in TaskState
  /\ up \in SUBSET Endpoint
  /\ tracks \in SUBSET Tools
  /\ gripper \in {"open", "tool", "unsure"}

(***************************************************************************)
(* Goal bookkeeping.  _goal_in_progress is up exactly while one reply of   *)
(* the newest goal is still to come, so the flag can neither stay up for   *)
(* ever nor let a second goal out; the handle is there exactly once that   *)
(* goal was accepted; and the state that sent it is remembered as long.    *)
(***************************************************************************)
GoalTracked ==
  /\ tm.goalInProgress <=> Current(tm.calls, GoalKinds) # {}
  /\ \A c, d \in Current(tm.calls, GoalKinds) : c = d
  /\ tm.goalHandle <=> Current(tm.calls, {"get_result"}) # {}
  /\ tm.resultState # None <=> tm.goalInProgress

(***************************************************************************)
(* Cancellation bookkeeping.  A pending cancellation has a goal whose last *)
(* reply will run it, the cancel timer never outlives it, and while the    *)
(* level is NORMAL the timer guards it and it leads somewhere.             *)
(***************************************************************************)
CancelTracked ==
  /\ tm.cancelPending # None => tm.goalInProgress
  /\ tm.cancelTimer => tm.cancelPending # None
  /\ tm.cancelPending # None /\ tm.safety = "NORMAL" =>
       tm.cancelTimer /\ tm.cancelPending # "noop"

(***************************************************************************)
(* Recovery bookkeeping.  An answer of /robot/recover that still counts    *)
(* belongs to the one recovery in progress, at RECOVERY_REQUIRED, with its *)
(* timer running and nothing being cancelled; and a recovery in progress   *)
(* has either such a call out or a cancellation to wait for.  A late       *)
(* answer never completes a later                                          *)
(* recovery (_recovery_generation).                                        *)
(***************************************************************************)
RecoveryTracked ==
  /\ \A c \in Current(tm.calls, {"recover"}) :
       /\ tm.recoveryInProgress /\ tm.safety = "RECOVERY_REQUIRED"
       /\ c.timed /\ tm.cancelPending = None
  /\ \A c, d \in Current(tm.calls, {"recover"}) : c = d
  /\ tm.recoveryInProgress =>
       /\ tm.safety = "RECOVERY_REQUIRED"
       /\ Current(tm.calls, {"recover"}) # {} \/ tm.cancelPending # None

(***************************************************************************)
(* The gripper is opened and the pick retried at most                      *)
(* VerifyGraspMaxRetries times for one fetch, the resumes of that fetch    *)
(* included; the attempt after the last is a stop that asks for a person,  *)
(* with no goal that is not being cancelled.                               *)
(***************************************************************************)
RetryBudget ==
  tm.retries > VerifyGraspMaxRetries =>
    /\ tm.retries = VerifyGraspMaxRetries + 1
    /\ tm.safety # "NORMAL"
    /\ tm.state \in {"VERIFY_GRASP", "IDLE"}
    /\ tm.goalInProgress => tm.cancelPending # None

(***************************************************************************)
(* No task is forgotten: at NORMAL and away from IDLE, there is a goal     *)
(* whose reply will come, or a timer that will end the wait for a track or *)
(* for vision_node's answer.                                               *)
(***************************************************************************)
NormalTaskIsWatched ==
  tm.safety = "NORMAL" /\ tm.state # "IDLE" =>
    \/ tm.goalInProgress
    \/ tm.state = "DETECT_TRACK" /\ tm.detectTimer
    \/ \E c \in Current(tm.calls, {"set_mode"}) : c.what = tm.state /\ c.timed

(***************************************************************************)
(* IDLE at NORMAL is rest: no goal is running or on its way, whatever      *)
(* reply, command or timer led there.                                      *)
(***************************************************************************)
IdleMeansStill == tm.state = "IDLE" /\ tm.safety = "NORMAL" => ~tm.goalInProgress

(***************************************************************************)
(* At NORMAL the state an operator sees is the state of the running goal:  *)
(* the result will be handled for the state that sent it.                  *)
(***************************************************************************)
GoalMatchesState ==
  tm.safety = "NORMAL" /\ tm.goalInProgress =>
    tm.resultState = tm.state \/ tm.state = "CANCELLING"

(***************************************************************************)
(* The stages that carry the tool to the person and hold it there run with *)
(* a verified grasp: the gripper holds the tool and the task knows which.  *)
(***************************************************************************)
GraspBacksHandover ==
  tm.safety = "NORMAL" /\ tm.state \in ContinueStates =>
    gripper = "tool" /\ tm.tool # None

(***************************************************************************)
(* The camera looks for what the task waits for: the asked-for tool while  *)
(* DETECT_TRACK, the hand while handover_approach runs; and the widths the *)
(* grasp is verified against are those of that tool.  A request or a spec  *)
(* of an earlier stage or task never takes that away.                      *)
(***************************************************************************)
VisionServesTask ==
  tm.safety = "NORMAL" =>
    /\ tm.state = "DETECT_TRACK" => tm.asked = [mode |-> "TRACK_TOOL", tool |-> tm.tool]
    /\ tm.state = "APPROACH_HAND" /\ tm.goalInProgress => tm.asked.mode = "TRACK_HAND"
    /\ tm.spec # None => tm.spec = tm.tool

(***************************************************************************)
(* The safety level is only ever raised, except by the reset procedure     *)
(* (RECOVERY_REQUIRED, then NORMAL).  docs: "always raised only, never     *)
(* silently relaxed".                                                      *)
(***************************************************************************)
SafetyNeverRelaxed ==
  [][\/ SafetyPriority[tm'.safety] >= SafetyPriority[tm.safety]
     \/ tm'.safety \in {"RECOVERY_REQUIRED", "NORMAL"}]_tm

(***************************************************************************)
(* task_manager implements the supervisor: the robot's goal is the goal in *)
(* progress, and a recovery waits until its call is out.                   *)
(***************************************************************************)
Supervisor == INSTANCE GoalSupervisor WITH
  goal <- IF ~tm.goalInProgress THEN "none" ELSE IF tm.goalHandle THEN "running" ELSE "sent",
  cancelling <- tm.cancelPending # None,
  level <- tm.safety,
  recovery <- IF ~tm.recoveryInProgress THEN "no"
              ELSE IF Current(tm.calls, {"recover"}) # {} THEN "calling" ELSE "waiting"

Supervised == Supervisor!Spec

=============================================================================

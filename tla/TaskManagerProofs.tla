------------------------- MODULE TaskManagerProofs -------------------------
(***************************************************************************)
(* The attributes of task_manager keep their types and its bookkeeping is  *)
(* right for every set of tools, every retry budget and every set of       *)
(* failing endpoints: GoalTracked, CancelTracked, RecoveryTracked,         *)
(* RetryBudget and NormalTaskIsWatched are invariants, together inductive. *)
(***************************************************************************)
EXTENDS TaskManager, TLAPS

(***************************************************************************)
(* A method of the node takes attributes to attributes.                    *)
(***************************************************************************)
LEMMA RetireType ==
  ASSUME NEW calls \in SUBSET Call, NEW kinds
  PROVE  Retire(calls, kinds) \in SUBSET Call
BY DEF Retire, Call

LEMMA UntimeType ==
  ASSUME NEW calls \in SUBSET Call, NEW kinds
  PROVE  Untime(calls, kinds) \in SUBSET Call
BY DEF Untime, Call

LEMMA NewCallType ==
  ASSUME NEW kind \in {"send_goal", "get_result", "set_mode", "recover"},
         NEW what \in Goal \cup State \cup {None}, NEW timed \in BOOLEAN
  PROVE  NewCall(kind, what, timed) \in Call
BY DEF NewCall, Call

LEMMA SetVisionModeType ==
  ASSUME NEW s \in TaskState, NEW mode, NEW tool,
         [mode |-> mode, tool |-> tool] \in VisionRequest
  PROVE  SetVisionMode(s, mode, tool) \in TaskState
<1> DEFINE asked == IF "set_mode" \in up THEN [mode |-> mode, tool |-> tool] ELSE s.asked
           calls == Retire(s.calls, {"set_mode"})
<1>1. calls \in SUBSET Call
  BY RetireType DEF TaskState
<1>2. asked \in VisionRequest
  BY DEF TaskState
<1> HIDE DEF asked, calls
<1>3. [s EXCEPT !.calls = calls, !.asked = asked] \in TaskState
  BY <1>1, <1>2 DEF TaskState
<1>. QED
  BY <1>3 DEF SetVisionMode, asked, calls

LEMMA RequestTypes ==
  /\ [mode |-> "OFF", tool |-> None] \in VisionRequest
  /\ [mode |-> "TRACK_HAND", tool |-> None] \in VisionRequest
  /\ \A tool \in Tools : [mode |-> "TRACK_TOOL", tool |-> tool] \in VisionRequest
BY DEF VisionRequest

LEMMA SnapshotTypes == NoSnapshot \in Snapshot /\ None \in ToolOrNone
BY DEF NoSnapshot, Snapshot, ToolOrNone

LEMMA CaptureType ==
  ASSUME NEW s \in TaskState
  PROVE  CaptureResumeSnapshot(s) \in TaskState
BY DEF CaptureResumeSnapshot, TaskState, Snapshot, NoSnapshot, ToolOrNone, State

LEMMA CancelTimersType ==
  ASSUME NEW s \in TaskState
  PROVE  CancelAllTimers(s) \in TaskState
BY DEF CancelAllTimers, TaskState

LEMMA ExceptionType ==
  ASSUME NEW s \in TaskState
  PROVE  ActionFutureException(s) \in TaskState
<1> DEFINE r == CaptureResumeSnapshot(s)
           t == [r EXCEPT
       !.goalInProgress = FALSE, !.goalHandle = FALSE, !.resultState = None,
       !.cancelTimer = FALSE, !.cancelPending = None,
       !.calls = Untime(Retire(@, GoalKinds \cup {"recover"}), {"recover"}),
       !.recoveryInProgress = FALSE,
       !.safety = "FAULT"]
<1>1. r \in TaskState
  BY CaptureType
<1>2. Untime(Retire(r.calls, GoalKinds \cup {"recover"}), {"recover"}) \in SUBSET Call
  BY <1>1, RetireType, UntimeType DEF TaskState
<1>3. t \in TaskState
  BY ZenonT(60), <1>1, <1>2 DEF TaskState, Safety, FaultLevel
<1>. QED
  BY <1>3, SetVisionModeType, RequestTypes DEF ActionFutureException

LEMMA SendType ==
  ASSUME NEW s \in TaskState, NEW goal \in Goal
  PROVE  SendRobotGoal(s, goal) \in TaskState
<1> DEFINE sent == [s EXCEPT !.goalInProgress = TRUE, !.resultState = s.state,
                             !.calls = Retire(@, GoalKinds)]
<1>1. Retire(s.calls, GoalKinds) \in SUBSET Call
  BY RetireType DEF TaskState
<1>2. sent \in TaskState
  BY <1>1 DEF TaskState
<1>3. NewCall("send_goal", goal, FALSE) \in Call
  BY NewCallType
<1>4. [sent EXCEPT !.calls = @ \cup {NewCall("send_goal", goal, FALSE)}] \in TaskState
  BY ZenonT(60), <1>2, <1>3 DEF TaskState
<1>. QED
  BY <1>2, <1>4, ExceptionType DEF SendRobotGoal

LEMMA MaybeRecoverType ==
  ASSUME NEW s \in TaskState
  PROVE  MaybeStartRecovery(s) \in TaskState
<1>1. Untime(s.calls, {"recover"}) \cup {NewCall("recover", None, TRUE)} \in SUBSET Call
  BY UntimeType, NewCallType DEF TaskState
<1>2. [s EXCEPT !.recoveryInProgress = FALSE] \in TaskState
  BY DEF TaskState
<1>3. [s EXCEPT !.calls = Untime(@, {"recover"}) \cup {NewCall("recover", None, TRUE)}]
        \in TaskState
  BY <1>1 DEF TaskState
<1>. QED
  BY <1>2, <1>3 DEF MaybeStartRecovery, CallRecoverService

LEMMA FinishCancelType ==
  ASSUME NEW s \in TaskState, NEW callback \in {"noop", "idle"} \cup Mode
  PROVE  FinishCancel(s, callback) \in TaskState
<1>1. [s EXCEPT !.state = "IDLE"] \in TaskState
  BY DEF TaskState, State
<1>2. callback \in Mode => [s EXCEPT !.mode = callback, !.state = "IDLE"] \in TaskState
  BY DEF TaskState, State
<1>. QED
  BY <1>1, <1>2, MaybeRecoverType DEF FinishCancel, Mode

LEMMA RequestCancelType ==
  ASSUME NEW s \in TaskState, NEW callback \in {"noop", "idle"} \cup Mode
  PROVE  RequestCancel(s, callback) \in TaskState
<1> DEFINE quiet == CancelAllTimers(SetVisionMode(s, "OFF", None))
           asked == [quiet EXCEPT !.cancelPending = callback, !.cancelTimer = TRUE]
<1>1. quiet \in TaskState
  BY SetVisionModeType, RequestTypes, CancelTimersType
<1>2. asked \in TaskState
  BY <1>1 DEF TaskState
<1>. QED
  BY <1>1, <1>2, FinishCancelType, ExceptionType DEF RequestCancel

LEMMA EnterFaultType ==
  ASSUME NEW s \in TaskState, NEW level \in FaultLevel
  PROVE  EnterFault(s, level) \in TaskState
<1> DEFINE r == CaptureResumeSnapshot(s)
           t == [r EXCEPT
       !.recoveryInProgress = FALSE,
       !.calls = Untime(Retire(@, {"recover"}), {"recover", "set_mode"}),
       !.safety = level]
<1>1. r \in TaskState
  BY CaptureType
<1>2. Untime(Retire(r.calls, {"recover"}), {"recover", "set_mode"}) \in SUBSET Call
  BY <1>1, RetireType, UntimeType DEF TaskState
<1>3. t \in TaskState
  BY ZenonT(60), <1>1, <1>2 DEF TaskState, Safety
<1>. QED
  BY <1>3, RequestCancelType DEF EnterFault

LEMMA StartAfterVisionModeType ==
  ASSUME NEW s \in TaskState, NEW mode, NEW tool, NEW expected \in State,
         [mode |-> mode, tool |-> tool] \in VisionRequest
  PROVE  StartAfterVisionMode(s, mode, tool, expected) \in TaskState
<1> DEFINE t == SetVisionMode(s, mode, tool)
<1>1. t \in TaskState
  BY SetVisionModeType
<1>2. Untime(t.calls, {"set_mode"}) \cup {NewCall("set_mode", expected, TRUE)} \in SUBSET Call
  BY <1>1, UntimeType, NewCallType DEF TaskState
<1>3. [t EXCEPT !.calls = Untime(@, {"set_mode"})
                            \cup {NewCall("set_mode", expected, TRUE)}] \in TaskState
  BY <1>1, <1>2 DEF TaskState
<1>. QED
  BY <1>1, <1>3, EnterFaultType DEF StartAfterVisionMode, FaultLevel

\* The stages a result or a resume can enter.
LEMMA StageType ==
  ASSUME NEW s \in TaskState
  PROVE  /\ EnterDetectTrack(s) \in TaskState
         /\ EnterMoveSafe(s) \in TaskState
         /\ EnterApproachHand(s) \in TaskState
         /\ EnterWaitPull(s) \in TaskState
         /\ RetryGrasp(s) \in TaskState
<1>1. EnterDetectTrack(s) \in TaskState
  BY DEF EnterDetectTrack, TaskState, State
<1>2. ASSUME NEW state \in State PROVE [s EXCEPT !.state = state] \in TaskState
  BY DEF TaskState
<1>3. EnterMoveSafe(s) \in TaskState
  BY <1>2, SendType DEF EnterMoveSafe, State, Goal
<1>4. EnterApproachHand(s) \in TaskState
  BY <1>2, StartAfterVisionModeType, RequestTypes DEF EnterApproachHand, State
<1>5. EnterWaitPull(s) \in TaskState
  <2>1. [s EXCEPT !.state = "WAIT_PULL", !.waitPullTimer = "timeout"] \in TaskState
    BY DEF TaskState, State
  <2>. QED
    BY <2>1, SendType DEF EnterWaitPull, Goal
<1>6. RetryGrasp(s) \in TaskState
  <2> DEFINE t == [s EXCEPT !.retries = @ + 1]
  <2>1. t \in TaskState
    BY DEF TaskState
  <2>2. [t EXCEPT !.state = "VERIFY_GRASP"] \in TaskState
    BY ZenonT(60), <2>1 DEF TaskState, State
  <2>. QED
    BY <2>1, <2>2, SendType, EnterFaultType DEF RetryGrasp, Goal, FaultLevel
<1>. QED
  BY <1>1, <1>3, <1>4, <1>5, <1>6

LEMMA HandleResultType ==
  ASSUME NEW s \in TaskState, NEW sender \in State, NEW outcome
  PROVE  HandleResult(s, sender, outcome) \in TaskState
<1>1. HandleServoPickResult(s, outcome) \in TaskState
  <2>1. [s EXCEPT !.state = "VERIFY_GRASP"] \in TaskState
    BY DEF TaskState, State
  <2>. QED
    BY <2>1, StageType, EnterFaultType DEF HandleServoPickResult, FaultLevel
<1>2. HandleWaitPullResult(s, outcome) \in TaskState
  <2> DEFINE t == [s EXCEPT !.waitPullTimer = "off"]
  <2>1. t \in TaskState /\ [t EXCEPT !.state = "HOME"] \in TaskState
    BY ZenonT(60) DEF TaskState, State
  <2>2. SetVisionMode([t EXCEPT !.state = "HOME"], "OFF", None) \in TaskState
    BY <2>1, SetVisionModeType, RequestTypes
  <2>. QED
    BY <2>1, <2>2, SendType, EnterFaultType DEF HandleWaitPullResult, Goal, NamedTarget, FaultLevel
<1>3. FinishTask(s) \in TaskState
  <2>1. NoSnapshot \in Snapshot /\ None \in ToolOrNone /\ "IDLE" \in State
    BY DEF Snapshot, NoSnapshot, ToolOrNone, State
  <2>. QED
    BY <2>1 DEF FinishTask, TaskState
<1>4. [s EXCEPT !.state = "IDLE"] \in TaskState
  BY DEF TaskState, State
<1>5. EnterFault(s, "FAULT") \in TaskState
  BY EnterFaultType DEF FaultLevel
<1>. QED
  BY <1>1, <1>2, <1>3, <1>4, <1>5, StageType DEF HandleResult

LEMMA SettleType ==
  ASSUME NEW s \in TaskState, NEW c
  PROVE  Settle(s, c) \in TaskState
BY DEF Settle, TaskState

LEMMA ResumeFromType ==
  ASSUME NEW s \in TaskState, NEW snapshot \in Snapshot
  PROVE  ResumeFrom(s, snapshot) \in TaskState
<1> DEFINE t == [ClearResumeSnapshot(s) EXCEPT !.tool = snapshot.tool]
           c == [t EXCEPT !.spec = snapshot.spec]
<1>1. t \in TaskState
  BY ZenonT(60) DEF ClearResumeSnapshot, TaskState, Snapshot, NoSnapshot, ToolOrNone
<1>2. c \in TaskState
  BY ZenonT(60), <1>1 DEF TaskState, Snapshot
<1>3. [t EXCEPT !.tool = None] \in TaskState
  BY ZenonT(60), <1>1 DEF TaskState, ToolOrNone
<1>. QED
  BY <1>1, <1>2, <1>3, StageType DEF ResumeFrom

\* The attributes a reply or a rejection leaves before its callback runs.
LEMMA GoalGoneType ==
  ASSUME NEW s \in TaskState
  PROVE  /\ [s EXCEPT !.goalInProgress = FALSE, !.goalHandle = FALSE,
                      !.resultState = None] \in TaskState
         /\ [[s EXCEPT !.goalInProgress = FALSE, !.goalHandle = FALSE, !.resultState = None]
               EXCEPT !.cancelTimer = FALSE, !.cancelPending = None] \in TaskState
BY DEF TaskState

LEMMA RepliesType ==
  ASSUME NEW s \in TaskState, NEW c \in Call, NEW outcome, NEW goal \in Goal \cup State \cup {None}
  PROVE  /\ GoalRejected(s) \in TaskState
         /\ GoalAccepted(s, goal) \in TaskState
         /\ RobotResult(s, outcome) \in TaskState
         /\ VisionAnswered(s, c, outcome) \in TaskState
         /\ RecoverAnswered(s, outcome) \in TaskState
<1>1. GoalRejected(s) \in TaskState
  <2>1. s.cancelPending # None => s.cancelPending \in {"noop", "idle"} \cup Mode
    BY DEF TaskState
  <2>. QED
    BY <2>1, GoalGoneType, FinishCancelType, EnterFaultType DEF GoalRejected, FaultLevel
<1>2. GoalAccepted(s, goal) \in TaskState
  <2> DEFINE t == [s EXCEPT !.goalHandle = TRUE]
  <2>1. t \in TaskState
    BY DEF TaskState
  <2>2. NewCall("get_result", goal, FALSE) \in Call
    BY NewCallType
  <2>3. [t EXCEPT !.calls = @ \cup {NewCall("get_result", goal, FALSE)}] \in TaskState
    BY ZenonT(60), <2>1, <2>2 DEF TaskState
  <2>. QED
    BY <2>1, <2>3, ExceptionType DEF GoalAccepted
<1>3. RobotResult(s, outcome) \in TaskState
  <2>1. s.cancelPending # None => s.cancelPending \in {"noop", "idle"} \cup Mode
    BY DEF TaskState
  <2>2. (IF s.resultState = None THEN s.state ELSE s.resultState) \in State
    BY DEF TaskState
  <2>. QED
    BY <2>1, <2>2, GoalGoneType, FinishCancelType, HandleResultType DEF RobotResult
<1>4. VisionAnswered(s, c, outcome) \in TaskState
  <2>1. EnterFault(s, "FAULT") \in TaskState
    BY EnterFaultType DEF FaultLevel
  <2>2. SendRobotGoal(s, "watch") \in TaskState
    BY SendType DEF Goal, NamedTarget
  <2>3. SendRobotGoal(s, "handover_approach") \in TaskState
    BY SendType DEF Goal
  <2>. QED
    BY <2>1, <2>2, <2>3 DEF VisionAnswered
<1>5. RecoverAnswered(s, outcome) \in TaskState
  <2> DEFINE t == [s EXCEPT !.recoveryInProgress = FALSE]
             u == [t EXCEPT !.safety = "NORMAL", !.mode = "MANUAL",
                            !.tool = None, !.spec = None, !.retries = 0]
             v == SetVisionMode(CancelAllTimers(u), "OFF", None)
  <2>1. t \in TaskState
    BY DEF TaskState
  <2>2. u \in TaskState
    <3> HIDE DEF t
    <3>. QED
      BY ZenonT(60), <2>1, SnapshotTypes DEF TaskState, Safety, Mode
  <2>3. ASSUME NEW r \in TaskState
        PROVE  [SetVisionMode(CancelAllTimers(r), "OFF", None) EXCEPT !.state = "IDLE"]
                 \in TaskState
    <3>1. SetVisionMode(CancelAllTimers(r), "OFF", None) \in TaskState
      BY CancelTimersType, SetVisionModeType, RequestTypes
    <3>. QED
      BY <3>1 DEF TaskState, State
  <2>4. [v EXCEPT !.state = "IDLE"] \in TaskState
    BY <2>2, <2>3
  <2>5. RecoverAnswered(s, outcome) = IF s.safety # "RECOVERY_REQUIRED" \/ ~outcome THEN t
                                      ELSE [v EXCEPT !.state = "IDLE"]
    BY <2>1 DEF RecoverAnswered, TaskState
  <2> HIDE DEF t, v
  <2>. QED
    BY <2>1, <2>4, <2>5
<1>. QED
  BY <1>1, <1>2, <1>3, <1>4, <1>5

LEMMA GripperType ==
  ASSUME NEW goal, NEW outcome, NEW g \in {"open", "tool", "unsure"}
  PROVE  GripperAfter(goal, outcome, g) \subseteq {"open", "tool", "unsure"}
BY DEF GripperAfter

(***************************************************************************)
(* Every step keeps the types, whatever the replies, timers and commands.  *)
(***************************************************************************)
LEMMA TypeStep == TypeOK /\ [Next]_vars => TypeOK'
<1> SUFFICES ASSUME TypeOK, [Next]_vars PROVE TypeOK'
  OBVIOUS
<1>1. tm \in TaskState /\ up \in SUBSET Endpoint /\ tracks \in SUBSET Tools
      /\ gripper \in {"open", "tool", "unsure"}
  BY DEF TypeOK
<1>2. ASSUME NEW s \in TaskState, Becomes(s), gripper' \in {"open", "tool", "unsure"}
      PROVE  TypeOK'
  <2>1. s.asked.mode = "TRACK_TOOL" => s.asked.tool \in Tools
    BY DEF TaskState, VisionRequest
  <2>2. tm' \in TaskState /\ up' \in SUBSET Endpoint
    BY <1>1, <1>2 DEF Becomes
  <2>3. tracks' \in SUBSET Tools
    BY <1>1, <1>2, <2>1 DEF Becomes
  <2>. QED
    BY <1>2, <2>2, <2>3 DEF TypeOK
<1>3. ASSUME NEW s \in TaskState, Becomes(s), UNCHANGED gripper
      PROVE  TypeOK'
  BY <1>1, <1>2, <1>3
<1>4. CASE Commanding
  <2>1. CASE ResetTask
    <3>1. ClearResumeSnapshot(tm) \in TaskState
      BY <1>1, SnapshotTypes DEF ClearResumeSnapshot, TaskState
    <3>2. [ClearResumeSnapshot(tm) EXCEPT !.state = "CANCELLING"] \in TaskState
      BY <3>1 DEF TaskState, State
    <3>. QED
      BY <2>1, <3>1, <3>2, <1>3, RequestCancelType DEF ResetTask
  <2>2. CASE ResetSafety
    <3>1. [tm EXCEPT !.safety = "RECOVERY_REQUIRED", !.recoveryInProgress = TRUE]
            \in TaskState
      BY <1>1 DEF TaskState, Safety
    <3>. QED
      BY <2>2, <3>1, <1>3, RequestCancelType DEF ResetSafety
  <2>3. CASE Stop
    <3>1. CaptureResumeSnapshot(tm) \in TaskState
      BY <1>1, CaptureType
    <3>2. [CaptureResumeSnapshot(tm) EXCEPT !.state = "CANCELLING"] \in TaskState
      BY <3>1 DEF TaskState, State
    <3>. QED
      BY <2>3, <3>2, <1>3, RequestCancelType DEF Stop
  <2>4. CASE Resume
    BY <2>4, <1>1, <1>3, ResumeFromType DEF Resume, TaskState
  <2>5. ASSUME NEW mode \in Mode, ModeSwitch(mode) PROVE TypeOK'
    <3>1. [tm EXCEPT !.mode = mode] \in TaskState
      BY <1>1 DEF TaskState
    <3>2. [tm EXCEPT !.state = "CANCELLING"] \in TaskState
      BY <1>1 DEF TaskState, State
    <3>3. SetVisionMode([tm EXCEPT !.mode = mode], "OFF", None) \in TaskState
      BY <3>1, SetVisionModeType, RequestTypes
    <3>. QED
      BY <2>5, <3>2, <3>3, <1>3, RequestCancelType DEF ModeSwitch
  <2>6. ASSUME NEW target \in NamedTarget, ManualMove(target) PROVE TypeOK'
    <3>1. [tm EXCEPT !.state = "MANUAL_MOVE"] \in TaskState
      BY <1>1 DEF TaskState, State
    <3>. QED
      BY <2>6, <3>1, <1>3, SendType DEF ManualMove, Goal
  <2>7. ASSUME NEW tool \in Tools, FetchTool(tool) PROVE TypeOK'
    <3>1. [tm EXCEPT !.tool = tool, !.spec = None, !.retries = 0,
                     !.state = "MOVE_TO_WATCH"] \in TaskState
      BY ZenonT(60), <1>1 DEF TaskState, State, ToolOrNone
    <3>. QED
      BY <2>7, <3>1, <1>3, StartAfterVisionModeType, RequestTypes DEF FetchTool, State
  <2>. QED
    BY <1>4, <2>1, <2>2, <2>3, <2>4, <2>5, <2>6, <2>7 DEF Commanding
<1>5. CASE Replying
  <2>1. ASSUME NEW kind, NEW c \in Waiting(kind)
        PROVE  /\ c \in Call /\ c.what \in Goal \cup State \cup {None}
               /\ Settle(tm, c) \in TaskState
    BY <1>1, SettleType DEF Waiting, TaskState, Call
  <2>2. ASSUME NEW c \in Waiting("send_goal"), NEW accepted \in BOOLEAN,
               OnGoalResponse(c, accepted)
        PROVE  TypeOK'
    BY <2>1, <2>2, <1>3, RepliesType DEF OnGoalResponse
  <2>3. ASSUME NEW c \in Waiting("get_result"), NEW outcome \in Outcomes(c.what),
               OnRobotResult(c, outcome)
        PROVE  TypeOK'
    BY <2>1, <2>3, <1>1, <1>2, RepliesType, GripperType DEF OnRobotResult
  <2>4. ASSUME NEW c \in Waiting("send_goal") \cup Waiting("get_result"),
               OnActionFutureException(c)
        PROVE  TypeOK'
    BY <2>1, <2>4, <1>1, <1>2, ExceptionType, GripperType DEF OnActionFutureException
  <2>5. ASSUME NEW c \in Waiting("set_mode"), NEW success \in BOOLEAN,
               OnVisionModeResponse(c, success)
        PROVE  TypeOK'
    BY <2>1, <2>5, <1>3, RepliesType DEF OnVisionModeResponse
  <2>6. ASSUME NEW c \in Waiting("recover"), NEW success \in BOOLEAN,
               OnRecoverResponse(c, success)
        PROVE  TypeOK'
    BY <2>1, <2>6, <1>3, RepliesType DEF OnRecoverResponse
  <2>. QED
    BY <1>5, <2>2, <2>3, <2>4, <2>5, <2>6 DEF Replying
<1>6. CASE TimersFiring
  <2>1. CASE OnCancelTimeout
    <3> DEFINE s == [tm EXCEPT !.cancelTimer = FALSE]
    <3>1. s \in TaskState
      BY <1>1 DEF TaskState
    <3>2. Retire(s.calls, {"recover"}) \in SUBSET Call
      BY <3>1, RetireType DEF TaskState
    <3>3. [s EXCEPT !.cancelPending = "noop", !.calls = Retire(@, {"recover"}),
                    !.recoveryInProgress = FALSE, !.safety = "FAULT"] \in TaskState
      BY <3>1, <3>2 DEF TaskState, Safety, FaultLevel
    <3>. QED
      BY <2>1, <3>1, <3>3, <1>3 DEF OnCancelTimeout
  <2>2. CASE OnDetectTrackTimeout
    <3> DEFINE s == [tm EXCEPT !.detectTimer = FALSE]
               v == SetVisionMode(s, "OFF", None)
    <3>1. s \in TaskState
      BY <1>1 DEF TaskState
    <3>2. v \in TaskState
      BY <3>1, SetVisionModeType, RequestTypes
    <3>3. [v EXCEPT !.tool = None, !.spec = None, !.state = "IDLE"] \in TaskState
      BY ZenonT(60), <3>2 DEF TaskState, State, ToolOrNone
    <3>. QED
      BY <2>2, <3>1, <3>3, <1>3 DEF OnDetectTrackTimeout
  <2>3. CASE OnWaitPullTimer
    <3>1. \A timer \in {"off", "reminder"} : [tm EXCEPT !.waitPullTimer = timer] \in TaskState
      BY <1>1 DEF TaskState
    <3>. QED
      BY <2>3, <3>1, <1>3 DEF OnWaitPullTimer
  <2>4. ASSUME NEW c, OnVisionModeTimeout(c) PROVE TypeOK'
    <3>1. Untime(Retire(tm.calls, {"set_mode"}), {"set_mode"}) \in SUBSET Call
      BY <1>1, RetireType, UntimeType DEF TaskState
    <3>2. [tm EXCEPT !.calls = Untime(Retire(@, {"set_mode"}), {"set_mode"})] \in TaskState
      BY <1>1, <3>1 DEF TaskState
    <3>. QED
      BY <2>4, <3>2, <1>3, EnterFaultType DEF OnVisionModeTimeout, FaultLevel
  <2>5. ASSUME NEW c, OnRecoveryTimeout(c) PROVE TypeOK'
    <3> DEFINE s == [tm EXCEPT !.calls = Untime(@, {"recover"})]
    <3>1. Untime(tm.calls, {"recover"}) \in SUBSET Call
      BY <1>1, UntimeType DEF TaskState
    <3>2. s \in TaskState
      BY <1>1, <3>1 DEF TaskState
    <3>3. Retire(s.calls, {"recover"}) \in SUBSET Call
      BY <3>2, RetireType DEF TaskState
    <3>4. [s EXCEPT !.calls = Retire(@, {"recover"}), !.recoveryInProgress = FALSE]
            \in TaskState
      BY <3>2, <3>3 DEF TaskState
    <3>. QED
      BY <2>5, <3>2, <3>4, <1>3 DEF OnRecoveryTimeout
  <2>. QED
    BY <1>6, <2>1, <2>2, <2>3, <2>4, <2>5 DEF TimersFiring
<1>7. CASE EndpointsChange
  BY <1>7, <1>1 DEF EndpointsChange, TypeOK
<1>8. ASSUME NEW level \in FaultLevels, NEW text \in FaultTexts, OnFault(level, text)
      PROVE  TypeOK'
  <2>1. level \in FaultLevel
    BY ConstantsAssumption
  <2>2. [tm EXCEPT !.lastFault = <<level, text>>] \in TaskState
    BY <1>1, <2>1 DEF TaskState
  <2>. QED
    BY <1>8, <2>1, <2>2, <1>3, EnterFaultType DEF OnFault
<1>9. ASSUME NEW tool \in Tools, OnToolTrack(tool) PROVE TypeOK'
  <2> DEFINE s == [tm EXCEPT !.detectTimer = FALSE]
             v == SetVisionMode([s EXCEPT !.spec = None], "OFF", None)
  <2>1. s \in TaskState
    BY <1>1 DEF TaskState
  <2>2. [s EXCEPT !.spec = None] \in TaskState
    BY <2>1 DEF TaskState, ToolOrNone
  <2>3. v \in TaskState
    BY <2>2, SetVisionModeType, RequestTypes
  <2>4. [v EXCEPT !.tool = None, !.state = "IDLE"] \in TaskState
    BY <2>3 DEF TaskState, State, ToolOrNone
  <2>5. [s EXCEPT !.spec = tool, !.state = "SERVO_PICK"] \in TaskState
    BY ZenonT(60), <2>1 DEF TaskState, State, ToolOrNone
  <2>. QED
    BY <1>9, <2>4, <2>5, <1>3, SendType DEF OnToolTrack, Goal
<1>10. ASSUME NEW tool \in Tools, TracksDrain(tool) PROVE TypeOK'
  BY <1>10, <1>1 DEF TracksDrain, TypeOK
<1>11. CASE UNCHANGED vars
  BY <1>11, <1>1 DEF vars, TypeOK
<1>. QED
  BY <1>4, <1>5, <1>6, <1>7, <1>8, <1>9, <1>10, <1>11 DEF Next

\* The attributes of the node and everything the environment may still deliver keep their
\* types in every behaviour.
THEOREM TypeCorrect == Spec => []TypeOK
<1>1. Init => TypeOK
  <2>1. InitialTask \in TaskState
    BY SnapshotTypes, RequestTypes DEF InitialTask, TaskState, State, Mode, Safety
  <2>. QED
    BY <2>1 DEF Init, TypeOK
<1>. QED
  BY <1>1, TypeStep, PTL DEF Spec


(***************************************************************************)
(* The invariants of the attributes s, so that they can be followed        *)
(* through the methods of the node.                                        *)
(***************************************************************************)
Goals(s) ==
  /\ s.goalInProgress <=> Current(s.calls, GoalKinds) # {}
  /\ \A c, d \in Current(s.calls, GoalKinds) : c = d
  /\ s.goalHandle <=> Current(s.calls, {"get_result"}) # {}
  /\ s.resultState # None <=> s.goalInProgress

Cancels(s) ==
  /\ s.cancelPending # None => s.goalInProgress
  /\ s.cancelTimer => s.cancelPending # None

Guarded(s) ==
  s.cancelPending # None /\ s.safety = "NORMAL" => s.cancelTimer /\ s.cancelPending # "noop"

Recovers(s) ==
  /\ \A c \in Current(s.calls, {"recover"}) :
       /\ s.recoveryInProgress /\ s.safety = "RECOVERY_REQUIRED"
       /\ c.timed /\ s.cancelPending = None
  /\ \A c, d \in Current(s.calls, {"recover"}) : c = d
  /\ s.recoveryInProgress =>
       /\ s.safety = "RECOVERY_REQUIRED"
       /\ Current(s.calls, {"recover"}) # {} \/ s.cancelPending # None

Budget(s) ==
  s.retries > VerifyGraspMaxRetries =>
    /\ s.retries = VerifyGraspMaxRetries + 1
    /\ s.safety # "NORMAL"
    /\ s.state \in {"VERIFY_GRASP", "IDLE"}
    /\ s.goalInProgress => s.cancelPending # None

Watched(s) ==
  s.safety = "NORMAL" /\ s.state # "IDLE" =>
    \/ s.goalInProgress
    \/ s.state = "DETECT_TRACK" /\ s.detectTimer
    \/ \E c \in Current(s.calls, {"set_mode"}) : c.what = s.state /\ c.timed

\* Only these two states wait for vision_node.
Waits(s) ==
  \A c \in s.calls : c.kind = "set_mode" => c.what \in {"MOVE_TO_WATCH", "APPROACH_HAND"}

\* What a method may rely on while the goal's reply is being handled, and what it
\* leaves behind.
Base(s) == s \in TaskState /\ Goals(s) /\ Cancels(s) /\ Waits(s)
Book(s) == Base(s) /\ Guarded(s) /\ Recovers(s)
Inv(s) == Book(s) /\ Budget(s) /\ Watched(s)

LEMMA InvMeaning ==
  Inv(tm) => GoalTracked /\ CancelTracked /\ RecoveryTracked /\ RetryBudget
             /\ NormalTaskIsWatched
BY DEF Inv, Book, Base, Goals, Cancels, Guarded, Recovers, Budget, Watched, GoalTracked,
       CancelTracked, RecoveryTracked, RetryBudget, NormalTaskIsWatched

(***************************************************************************)
(* Which calls are current after the generations move on.                  *)
(***************************************************************************)
LEMMA CurrentRetire ==
  ASSUME NEW calls \in SUBSET Call, NEW kinds, NEW others
  PROVE  /\ others \subseteq kinds => Current(Retire(calls, kinds), others) = {}
         /\ kinds \cap others = {} =>
              Current(Retire(calls, kinds), others) = Current(calls, others)
<1> DEFINE Old(c) == [c EXCEPT !.current = @ /\ c.kind \notin kinds]
<1>1. ASSUME NEW c \in calls, c.kind \notin kinds PROVE Old(c) = c
  BY <1>1 DEF Call
<1>2. \A c \in calls : Old(c).kind = c.kind /\ (Old(c).current => c.kind \notin kinds)
  BY DEF Call
<1>3. Retire(calls, kinds) = {Old(c) : c \in calls}
  BY DEF Retire
<1> HIDE DEF Old
<1>4. \A d \in Current(Retire(calls, kinds), others) :
        d \in calls /\ d.kind \notin kinds /\ d.kind \in others /\ d.current
  BY <1>1, <1>2, <1>3 DEF Current
<1>5. \A c \in Current(calls, others) : c.kind \notin kinds => c \in Retire(calls, kinds)
  BY <1>1, <1>3 DEF Current
<1>. QED
  BY <1>4, <1>5 DEF Current

LEMMA CurrentUntime ==
  ASSUME NEW calls \in SUBSET Call, NEW kinds, NEW others
  PROVE  /\ Current(calls, others) = {} => Current(Untime(calls, kinds), others) = {}
         /\ kinds \cap others = {} =>
              Current(Untime(calls, kinds), others) = Current(calls, others)
<1> DEFINE Old(c) == [c EXCEPT !.timed = @ /\ c.kind \notin kinds]
<1>1. ASSUME NEW c \in calls, c.kind \notin kinds PROVE Old(c) = c
  BY <1>1 DEF Call
<1>2. \A c \in calls : Old(c).kind = c.kind /\ Old(c).current = c.current
  BY DEF Call
<1>3. Untime(calls, kinds) = {Old(c) : c \in calls}
  BY DEF Untime
<1> HIDE DEF Old
<1>4. ASSUME Current(calls, others) = {}, NEW d \in Current(Untime(calls, kinds), others)
      PROVE  FALSE
  <2>1. PICK c \in calls : d = Old(c)
    BY <1>3 DEF Current
  <2>. QED
    BY <1>2, <1>4, <2>1 DEF Current
<1>5. ASSUME kinds \cap others = {}
      PROVE  Current(Untime(calls, kinds), others) = Current(calls, others)
  <2>1. ASSUME NEW d \in Current(Untime(calls, kinds), others)
        PROVE  d \in Current(calls, others)
    <3>1. PICK c \in calls : d = Old(c)
      BY <1>3 DEF Current
    <3>. QED
      BY <1>1, <1>2, <1>5, <3>1 DEF Current
  <2>2. ASSUME NEW c \in Current(calls, others)
        PROVE  c \in Current(Untime(calls, kinds), others)
    BY <1>1, <1>3, <1>5 DEF Current
  <2>. QED
    BY <2>1, <2>2
<1>. QED
  BY <1>4, <1>5

LEMMA CurrentSent ==
  ASSUME NEW calls, NEW what
  PROVE  LET new == NewCall("send_goal", what, FALSE)
         IN  /\ Current(calls \cup {new}, GoalKinds) = Current(calls, GoalKinds) \cup {new}
             /\ Current(calls \cup {new}, {"get_result"}) = Current(calls, {"get_result"})
             /\ Current(calls \cup {new}, {"recover"}) = Current(calls, {"recover"})
BY DEF Current, NewCall, GoalKinds

LEMMA CurrentAccepted ==
  ASSUME NEW calls, NEW what
  PROVE  LET new == NewCall("get_result", what, FALSE)
         IN  /\ Current(calls \cup {new}, GoalKinds) = Current(calls, GoalKinds) \cup {new}
             /\ Current(calls \cup {new}, {"get_result"}) = Current(calls, {"get_result"}) \cup {new}
             /\ Current(calls \cup {new}, {"recover"}) = Current(calls, {"recover"})
BY DEF Current, NewCall, GoalKinds

LEMMA CurrentAsked ==
  ASSUME NEW calls, NEW what
  PROVE  LET new == NewCall("set_mode", what, TRUE)
         IN  /\ Current(calls \cup {new}, GoalKinds) = Current(calls, GoalKinds)
             /\ Current(calls \cup {new}, {"get_result"}) = Current(calls, {"get_result"})
             /\ Current(calls \cup {new}, {"recover"}) = Current(calls, {"recover"})
BY DEF Current, NewCall, GoalKinds

LEMMA CurrentRecover ==
  ASSUME NEW calls
  PROVE  LET new == NewCall("recover", None, TRUE)
         IN  /\ Current(calls \cup {new}, GoalKinds) = Current(calls, GoalKinds)
             /\ Current(calls \cup {new}, {"get_result"}) = Current(calls, {"get_result"})
             /\ Current(calls \cup {new}, {"recover"}) = Current(calls, {"recover"}) \cup {new}
BY DEF Current, NewCall, GoalKinds

LEMMA CurrentLess ==
  ASSUME NEW calls, NEW c, NEW others
  PROVE  Current(calls \ {c}, others) = Current(calls, others) \ {c}
BY DEF Current

LEMMA WaitsKept ==
  ASSUME NEW calls \in SUBSET Call, NEW kinds,
         \A c \in calls : c.kind = "set_mode" => c.what \in {"MOVE_TO_WATCH", "APPROACH_HAND"}
  PROVE  /\ \A c \in Retire(calls, kinds) :
              c.kind = "set_mode" => c.what \in {"MOVE_TO_WATCH", "APPROACH_HAND"}
         /\ \A c \in Untime(calls, kinds) :
              c.kind = "set_mode" => c.what \in {"MOVE_TO_WATCH", "APPROACH_HAND"}
BY DEF Retire, Untime, Call

(***************************************************************************)
(* What the helpers leave alone.                                           *)
(***************************************************************************)
SameTask(s, u) ==
  /\ u.state = s.state /\ u.safety = s.safety /\ u.retries = s.retries
  /\ u.goalInProgress = s.goalInProgress /\ u.goalHandle = s.goalHandle
  /\ u.resultState = s.resultState
  /\ u.cancelPending = s.cancelPending /\ u.cancelTimer = s.cancelTimer
  /\ u.recoveryInProgress = s.recoveryInProgress

SameCalls(s, u) ==
  \A kinds \in {GoalKinds, {"get_result"}, {"recover"}} :
    Current(u.calls, kinds) = Current(s.calls, kinds)

LEMMA BookKept ==
  ASSUME NEW s, NEW u \in TaskState, SameTask(s, u), SameCalls(s, u), Waits(u)
  PROVE  /\ Base(s) => Base(u)
         /\ Book(s) => Book(u)
BY DEF SameTask, SameCalls, Base, Book, Goals, Cancels, Guarded, Recovers

LEMMA SetVisionModeFrame ==
  ASSUME NEW s \in TaskState, Waits(s), NEW mode, NEW tool
  PROVE  /\ SameTask(s, SetVisionMode(s, mode, tool))
         /\ SameCalls(s, SetVisionMode(s, mode, tool))
         /\ Waits(SetVisionMode(s, mode, tool))
<1> DEFINE u == SetVisionMode(s, mode, tool)
<1>1. u.calls = Retire(s.calls, {"set_mode"}) /\ SameTask(s, u)
  BY DEF SetVisionMode, SameTask, TaskState
<1>2. s.calls \in SUBSET Call
  BY DEF TaskState
<1>3. Waits(u)
  BY <1>1, <1>2, WaitsKept DEF Waits
<1>4. SameCalls(s, u)
  BY <1>1, <1>2, CurrentRetire DEF SameCalls, GoalKinds
<1>. QED
  BY <1>1, <1>3, <1>4

LEMMA CaptureFrame ==
  ASSUME NEW s \in TaskState
  PROVE  /\ SameTask(s, CaptureResumeSnapshot(s))
         /\ CaptureResumeSnapshot(s).calls = s.calls
BY DEF CaptureResumeSnapshot, SameTask, TaskState

\* The camera off and the stage timers cancelled, as every cancellation begins.
LEMMA QuietFrame ==
  ASSUME NEW s \in TaskState, Waits(s)
  PROVE  LET u == CancelAllTimers(SetVisionMode(s, "OFF", None))
         IN  u \in TaskState /\ SameTask(s, u) /\ SameCalls(s, u) /\ Waits(u)
<1> DEFINE v == SetVisionMode(s, "OFF", None)
<1>1. v \in TaskState /\ SameTask(s, v) /\ SameCalls(s, v) /\ Waits(v)
  BY SetVisionModeFrame, SetVisionModeType, RequestTypes
<1> HIDE DEF v
<1>2. CancelAllTimers(v) \in TaskState
  BY <1>1, CancelTimersType
<1>3. SameTask(v, CancelAllTimers(v)) /\ CancelAllTimers(v).calls = v.calls
  BY <1>1 DEF CancelAllTimers, SameTask, TaskState
<1>. QED
  BY <1>1, <1>2, <1>3 DEF v, SameTask, SameCalls, Waits

(***************************************************************************)
(* A broken action client leaves nothing to wait for.                      *)
(***************************************************************************)
LEMMA ExceptionBook ==
  ASSUME NEW s \in TaskState, Waits(s)
  PROVE  LET u == ActionFutureException(s)
         IN  /\ Book(u) /\ u.state = s.state /\ u.retries = s.retries
             /\ u.safety = "FAULT" /\ ~u.goalInProgress
<1> DEFINE r == CaptureResumeSnapshot(s)
           calls == Untime(Retire(r.calls, GoalKinds \cup {"recover"}), {"recover"})
           t == [r EXCEPT
       !.goalInProgress = FALSE, !.goalHandle = FALSE, !.resultState = None,
       !.cancelTimer = FALSE, !.cancelPending = None,
       !.calls = Untime(Retire(@, GoalKinds \cup {"recover"}), {"recover"}),
       !.recoveryInProgress = FALSE,
       !.safety = "FAULT"]
           u == SetVisionMode(t, "OFF", None)
<1>1. r \in TaskState /\ r.calls = s.calls /\ r.state = s.state /\ r.retries = s.retries
  BY CaptureType, CaptureFrame DEF SameTask
<1>2. s.calls \in SUBSET Call /\ Retire(s.calls, GoalKinds \cup {"recover"}) \in SUBSET Call
  BY RetireType DEF TaskState
<1>3. calls \in SUBSET Call
  BY <1>1, <1>2, UntimeType
<1>4. \A kinds \in {GoalKinds, {"get_result"}, {"recover"}} : Current(calls, kinds) = {}
  BY <1>1, <1>2, CurrentRetire, CurrentUntime DEF GoalKinds
<1>5. \A c \in calls : c.kind = "set_mode" => c.what \in {"MOVE_TO_WATCH", "APPROACH_HAND"}
  BY <1>1, <1>2, WaitsKept DEF Waits
<1> HIDE DEF calls
<1>6. /\ t \in TaskState /\ t.calls = calls
      /\ t.state = s.state /\ t.retries = s.retries /\ t.safety = "FAULT"
      /\ ~t.goalInProgress /\ ~t.goalHandle /\ t.resultState = None
      /\ ~t.cancelTimer /\ t.cancelPending = None /\ ~t.recoveryInProgress
  <2> HIDE DEF r
  <2>1. t \in TaskState
    BY ZenonT(60), <1>1, <1>3 DEF calls, TaskState, Safety, FaultLevel
  <2>2. t.calls = calls
    BY <1>1, <1>3 DEF calls, TaskState
  <2>3. /\ t.state = s.state /\ t.retries = s.retries /\ t.safety = "FAULT"
        /\ ~t.goalInProgress /\ ~t.goalHandle /\ t.resultState = None
        /\ ~t.cancelTimer /\ t.cancelPending = None /\ ~t.recoveryInProgress
    BY <1>1 DEF TaskState
  <2>. QED
    BY <2>1, <2>2, <2>3
<1> HIDE DEF t
<1>7. u \in TaskState /\ SameTask(t, u) /\ SameCalls(t, u) /\ Waits(u)
  BY <1>5, <1>6, SetVisionModeType, SetVisionModeFrame, RequestTypes DEF Waits
<1>8. Book(t)
  BY <1>4, <1>5, <1>6 DEF Book, Base, Goals, Cancels, Guarded, Recovers, Waits
<1>9. Book(u) /\ u.state = s.state /\ u.retries = s.retries
      /\ u.safety = "FAULT" /\ ~u.goalInProgress
  BY <1>6, <1>7, <1>8, BookKept DEF SameTask
<1>10. u = ActionFutureException(s)
  BY DEF ActionFutureException, t
<1>. QED
  BY <1>9, <1>10

(***************************************************************************)
(* A goal is sent only when none is out; afterwards one is, or the node    *)
(* has failed.                                                             *)
(***************************************************************************)
LEMMA SendBook ==
  ASSUME NEW s, Book(s), NEW goal \in Goal
  PROVE  LET u == SendRobotGoal(s, goal)
         IN  /\ Book(u) /\ u.state = s.state /\ u.retries = s.retries
             /\ u.goalInProgress \/ u.safety = "FAULT"
<1> DEFINE calls == Retire(s.calls, GoalKinds)
           new == NewCall("send_goal", goal, FALSE)
           sent == [s EXCEPT !.goalInProgress = TRUE, !.resultState = s.state,
                             !.calls = Retire(@, GoalKinds)]
           out == [sent EXCEPT !.calls = @ \cup {NewCall("send_goal", goal, FALSE)}]
<1>1. s \in TaskState /\ s.calls \in SUBSET Call /\ s.state # None
  <2>1. s \in TaskState /\ s.calls \in SUBSET Call /\ s.state \in State
    BY DEF Book, Base, TaskState
  <2>2. \A x \in State : x # None
    BY DEF State, None
  <2>. QED
    BY <2>1, <2>2
<1>2. calls \in SUBSET Call
  BY <1>1, RetireType
<1>3. /\ Current(calls, GoalKinds) = {} /\ Current(calls, {"get_result"}) = {}
      /\ Current(calls, {"recover"}) = Current(s.calls, {"recover"})
  BY <1>1, CurrentRetire DEF GoalKinds
<1>4. /\ Current(calls \cup {new}, GoalKinds) = {new}
      /\ Current(calls \cup {new}, {"get_result"}) = {}
      /\ Current(calls \cup {new}, {"recover"}) = Current(s.calls, {"recover"})
  <2> HIDE DEF calls
  <2>1. /\ Current(calls \cup {new}, GoalKinds) = Current(calls, GoalKinds) \cup {new}
        /\ Current(calls \cup {new}, {"get_result"}) = Current(calls, {"get_result"})
        /\ Current(calls \cup {new}, {"recover"}) = Current(calls, {"recover"})
    BY CurrentSent
  <2>. QED
    BY <1>3, <2>1
<1>5. \A c \in calls \cup {new} :
        c.kind = "set_mode" => c.what \in {"MOVE_TO_WATCH", "APPROACH_HAND"}
  <2>1. \A c \in calls :
          c.kind = "set_mode" => c.what \in {"MOVE_TO_WATCH", "APPROACH_HAND"}
    BY <1>1, WaitsKept DEF Book, Base, Waits
  <2>. QED
    BY <2>1 DEF NewCall
<1>6. SendRobotGoal(s, goal) \in TaskState /\ sent \in TaskState
  <2>1. SendRobotGoal(s, goal) \in TaskState
    BY <1>1, SendType
  <2>2. sent \in TaskState
    BY <1>1, <1>2 DEF TaskState
  <2>. QED
    BY <2>1, <2>2
<1>7. CASE s.goalInProgress
  BY <1>7, <1>1 DEF SendRobotGoal
<1>8. CASE ~s.goalInProgress /\ "robot_task" \notin up
  <2>1. Waits(sent) /\ sent.state = s.state /\ sent.retries = s.retries
    BY <1>1, <1>5 DEF Waits, TaskState
  <2>2. SendRobotGoal(s, goal) = ActionFutureException(sent)
    BY <1>8 DEF SendRobotGoal
  <2> HIDE DEF sent
  <2>. QED
    BY <1>6, <2>1, <2>2, ExceptionBook
<1>9. CASE ~s.goalInProgress /\ "robot_task" \in up
  <2>1. SendRobotGoal(s, goal) = out
    BY <1>9 DEF SendRobotGoal
  <2>2. /\ out.calls = calls \cup {new} /\ out.goalInProgress = TRUE
        /\ out.resultState = s.state /\ out.state = s.state /\ out.retries = s.retries
        /\ out.goalHandle = s.goalHandle /\ out.safety = s.safety
        /\ out.cancelPending = s.cancelPending /\ out.cancelTimer = s.cancelTimer
        /\ out.recoveryInProgress = s.recoveryInProgress
    BY <1>1 DEF TaskState
  <2> HIDE DEF out, calls, new
  <2>3. s.cancelPending = None /\ ~s.cancelTimer /\ ~s.goalHandle
    BY <1>9, <1>1 DEF Book, Base, Goals, Cancels, Current, GoalKinds, TaskState
  <2>4. Goals(out) /\ Cancels(out) /\ Guarded(out) /\ Waits(out)
    BY <1>1, <1>4, <1>5, <2>2, <2>3 DEF Goals, Cancels, Guarded, Waits
  <2>5. Recovers(out)
    BY <1>4, <2>2 DEF Book, Recovers
  <2>. QED
    BY <1>6, <2>1, <2>2, <2>4, <2>5 DEF Book, Base
<1>10. s.goalInProgress \in BOOLEAN
  BY <1>1 DEF TaskState
<1>. QED
  BY <1>7, <1>8, <1>9, <1>10

(***************************************************************************)
(* The goal is gone and its cancellation is confirmed: the recovery that   *)
(* waited for it, if any, is called.                                       *)
(***************************************************************************)
LEMMA FinishCancelBook ==
  ASSUME NEW s, Base(s), ~s.goalInProgress,
         Current(s.calls, {"recover"}) = {},
         s.recoveryInProgress => s.safety = "RECOVERY_REQUIRED",
         NEW callback \in {"noop", "idle"} \cup Mode
  PROVE  LET u == FinishCancel(s, callback)
         IN  /\ Book(u) /\ ~u.goalInProgress
             /\ u.safety = s.safety /\ u.retries = s.retries
             /\ u.state = IF callback = "noop" THEN s.state ELSE "IDLE"
<1>1. ASSUME NEW r, Base(r), ~r.goalInProgress, Current(r.calls, {"recover"}) = {},
             r.recoveryInProgress => r.safety = "RECOVERY_REQUIRED"
      PROVE  LET u == MaybeStartRecovery(r)
             IN  /\ Book(u) /\ ~u.goalInProgress
                 /\ u.safety = r.safety /\ u.retries = r.retries /\ u.state = r.state
  <2> DEFINE new == NewCall("recover", None, TRUE)
             dropped == [r EXCEPT !.recoveryInProgress = FALSE]
             called == [r EXCEPT !.calls = Untime(@, {"recover"}) \cup {NewCall("recover", None, TRUE)}]
  <2>1. r \in TaskState /\ r.calls \in SUBSET Call /\ MaybeStartRecovery(r) \in TaskState
    BY <1>1, MaybeRecoverType DEF Base, TaskState
  <2>2. r.cancelPending = None
    BY <1>1 DEF Base, Cancels
  <2>3. CASE ~r.recoveryInProgress
    BY <1>1, <2>2, <2>3 DEF MaybeStartRecovery, Book, Guarded, Recovers
  <2>4. CASE r.recoveryInProgress /\ "recover" \notin up
    <3>1. MaybeStartRecovery(r) = dropped
      BY <1>1, <2>4 DEF MaybeStartRecovery, CallRecoverService
    <3>2. /\ SameCalls(r, dropped) /\ dropped.calls = r.calls /\ ~dropped.recoveryInProgress
          /\ dropped.goalInProgress = r.goalInProgress /\ dropped.goalHandle = r.goalHandle
          /\ dropped.resultState = r.resultState /\ dropped.cancelPending = r.cancelPending
          /\ dropped.cancelTimer = r.cancelTimer /\ dropped.safety = r.safety
          /\ dropped.state = r.state /\ dropped.retries = r.retries
      BY <2>1 DEF SameCalls, TaskState
    <3> HIDE DEF dropped
    <3>. QED
      BY <1>1, <2>1, <2>2, <3>1, <3>2
         DEF Book, Base, Goals, Cancels, Guarded, Recovers, Waits
  <2>5. CASE r.recoveryInProgress /\ "recover" \in up
    <3>1. MaybeStartRecovery(r) = called
      BY <1>1, <2>5 DEF MaybeStartRecovery, CallRecoverService
    <3>2. /\ called.calls = Untime(r.calls, {"recover"}) \cup {new}
          /\ called.recoveryInProgress = r.recoveryInProgress
          /\ called.goalInProgress = r.goalInProgress /\ called.goalHandle = r.goalHandle
          /\ called.resultState = r.resultState /\ called.cancelPending = r.cancelPending
          /\ called.cancelTimer = r.cancelTimer /\ called.safety = r.safety
          /\ called.state = r.state /\ called.retries = r.retries
      BY <2>1 DEF TaskState
    <3> HIDE DEF called
    <3>3. /\ Current(called.calls, GoalKinds) = Current(r.calls, GoalKinds)
          /\ Current(called.calls, {"get_result"}) = Current(r.calls, {"get_result"})
          /\ Current(called.calls, {"recover"}) = {new}
      <4> DEFINE old == Untime(r.calls, {"recover"})
      <4>1. /\ Current(old, GoalKinds) = Current(r.calls, GoalKinds)
            /\ Current(old, {"get_result"}) = Current(r.calls, {"get_result"})
            /\ Current(old, {"recover"}) = {}
        <5>1. {"recover"} \cap GoalKinds = {} /\ {"recover"} \cap {"get_result"} = {}
          BY DEF GoalKinds
        <5>2. r.calls \in SUBSET Call /\ Current(r.calls, {"recover"}) = {}
          BY <1>1, <2>1
        <5>3. /\ Current(old, GoalKinds) = Current(r.calls, GoalKinds)
              /\ Current(old, {"get_result"}) = Current(r.calls, {"get_result"})
          BY <5>1, <5>2, CurrentUntime
        <5>4. Current(old, {"recover"}) = {}
          BY <5>2, CurrentUntime
        <5>. QED
          BY <5>3, <5>4
      <4> HIDE DEF old
      <4>2. /\ Current(old \cup {new}, GoalKinds) = Current(old, GoalKinds)
            /\ Current(old \cup {new}, {"get_result"}) = Current(old, {"get_result"})
            /\ Current(old \cup {new}, {"recover"}) = Current(old, {"recover"}) \cup {new}
        BY CurrentRecover
      <4>3. called.calls = old \cup {new}
        BY <3>2 DEF old
      <4>. QED
        BY <4>1, <4>2, <4>3
    <3>4. Goals(called) /\ Cancels(called) /\ Guarded(called)
      BY <1>1, <2>2, <3>2, <3>3 DEF Base, Goals, Cancels, Guarded
    <3>5. Recovers(called)
      <4>1. new.timed
        BY DEF NewCall
      <4> HIDE DEF new
      <4>. QED
        BY <1>1, <2>2, <2>5, <3>2, <3>3, <4>1 DEF Recovers
    <3>6. Waits(called)
      BY <1>1, <2>1, <3>2, WaitsKept DEF Base, Waits, NewCall
    <3>7. Book(called)
      <4>1. called \in TaskState
        BY <2>1, <3>1
      <4>. QED
        BY <4>1, <3>4, <3>5, <3>6 DEF Book, Base
    <3>8. /\ ~called.goalInProgress /\ called.safety = r.safety
          /\ called.retries = r.retries /\ called.state = r.state
      BY <1>1, <3>2
    <3>. QED
      BY <3>1, <3>7, <3>8
  <2>. QED
    BY <2>1, <2>3, <2>4, <2>5
<1>2. /\ callback = "noop" => FinishCancel(s, callback) = MaybeStartRecovery(s)
      /\ callback = "idle" =>
           FinishCancel(s, callback) = MaybeStartRecovery([s EXCEPT !.state = "IDLE"])
      /\ callback \in Mode =>
           FinishCancel(s, callback)
             = MaybeStartRecovery([s EXCEPT !.mode = callback, !.state = "IDLE"])
  BY DEF FinishCancel, Mode
<1>3. ASSUME NEW r \in TaskState, SameTask([s EXCEPT !.state = r.state], r), r.calls = s.calls
      PROVE  LET u == MaybeStartRecovery(r)
             IN  /\ Book(u) /\ ~u.goalInProgress
                 /\ u.safety = s.safety /\ u.retries = s.retries /\ u.state = r.state
  <2>1. /\ r.safety = s.safety /\ r.retries = s.retries
        /\ r.goalInProgress = s.goalInProgress /\ r.goalHandle = s.goalHandle
        /\ r.resultState = s.resultState /\ r.cancelPending = s.cancelPending
        /\ r.cancelTimer = s.cancelTimer /\ r.recoveryInProgress = s.recoveryInProgress
    BY <1>3 DEF SameTask, Base, TaskState
  <2>2. Base(r)
    BY <1>3, <2>1 DEF Base, Goals, Cancels, Waits
  <2>. QED
    BY <1>1, <1>3, <2>1, <2>2
<1>4. s \in TaskState
  BY DEF Base
<1>5. CASE callback = "noop"
  BY <1>1, <1>2, <1>5
<1>6. CASE callback = "idle"
  <2> DEFINE r == [s EXCEPT !.state = "IDLE"]
  <2>1. r \in TaskState /\ r.state = "IDLE" /\ r.calls = s.calls
        /\ SameTask([s EXCEPT !.state = r.state], r)
    BY <1>4 DEF TaskState, State, SameTask
  <2>2. FinishCancel(s, callback) = MaybeStartRecovery(r)
    BY <1>2, <1>6
  <2> HIDE DEF r
  <2>. QED
    BY <1>3, <1>6, <2>1, <2>2
<1>7. CASE callback \in Mode
  <2> DEFINE r == [s EXCEPT !.mode = callback, !.state = "IDLE"]
  <2>1. r \in TaskState /\ r.state = "IDLE" /\ r.calls = s.calls
        /\ SameTask([s EXCEPT !.state = r.state], r)
    BY <1>4, <1>7 DEF TaskState, State, SameTask
  <2>2. FinishCancel(s, callback) = MaybeStartRecovery(r) /\ callback # "noop"
    BY <1>2, <1>7 DEF Mode
  <2> HIDE DEF r
  <2>. QED
    BY <1>3, <2>1, <2>2
<1>. QED
  BY <1>5, <1>6, <1>7

(***************************************************************************)
(* A cancellation leaves the goal with a callback and a timer, or there is *)
(* no goal and the callback has run, or the node has failed.               *)
(***************************************************************************)
Cancelled(s, u, callback) ==
  /\ Book(u) /\ u.retries = s.retries
  /\ u.goalInProgress => u.cancelPending # None
  /\ \/ u.state = s.state /\ u.safety = s.safety /\ u.goalInProgress
     \/ u.state = s.state /\ u.safety = "FAULT" /\ ~u.goalInProgress
     \/ /\ u.state = IF callback = "noop" THEN s.state ELSE "IDLE"
        /\ u.safety = s.safety /\ ~u.goalInProgress

LEMMA RequestCancelBook ==
  ASSUME NEW s, Base(s), Current(s.calls, {"recover"}) = {},
         s.recoveryInProgress => s.safety = "RECOVERY_REQUIRED",
         NEW callback \in {"noop", "idle"} \cup Mode,
         callback = "noop" => s.safety # "NORMAL"
  PROVE  Cancelled(s, RequestCancel(s, callback), callback)
<1> DEFINE quiet == CancelAllTimers(SetVisionMode(s, "OFF", None))
           asked == [quiet EXCEPT !.cancelPending = callback, !.cancelTimer = TRUE]
<1>1. s \in TaskState /\ Waits(s)
  BY DEF Base
<1>2. quiet \in TaskState /\ SameTask(s, quiet) /\ SameCalls(s, quiet) /\ Waits(quiet)
  BY <1>1, QuietFrame
<1>3. RequestCancel(s, callback)
        = IF ~s.goalInProgress THEN FinishCancel(quiet, callback)
          ELSE IF s.goalHandle /\ "robot_task" \notin up THEN ActionFutureException(asked)
          ELSE asked
  BY DEF RequestCancel
<1> HIDE DEF quiet
<1>4. Base(quiet) /\ Current(quiet.calls, {"recover"}) = {}
  BY <1>2, BookKept DEF SameCalls
<1>5. /\ asked \in TaskState /\ asked.calls = quiet.calls
      /\ asked.state = s.state /\ asked.safety = s.safety /\ asked.retries = s.retries
      /\ asked.goalInProgress = s.goalInProgress /\ asked.goalHandle = s.goalHandle
      /\ asked.resultState = s.resultState /\ asked.cancelPending = callback
      /\ asked.cancelTimer = TRUE /\ asked.recoveryInProgress = s.recoveryInProgress
  <2>1. asked \in TaskState
    BY <1>2 DEF TaskState
  <2>2. /\ asked.calls = quiet.calls
        /\ asked.state = quiet.state /\ asked.safety = quiet.safety
        /\ asked.retries = quiet.retries
        /\ asked.goalInProgress = quiet.goalInProgress
        /\ asked.goalHandle = quiet.goalHandle /\ asked.resultState = quiet.resultState
        /\ asked.cancelPending = callback /\ asked.cancelTimer = TRUE
        /\ asked.recoveryInProgress = quiet.recoveryInProgress
    BY <1>2 DEF TaskState
  <2> HIDE DEF asked
  <2>. QED
    BY <1>2, <2>1, <2>2 DEF SameTask
<1> HIDE DEF asked
<1>6. Waits(asked) /\ callback # None
  BY <1>2, <1>5 DEF Waits, Mode, None
<1>7. CASE ~s.goalInProgress
  <2>1. /\ ~quiet.goalInProgress /\ quiet.safety = s.safety /\ quiet.state = s.state
        /\ quiet.retries = s.retries /\ quiet.recoveryInProgress = s.recoveryInProgress
    BY <1>2, <1>7 DEF SameTask
  <2>2. LET u == FinishCancel(quiet, callback)
        IN  /\ Book(u) /\ ~u.goalInProgress
            /\ u.safety = quiet.safety /\ u.retries = quiet.retries
            /\ u.state = IF callback = "noop" THEN quiet.state ELSE "IDLE"
    BY <1>4, <2>1, FinishCancelBook
  <2>. QED
    BY <1>3, <1>7, <2>1, <2>2 DEF Cancelled
<1>8. CASE s.goalInProgress /\ s.goalHandle /\ "robot_task" \notin up
  <2>1. LET u == ActionFutureException(asked)
        IN  /\ Book(u) /\ u.state = asked.state /\ u.retries = asked.retries
            /\ u.safety = "FAULT" /\ ~u.goalInProgress
    BY <1>5, <1>6, ExceptionBook
  <2>. QED
    BY <1>3, <1>5, <1>8, <2>1 DEF Cancelled
<1>9. CASE s.goalInProgress /\ ~(s.goalHandle /\ "robot_task" \notin up)
  <2>1. Goals(asked)
    BY <1>4, <1>5, <1>2 DEF Base, Goals, SameTask
  <2>2. Cancels(asked) /\ Guarded(asked) /\ Recovers(asked)
    BY <1>4, <1>5, <1>6, <1>9 DEF Cancels, Guarded, Recovers
  <2>. QED
    BY <1>3, <1>5, <1>6, <1>9, <2>1, <2>2 DEF Cancelled, Book, Base
<1>. QED
  BY <1>7, <1>8, <1>9

(***************************************************************************)
(* Entering a fault is always possible: it keeps the state and the budget  *)
(* and leaves no goal uncancelled.                                         *)
(***************************************************************************)
LEMMA EnterFaultInv ==
  ASSUME NEW s, Base(s), NEW level \in FaultLevel,
         s.retries > VerifyGraspMaxRetries =>
           /\ s.retries = VerifyGraspMaxRetries + 1
           /\ s.state \in {"VERIFY_GRASP", "IDLE"}
  PROVE  Inv(EnterFault(s, level))
<1> DEFINE r == CaptureResumeSnapshot(s)
           t == [r EXCEPT
       !.recoveryInProgress = FALSE,
       !.calls = Untime(Retire(@, {"recover"}), {"recover", "set_mode"}),
       !.safety = level]
           old == Retire(s.calls, {"recover"})
           calls == Untime(old, {"recover", "set_mode"})
<1>1. s \in TaskState /\ s.calls \in SUBSET Call /\ Waits(s)
  BY DEF Base, TaskState
<1>2. r \in TaskState /\ r.calls = s.calls /\ SameTask(s, r)
  BY <1>1, CaptureType, CaptureFrame
<1>3. EnterFault(s, level) = RequestCancel(t, "noop")
  BY DEF EnterFault
<1> HIDE DEF r
<1>4. old \in SUBSET Call
  BY <1>1, RetireType
<1>5. calls \in SUBSET Call
  BY <1>4, UntimeType
<1>6. /\ Current(calls, GoalKinds) = Current(s.calls, GoalKinds)
      /\ Current(calls, {"get_result"}) = Current(s.calls, {"get_result"})
      /\ Current(calls, {"recover"}) = {}
  <2>1. /\ {"recover"} \cap GoalKinds = {} /\ {"recover"} \cap {"get_result"} = {}
        /\ {"recover", "set_mode"} \cap GoalKinds = {}
        /\ {"recover", "set_mode"} \cap {"get_result"} = {}
    BY DEF GoalKinds
  <2>2. /\ Current(old, GoalKinds) = Current(s.calls, GoalKinds)
        /\ Current(old, {"get_result"}) = Current(s.calls, {"get_result"})
        /\ Current(old, {"recover"}) = {}
    BY <1>1, <2>1, CurrentRetire
  <2> HIDE DEF old
  <2>3. /\ Current(calls, GoalKinds) = Current(old, GoalKinds)
        /\ Current(calls, {"get_result"}) = Current(old, {"get_result"})
    BY <1>4, <2>1, CurrentUntime
  <2>4. Current(calls, {"recover"}) = {}
    BY <1>4, <2>2, CurrentUntime
  <2>. QED
    BY <2>2, <2>3, <2>4
<1>7. \A c \in calls : c.kind = "set_mode" => c.what \in {"MOVE_TO_WATCH", "APPROACH_HAND"}
  BY <1>1, <1>4, WaitsKept DEF Waits
<1>8. /\ t \in TaskState /\ t.calls = calls
      /\ t.state = s.state /\ t.retries = s.retries /\ t.safety = level
      /\ t.goalInProgress = s.goalInProgress /\ t.goalHandle = s.goalHandle
      /\ t.resultState = s.resultState /\ t.cancelPending = s.cancelPending
      /\ t.cancelTimer = s.cancelTimer /\ ~t.recoveryInProgress
  <2>1. t \in TaskState /\ t.calls = calls
    BY <1>2, <1>5 DEF TaskState, Safety
  <2>2. /\ t.state = r.state /\ t.retries = r.retries /\ t.safety = level
        /\ t.goalInProgress = r.goalInProgress /\ t.goalHandle = r.goalHandle
        /\ t.resultState = r.resultState /\ t.cancelPending = r.cancelPending
        /\ t.cancelTimer = r.cancelTimer /\ ~t.recoveryInProgress
    BY <1>2 DEF TaskState
  <2> HIDE DEF t
  <2>. QED
    BY <1>2, <2>1, <2>2 DEF SameTask
<1> HIDE DEF t, calls, old
<1>9. Base(t)
  BY <1>6, <1>7, <1>8 DEF Base, Goals, Cancels, Waits
<1>10. t.safety # "NORMAL" /\ level # "NORMAL" /\ "FAULT" # "NORMAL"
  BY <1>8 DEF FaultLevel
<1> DEFINE u == RequestCancel(t, "noop")
<1>11. Cancelled(t, u, "noop")
  BY <1>6, <1>8, <1>9, <1>10, RequestCancelBook
<1> HIDE DEF u
<1>12. /\ Book(u) /\ u.retries = s.retries /\ u.state = s.state
       /\ u.safety # "NORMAL" /\ (u.goalInProgress => u.cancelPending # None)
  BY <1>8, <1>10, <1>11 DEF Cancelled
<1>13. Budget(u) /\ Watched(u)
  BY <1>12 DEF Budget, Watched
<1>. QED
  BY <1>3, <1>12, <1>13 DEF Inv, u

(***************************************************************************)
(* The stages of a hand-over.  Each starts from sound books and a budget   *)
(* not exceeded, and leaves something to wait for, or a fault.             *)
(***************************************************************************)
LEMMA SendInv ==
  ASSUME NEW s, Book(s), NEW goal \in Goal, s.retries <= VerifyGraspMaxRetries
  PROVE  Inv(SendRobotGoal(s, goal))
<1> DEFINE u == SendRobotGoal(s, goal)
<1>1. /\ Book(u) /\ u.retries = s.retries
      /\ u.goalInProgress \/ u.safety = "FAULT"
  BY SendBook
<1> HIDE DEF u
<1>2. s.retries \in Nat /\ VerifyGraspMaxRetries \in Nat
  BY ConstantsAssumption DEF Book, Base, TaskState
<1>3. Budget(u) /\ Watched(u)
  BY <1>1, <1>2 DEF Budget, Watched
<1>. QED
  BY <1>1, <1>3 DEF Inv, u

LEMMA StartInv ==
  ASSUME NEW s, Book(s), s.retries <= VerifyGraspMaxRetries,
         NEW mode, NEW tool, [mode |-> mode, tool |-> tool] \in VisionRequest,
         s.state \in {"MOVE_TO_WATCH", "APPROACH_HAND"}
  PROVE  Inv(StartAfterVisionMode(s, mode, tool, s.state))
<1> DEFINE t == SetVisionMode(s, mode, tool)
           old == Untime(t.calls, {"set_mode"})
           new == NewCall("set_mode", s.state, TRUE)
           u == [t EXCEPT !.calls = Untime(@, {"set_mode"})
                                      \cup {NewCall("set_mode", s.state, TRUE)}]
<1>1. s \in TaskState /\ Waits(s) /\ s.state \in State /\ s.retries \in Nat
      /\ VerifyGraspMaxRetries \in Nat
  BY ConstantsAssumption DEF Book, Base, TaskState
<1>2. t \in TaskState /\ SameTask(s, t) /\ SameCalls(s, t) /\ Waits(t)
  BY <1>1, SetVisionModeType, SetVisionModeFrame
<1>3. StartAfterVisionMode(s, mode, tool, s.state) \in TaskState
  BY <1>1, StartAfterVisionModeType
<1>4. StartAfterVisionMode(s, mode, tool, s.state)
        = IF "set_mode" \notin up THEN EnterFault(t, "FAULT") ELSE u
  BY DEF StartAfterVisionMode
<1> HIDE DEF t
<1>5. Book(t) /\ Base(t) /\ t.retries = s.retries /\ t.state = s.state
  BY <1>2, BookKept DEF SameTask, Book
<1>6. CASE "set_mode" \notin up
  <2>1. "FAULT" \in FaultLevel
    BY DEF FaultLevel
  <2>. QED
    BY <1>1, <1>4, <1>5, <1>6, <2>1, EnterFaultInv
<1>7. CASE "set_mode" \in up
  <2>1. t.calls \in SUBSET Call
    BY <1>2 DEF TaskState
  <2>2. /\ u.calls = old \cup {new}
        /\ SameTask(t, u) /\ u.detectTimer = t.detectTimer
    BY <1>2 DEF SameTask, TaskState
  <2>3. SameCalls(t, u)
    <3>1. /\ {"set_mode"} \cap GoalKinds = {} /\ {"set_mode"} \cap {"get_result"} = {}
          /\ {"set_mode"} \cap {"recover"} = {}
      BY DEF GoalKinds
    <3>2. /\ Current(old, GoalKinds) = Current(t.calls, GoalKinds)
          /\ Current(old, {"get_result"}) = Current(t.calls, {"get_result"})
          /\ Current(old, {"recover"}) = Current(t.calls, {"recover"})
      BY <2>1, <3>1, CurrentUntime
    <3> HIDE DEF old, u
    <3>3. /\ Current(old \cup {new}, GoalKinds) = Current(old, GoalKinds)
          /\ Current(old \cup {new}, {"get_result"}) = Current(old, {"get_result"})
          /\ Current(old \cup {new}, {"recover"}) = Current(old, {"recover"})
      BY CurrentAsked
    <3>. QED
      BY <2>2, <3>2, <3>3 DEF SameCalls
  <2>4. Waits(u)
    <3>1. \A c \in old : c.kind = "set_mode" => c.what \in {"MOVE_TO_WATCH", "APPROACH_HAND"}
      BY <1>2, <2>1, WaitsKept DEF Waits
    <3>2. new.what = s.state
      BY DEF NewCall
    <3> HIDE DEF old, new, u
    <3>. QED
      BY <2>2, <3>1, <3>2 DEF Waits
  <2>5. new \in Current(u.calls, {"set_mode"}) /\ new.what = s.state /\ new.timed
    BY <2>2 DEF Current, NewCall
  <2>6. u \in TaskState
    BY <1>3, <1>4, <1>7
  <2> HIDE DEF u, new, old
  <2>7. Book(u)
    BY <1>5, <2>3, <2>2, <2>4, <2>6, BookKept
  <2>8. u.retries = s.retries /\ u.state = s.state
    BY <1>5, <2>2 DEF SameTask
  <2>9. Budget(u) /\ Watched(u)
    BY <1>1, <2>5, <2>8 DEF Budget, Watched
  <2>. QED
    BY <1>4, <1>7, <2>7, <2>9 DEF Inv
<1>. QED
  BY <1>6, <1>7

\* Changing these attributes changes no book.
SameBooks(s, u) ==
  /\ u.safety = s.safety /\ u.retries = s.retries
  /\ u.goalInProgress = s.goalInProgress /\ u.goalHandle = s.goalHandle
  /\ u.resultState = s.resultState
  /\ u.cancelPending = s.cancelPending /\ u.cancelTimer = s.cancelTimer
  /\ u.recoveryInProgress = s.recoveryInProgress
  /\ u.calls = s.calls

LEMMA BooksKept ==
  ASSUME NEW s, NEW u \in TaskState, SameBooks(s, u)
  PROVE  /\ Base(s) => Base(u)
         /\ Book(s) => Book(u)
BY DEF SameBooks, Base, Book, Goals, Cancels, Guarded, Recovers, Waits

LEMMA StageInv ==
  ASSUME NEW s, Book(s), s.retries <= VerifyGraspMaxRetries
  PROVE  /\ Inv(EnterDetectTrack(s))
         /\ Inv(EnterMoveSafe(s))
         /\ Inv(EnterApproachHand(s))
         /\ Inv(EnterWaitPull(s))
         /\ s.state \in {"VERIFY_GRASP", "IDLE"} => Inv(RetryGrasp(s))
<1>1. s \in TaskState /\ s.retries \in Nat /\ VerifyGraspMaxRetries \in Nat
  BY ConstantsAssumption DEF Book, Base, TaskState
<1>2. ASSUME NEW state \in State
      PROVE  LET u == [s EXCEPT !.state = state]
             IN  Book(u) /\ u.retries <= VerifyGraspMaxRetries /\ u.state = state
  <2> DEFINE u == [s EXCEPT !.state = state]
  <2>1. u \in TaskState /\ SameBooks(s, u) /\ u.state = state /\ u.retries = s.retries
    BY <1>1 DEF TaskState, SameBooks
  <2> HIDE DEF u
  <2>2. Book(u) /\ u.retries <= VerifyGraspMaxRetries /\ u.state = state
    BY <2>1, BooksKept
  <2>. QED
    BY <2>2 DEF u
<1>3. /\ {"MOVE_SAFE", "APPROACH_HAND", "VERIFY_GRASP", "DETECT_TRACK"} \subseteq State
      /\ {"handover_safe", "handover_hold", "release_and_retry"} \subseteq Goal
      /\ "FAULT" \in FaultLevel
  BY DEF State, Goal, FaultLevel
<1>4. Inv(EnterDetectTrack(s))
  <2> DEFINE u == EnterDetectTrack(s)
  <2>1. /\ u \in TaskState /\ SameBooks(s, u) /\ u.retries = s.retries
        /\ u.state = "DETECT_TRACK" /\ u.detectTimer
    BY <1>1 DEF EnterDetectTrack, TaskState, State, SameBooks
  <2> HIDE DEF u
  <2>2. Book(u)
    BY <2>1, BooksKept
  <2>3. Budget(u) /\ Watched(u)
    BY <1>1, <2>1 DEF Budget, Watched
  <2>. QED
    BY <2>2, <2>3 DEF Inv, u
<1>5. Inv(EnterMoveSafe(s))
  BY <1>2, <1>3, SendInv DEF EnterMoveSafe
<1>6. Inv(EnterApproachHand(s))
  <2> DEFINE u == [s EXCEPT !.state = "APPROACH_HAND"]
  <2>1. Book(u) /\ u.retries <= VerifyGraspMaxRetries /\ u.state = "APPROACH_HAND"
    BY <1>2, <1>3
  <2>2. EnterApproachHand(s) = StartAfterVisionMode(u, "TRACK_HAND", None, u.state)
    BY <2>1 DEF EnterApproachHand
  <2> HIDE DEF u
  <2>. QED
    BY <2>1, <2>2, RequestTypes, StartInv
<1>7. Inv(EnterWaitPull(s))
  <2> DEFINE u == [s EXCEPT !.state = "WAIT_PULL", !.waitPullTimer = "timeout"]
  <2>1. u \in TaskState /\ SameBooks(s, u) /\ u.retries = s.retries
    BY <1>1 DEF TaskState, State, SameBooks
  <2>2. EnterWaitPull(s) = SendRobotGoal(u, "handover_hold")
    BY DEF EnterWaitPull
  <2> HIDE DEF u
  <2>3. Book(u)
    BY <2>1, BooksKept
  <2>. QED
    BY <1>3, <2>1, <2>2, <2>3, SendInv
<1>8. ASSUME s.state \in {"VERIFY_GRASP", "IDLE"} PROVE Inv(RetryGrasp(s))
  <2> DEFINE t == [s EXCEPT !.retries = @ + 1]
             u == [t EXCEPT !.state = "VERIFY_GRASP"]
  <2>1. t \in TaskState /\ t.retries = s.retries + 1 /\ t.state = s.state
    BY <1>1 DEF TaskState
  <2>2. Book(t)
    <3>1. /\ t.safety = s.safety
          /\ t.goalInProgress = s.goalInProgress /\ t.goalHandle = s.goalHandle
          /\ t.resultState = s.resultState
          /\ t.cancelPending = s.cancelPending /\ t.cancelTimer = s.cancelTimer
          /\ t.recoveryInProgress = s.recoveryInProgress /\ t.calls = s.calls
      BY <1>1 DEF TaskState
    <3> HIDE DEF t
    <3>. QED
      BY <2>1, <3>1 DEF Book, Base, Goals, Cancels, Guarded, Recovers, Waits
  <2>3. RetryGrasp(s) = IF t.retries > VerifyGraspMaxRetries THEN EnterFault(t, "FAULT")
                        ELSE SendRobotGoal(u, "release_and_retry")
    BY DEF RetryGrasp
  <2> HIDE DEF t
  <2>4. u \in TaskState /\ SameBooks(t, u) /\ u.retries = t.retries
    BY <2>1 DEF TaskState, State, SameBooks
  <2> HIDE DEF u
  <2>5. Book(u)
    BY <2>2, <2>4, BooksKept
  <2>6. CASE t.retries > VerifyGraspMaxRetries
    <3>1. t.retries = VerifyGraspMaxRetries + 1 /\ t.state \in {"VERIFY_GRASP", "IDLE"}
      BY <1>1, <1>8, <2>1, <2>6
    <3>. QED
      BY <1>3, <2>2, <2>3, <2>6, <3>1, EnterFaultInv DEF Book
  <2>7. CASE ~(t.retries > VerifyGraspMaxRetries)
    <3>1. u.retries <= VerifyGraspMaxRetries
      BY <1>1, <2>1, <2>4, <2>7
    <3>. QED
      BY <1>3, <2>3, <2>5, <2>7, <3>1, SendInv
  <2>. QED
    BY <2>6, <2>7
<1>. QED
  BY <1>4, <1>5, <1>6, <1>7, <1>8

LEMMA IdleInv ==
  ASSUME NEW s, Book(s), s.retries <= VerifyGraspMaxRetries,
         NEW u \in TaskState, SameBooks(s, u), u.state = "IDLE"
  PROVE  Inv(u)
<1>1. Book(u)
  BY BooksKept
<1>2. u.retries \in Nat /\ VerifyGraspMaxRetries \in Nat /\ u.retries <= VerifyGraspMaxRetries
  BY ConstantsAssumption DEF SameBooks, TaskState
<1>. QED
  BY <1>1, <1>2 DEF Inv, Budget, Watched

LEMMA FaultInv ==
  ASSUME NEW s, Book(s), s.retries <= VerifyGraspMaxRetries
  PROVE  Inv(EnterFault(s, "FAULT"))
<1>1. "FAULT" \in FaultLevel /\ s.retries \in Nat /\ VerifyGraspMaxRetries \in Nat
  BY ConstantsAssumption DEF FaultLevel, Book, Base, TaskState
<1>. QED
  BY <1>1, EnterFaultInv DEF Book

LEMMA HandleResultInv ==
  ASSUME NEW s, Book(s), s.retries <= VerifyGraspMaxRetries, NEW sender, NEW outcome
  PROVE  Inv(HandleResult(s, sender, outcome))
<1>1. s \in TaskState
  BY DEF Book, Base
<1>2. Inv(EnterFault(s, "FAULT"))
  BY FaultInv
<1>3. Inv(HandleServoPickResult(s, outcome))
  <2> DEFINE v == [s EXCEPT !.state = "VERIFY_GRASP"]
  <2>1. v \in TaskState /\ SameBooks(s, v) /\ v.state = "VERIFY_GRASP" /\ v.retries = s.retries
    BY <1>1 DEF TaskState, State, SameBooks
  <2>2. HandleServoPickResult(s, outcome) \in
          {EnterDetectTrack(s), EnterFault(s, "FAULT"), EnterMoveSafe(s), RetryGrasp(v)}
    BY DEF HandleServoPickResult
  <2> HIDE DEF v
  <2>3. Inv(RetryGrasp(v))
    BY <2>1, BooksKept, StageInv
  <2>. QED
    BY <1>2, <2>2, <2>3, StageInv
<1>4. Inv(HandleWaitPullResult(s, outcome))
  <2> DEFINE t == [s EXCEPT !.waitPullTimer = "off"]
             h == [t EXCEPT !.state = "HOME"]
             v == SetVisionMode(h, "OFF", None)
  <2>1. t \in TaskState /\ SameBooks(s, t) /\ t.retries = s.retries
    BY <1>1 DEF TaskState, SameBooks
  <2>2. HandleWaitPullResult(s, outcome)
          = IF outcome # "ok" THEN EnterFault(t, "FAULT") ELSE SendRobotGoal(v, "home")
    BY DEF HandleWaitPullResult
  <2> HIDE DEF t
  <2>3. Book(t) /\ t.retries <= VerifyGraspMaxRetries
    BY <2>1, BooksKept
  <2>4. h \in TaskState /\ SameBooks(t, h) /\ h.retries = t.retries
    BY <2>1 DEF TaskState, State, SameBooks
  <2> HIDE DEF h
  <2>5. Book(h) /\ Waits(h)
    BY <2>3, <2>4, BooksKept DEF Book, Base
  <2>6. v \in TaskState /\ SameTask(h, v) /\ SameCalls(h, v) /\ Waits(v)
    BY <2>4, <2>5, SetVisionModeType, SetVisionModeFrame, RequestTypes
  <2> HIDE DEF v
  <2>7. Book(v) /\ v.retries <= VerifyGraspMaxRetries
    BY <2>3, <2>4, <2>5, <2>6, BookKept DEF SameTask
  <2>8. Inv(SendRobotGoal(v, "home"))
    BY <2>7, SendInv DEF Goal, NamedTarget
  <2>9. Inv(EnterFault(t, "FAULT"))
    BY <2>3, FaultInv
  <2>. QED
    BY <2>2, <2>8, <2>9
<1>5. Inv(FinishTask(s))
  <2> DEFINE u == FinishTask(s)
  <2>1. u \in TaskState /\ SameBooks(s, u) /\ u.state = "IDLE"
    BY <1>1, SnapshotTypes DEF FinishTask, TaskState, State, SameBooks
  <2> HIDE DEF u
  <2>2. Inv(u)
    BY <2>1, IdleInv
  <2>. QED
    BY <2>2 DEF u
<1>6. Inv([s EXCEPT !.state = "IDLE"])
  <2> DEFINE u == [s EXCEPT !.state = "IDLE"]
  <2>1. u \in TaskState /\ SameBooks(s, u) /\ u.state = "IDLE"
    BY <1>1 DEF TaskState, State, SameBooks
  <2> HIDE DEF u
  <2>2. Inv(u)
    BY <2>1, IdleInv
  <2>. QED
    BY <2>2 DEF u
<1>7. HandleResult(s, sender, outcome) \in
        {HandleServoPickResult(s, outcome), HandleWaitPullResult(s, outcome),
         EnterFault(s, "FAULT"), EnterDetectTrack(s), EnterApproachHand(s), EnterWaitPull(s),
         FinishTask(s), [s EXCEPT !.state = "IDLE"]}
  BY DEF HandleResult
<1>. QED
  BY <1>2, <1>3, <1>4, <1>5, <1>6, <1>7, StageInv

LEMMA ResumeInv ==
  ASSUME NEW s, Inv(s), s.state = "IDLE", s.safety = "NORMAL", NEW snapshot \in Snapshot
  PROVE  Inv(ResumeFrom(s, snapshot))
<1> DEFINE t == [ClearResumeSnapshot(s) EXCEPT !.tool = snapshot.tool]
           c == [t EXCEPT !.spec = snapshot.spec]
           d == [t EXCEPT !.tool = None]
<1>1. /\ s \in TaskState /\ Book(s) /\ s.retries \in Nat /\ VerifyGraspMaxRetries \in Nat
      /\ s.retries <= VerifyGraspMaxRetries
  <2>1. s \in TaskState /\ Book(s) /\ s.retries \in Nat /\ VerifyGraspMaxRetries \in Nat
    BY ConstantsAssumption DEF Inv, Book, Base, TaskState
  <2>2. ~(s.retries > VerifyGraspMaxRetries)
    BY DEF Inv, Budget
  <2>. QED
    BY <2>1, <2>2
<1>2. ResumeFrom(s, snapshot) \in
        {EnterMoveSafe(c), EnterApproachHand(c), EnterWaitPull(c), RetryGrasp(t), RetryGrasp(d)}
  BY DEF ResumeFrom
<1>3. t \in TaskState /\ SameBooks(s, t) /\ t.state = "IDLE" /\ t.retries = s.retries
  <2> DEFINE r == ClearResumeSnapshot(s)
  <2>1. r \in TaskState /\ SameBooks(s, r) /\ r.state = "IDLE" /\ r.retries = s.retries
    BY <1>1, SnapshotTypes DEF ClearResumeSnapshot, TaskState, SameBooks
  <2> HIDE DEF r
  <2>2. snapshot.tool \in ToolOrNone
    BY DEF Snapshot
  <2>3. t \in TaskState /\ SameBooks(r, t) /\ t.state = r.state /\ t.retries = r.retries
    BY <2>1, <2>2 DEF TaskState, SameBooks, r
  <2>. QED
    BY <2>1, <2>3 DEF SameBooks
<1> HIDE DEF t
<1>4. Book(t) /\ t.retries <= VerifyGraspMaxRetries
  BY <1>1, <1>3, BooksKept
<1>5. Book(c) /\ c.retries <= VerifyGraspMaxRetries
  <2>1. snapshot.spec \in ToolOrNone
    BY DEF Snapshot
  <2>2. c \in TaskState /\ SameBooks(t, c) /\ c.retries = t.retries
    BY <1>3, <2>1 DEF TaskState, SameBooks
  <2> HIDE DEF c
  <2>. QED
    BY <1>4, <2>2, BooksKept
<1>6. Book(d) /\ d.retries <= VerifyGraspMaxRetries /\ d.state = "IDLE"
  <2>1. d \in TaskState /\ SameBooks(t, d) /\ d.retries = t.retries /\ d.state = t.state
    BY <1>3, SnapshotTypes DEF TaskState, SameBooks
  <2> HIDE DEF d
  <2>. QED
    BY <1>3, <1>4, <2>1, BooksKept
<1> HIDE DEF c, d
<1>. QED
  BY <1>2, <1>3, <1>4, <1>5, <1>6, StageInv

(***************************************************************************)
(* Replies.  A reply is taken off the calls first; one of an earlier       *)
(* generation changes nothing else.                                        *)
(***************************************************************************)
LEMMA SettleFrame ==
  ASSUME NEW s \in TaskState, NEW c
  PROVE  LET u == Settle(s, c)
         IN  /\ u \in TaskState /\ u.calls = s.calls \ {c}
             /\ SameTask(s, u) /\ u.detectTimer = s.detectTimer
             /\ \A kinds : Current(u.calls, kinds) = Current(s.calls, kinds) \ {c}
<1> DEFINE u == Settle(s, c)
<1>1. u \in TaskState
  BY SettleType
<1>2. u.calls = s.calls \ {c} /\ SameTask(s, u) /\ u.detectTimer = s.detectTimer
  <2>1. u = [s EXCEPT !.calls = s.calls \ {c}]
    BY DEF Settle
  <2>. QED
    BY <2>1 DEF TaskState, SameTask
<1> HIDE DEF u
<1>3. \A kinds : Current(u.calls, kinds) = Current(s.calls, kinds) \ {c}
  BY ZenonT(60), <1>2, CurrentLess
<1>. QED
  BY <1>1, <1>2, <1>3 DEF u

LEMMA StaleInv ==
  ASSUME NEW s, Inv(s), NEW c, ~c.current
  PROVE  Inv(Settle(s, c))
<1> DEFINE u == Settle(s, c)
<1>1. s \in TaskState
  BY DEF Inv, Book, Base
<1>2. /\ u \in TaskState /\ u.calls = s.calls \ {c}
      /\ SameTask(s, u) /\ u.detectTimer = s.detectTimer
      /\ \A kinds : Current(u.calls, kinds) = Current(s.calls, kinds) \ {c}
  BY <1>1, SettleFrame
<1> HIDE DEF u
<1>3. \A kinds : Current(u.calls, kinds) = Current(s.calls, kinds)
  BY <1>2 DEF Current
<1>4. SameCalls(s, u) /\ Waits(u)
  BY <1>2, <1>3 DEF SameCalls, Waits, Inv, Book, Base
<1>5. Book(u)
  BY <1>2, <1>4, BookKept DEF Inv
<1>6. Budget(u) /\ Watched(u)
  BY <1>2, <1>3 DEF Inv, Budget, Watched, SameTask
<1>. QED
  BY <1>5, <1>6 DEF Inv, u

\* The last reply of the goal in progress: the goal is gone, and so is the cancellation
\* it confirms.
GoalGone(s, c) ==
  [Settle(s, c) EXCEPT !.goalInProgress = FALSE, !.goalHandle = FALSE, !.resultState = None]
CancelGone(t) == [t EXCEPT !.cancelTimer = FALSE, !.cancelPending = None]

LEMMA GoalGoneBook ==
  ASSUME NEW s, Inv(s), NEW c \in Current(s.calls, GoalKinds)
  PROVE  LET t == GoalGone(s, c)
             v == CancelGone(t)
         IN  /\ s.cancelPending = None => Book(t) /\ t.retries <= VerifyGraspMaxRetries
             /\ s.cancelPending # None =>
                  /\ Base(v) /\ ~v.goalInProgress /\ Current(v.calls, {"recover"}) = {}
                  /\ v.recoveryInProgress => v.safety = "RECOVERY_REQUIRED"
             /\ v.state = s.state /\ v.safety = s.safety /\ v.retries = s.retries
<1> DEFINE r == Settle(s, c)
           t == GoalGone(s, c)
           v == CancelGone(t)
<1>1. s \in TaskState /\ Book(s) /\ Goals(s) /\ Cancels(s) /\ Recovers(s) /\ Waits(s)
  BY DEF Inv, Book, Base
<1>2. /\ r \in TaskState /\ r.calls = s.calls \ {c} /\ SameTask(s, r)
      /\ \A kinds : Current(r.calls, kinds) = Current(s.calls, kinds) \ {c}
  BY <1>1, SettleFrame
<1> HIDE DEF r
<1>3. Current(s.calls, GoalKinds) = {c} /\ s.goalInProgress
  BY <1>1 DEF Goals
<1>4. /\ Current(r.calls, GoalKinds) = {} /\ Current(r.calls, {"get_result"}) = {}
      /\ Current(r.calls, {"recover"}) = Current(s.calls, {"recover"})
  <2>1. c.kind \in GoalKinds /\ c.kind # "recover"
    BY DEF Current, GoalKinds
  <2>2. Current(s.calls, {"get_result"}) \subseteq {c}
    BY <1>3 DEF Current, GoalKinds
  <2>3. c \notin Current(s.calls, {"recover"})
    BY <2>1 DEF Current
  <2>. QED
    BY <1>2, <1>3, <2>2, <2>3
<1>5. /\ t \in TaskState /\ t.calls = r.calls
      /\ t.state = s.state /\ t.safety = s.safety /\ t.retries = s.retries
      /\ ~t.goalInProgress /\ ~t.goalHandle /\ t.resultState = None
      /\ t.cancelPending = s.cancelPending /\ t.cancelTimer = s.cancelTimer
      /\ t.recoveryInProgress = s.recoveryInProgress
  <2>1. /\ t \in TaskState /\ t.calls = r.calls
        /\ t.state = r.state /\ t.safety = r.safety /\ t.retries = r.retries
        /\ ~t.goalInProgress /\ ~t.goalHandle /\ t.resultState = None
        /\ t.cancelPending = r.cancelPending /\ t.cancelTimer = r.cancelTimer
        /\ t.recoveryInProgress = r.recoveryInProgress
    <3>1. t = [r EXCEPT !.goalInProgress = FALSE, !.goalHandle = FALSE, !.resultState = None]
      BY DEF r, GoalGone
    <3> HIDE DEF t
    <3>2. t \in TaskState
      BY <1>2, <3>1 DEF TaskState
    <3>3. /\ t.calls = r.calls
          /\ t.state = r.state /\ t.safety = r.safety /\ t.retries = r.retries
          /\ ~t.goalInProgress /\ ~t.goalHandle /\ t.resultState = None
          /\ t.cancelPending = r.cancelPending /\ t.cancelTimer = r.cancelTimer
          /\ t.recoveryInProgress = r.recoveryInProgress
      BY <1>2, <3>1 DEF TaskState
    <3>. QED
      BY <3>2, <3>3
  <2> HIDE DEF t
  <2>. QED
    BY <1>2, <2>1 DEF SameTask
<1>6. Waits(t)
  BY <1>1, <1>2, <1>5 DEF Waits
<1> HIDE DEF t
<1>7. /\ v \in TaskState /\ v.calls = t.calls
      /\ v.state = t.state /\ v.safety = t.safety /\ v.retries = t.retries
      /\ v.goalInProgress = t.goalInProgress /\ v.goalHandle = t.goalHandle
      /\ v.resultState = t.resultState
      /\ v.cancelPending = None /\ ~v.cancelTimer
      /\ v.recoveryInProgress = t.recoveryInProgress
  <2>1. v \in TaskState
    BY ZenonT(60), <1>5 DEF TaskState, CancelGone
  <2>2. /\ v.calls = t.calls
        /\ v.state = t.state /\ v.safety = t.safety /\ v.retries = t.retries
        /\ v.goalInProgress = t.goalInProgress /\ v.goalHandle = t.goalHandle
        /\ v.resultState = t.resultState
        /\ v.cancelPending = None /\ ~v.cancelTimer
        /\ v.recoveryInProgress = t.recoveryInProgress
    BY <1>5 DEF TaskState, CancelGone
  <2>. QED
    BY <2>1, <2>2
<1> HIDE DEF v
<1>8. ASSUME s.cancelPending = None
      PROVE  Book(t) /\ t.retries <= VerifyGraspMaxRetries
  <2>1. Goals(t) /\ Cancels(t) /\ Guarded(t) /\ Recovers(t)
    BY <1>1, <1>4, <1>5, <1>8 DEF Goals, Cancels, Guarded, Recovers
  <2>2. s.retries \in Nat /\ VerifyGraspMaxRetries \in Nat
    BY <1>1, ConstantsAssumption DEF TaskState
  <2>3. ~(s.retries > VerifyGraspMaxRetries)
    BY <1>3, <1>8 DEF Inv, Budget
  <2>. QED
    BY <1>5, <1>6, <2>1, <2>2, <2>3 DEF Book, Base
<1>9. ASSUME s.cancelPending # None
      PROVE  /\ Base(v) /\ ~v.goalInProgress /\ Current(v.calls, {"recover"}) = {}
             /\ v.recoveryInProgress => v.safety = "RECOVERY_REQUIRED"
  <2>1. Current(s.calls, {"recover"}) = {}
    BY <1>1, <1>9 DEF Recovers
  <2>2. Goals(v) /\ Cancels(v) /\ Waits(v)
    BY <1>4, <1>5, <1>6, <1>7 DEF Goals, Cancels, Waits
  <2>3. v.recoveryInProgress => v.safety = "RECOVERY_REQUIRED"
    BY <1>1, <1>5, <1>7 DEF Recovers
  <2>. QED
    BY <1>4, <1>5, <1>7, <2>1, <2>2, <2>3 DEF Base
<1>10. v.state = s.state /\ v.safety = s.safety /\ v.retries = s.retries
  BY <1>5, <1>7
<1>. QED
  BY <1>8, <1>9, <1>10 DEF t, v

\* A confirmed cancellation.
LEMMA ConfirmedInv ==
  ASSUME NEW s, Inv(s), s.cancelPending # None, NEW c \in Current(s.calls, GoalKinds)
  PROVE  Inv(FinishCancel(CancelGone(GoalGone(s, c)), s.cancelPending))
<1> DEFINE v == CancelGone(GoalGone(s, c))
           u == FinishCancel(v, s.cancelPending)
<1>1. /\ Base(v) /\ ~v.goalInProgress /\ Current(v.calls, {"recover"}) = {}
      /\ v.recoveryInProgress => v.safety = "RECOVERY_REQUIRED"
      /\ v.state = s.state /\ v.safety = s.safety /\ v.retries = s.retries
  BY GoalGoneBook
<1> HIDE DEF v
<1>2. s.cancelPending \in {"noop", "idle"} \cup Mode
  BY DEF Inv, Book, Base, TaskState
<1>3. /\ Book(u) /\ ~u.goalInProgress
      /\ u.safety = v.safety /\ u.retries = v.retries
      /\ u.state = IF s.cancelPending = "noop" THEN v.state ELSE "IDLE"
  BY <1>1, <1>2, FinishCancelBook
<1> HIDE DEF u
<1>4. Budget(u)
  BY <1>1, <1>3 DEF Inv, Budget
<1>5. Watched(u)
  BY <1>1, <1>3 DEF Inv, Book, Guarded, Watched
<1>. QED
  BY <1>3, <1>4, <1>5 DEF Inv, u, v

LEMMA GoalReplyInv ==
  ASSUME NEW s, Inv(s), NEW c \in Current(s.calls, GoalKinds), NEW outcome
  PROVE  /\ Inv(RobotResult(Settle(s, c), outcome))
         /\ Inv(GoalRejected(Settle(s, c)))
<1> DEFINE r == Settle(s, c)
           t == GoalGone(s, c)
           v == CancelGone(t)
           sender == IF r.resultState = None THEN t.state ELSE r.resultState
<1>1. s \in TaskState
  BY DEF Inv, Book, Base
<1>2. r.cancelPending = s.cancelPending
  BY <1>1 DEF Settle, TaskState
<1>3. /\ t = [r EXCEPT !.goalInProgress = FALSE, !.goalHandle = FALSE, !.resultState = None]
      /\ v = [t EXCEPT !.cancelTimer = FALSE, !.cancelPending = None]
  BY DEF GoalGone, CancelGone
<1>4. /\ s.cancelPending # None => Inv(FinishCancel(v, s.cancelPending))
      /\ s.cancelPending = None => Book(t) /\ t.retries <= VerifyGraspMaxRetries
  BY ConfirmedInv, GoalGoneBook
<1> HIDE DEF v
<1>5. ASSUME s.cancelPending = None, NEW sent
      PROVE  Inv(HandleResult(t, sent, outcome)) /\ Inv(EnterFault(t, "FAULT"))
  BY <1>4, <1>5, HandleResultInv, FaultInv
<1> HIDE DEF r, t
<1>6. RobotResult(r, outcome)
        = IF s.cancelPending # None THEN FinishCancel(v, s.cancelPending)
          ELSE HandleResult(t, IF r.resultState = None THEN r.state ELSE r.resultState, outcome)
  BY <1>2, <1>3 DEF RobotResult
<1>7. GoalRejected(r) = IF s.cancelPending # None THEN FinishCancel(v, s.cancelPending)
                        ELSE EnterFault(t, "FAULT")
  BY <1>2, <1>3 DEF GoalRejected
<1>. QED
  BY <1>4, <1>5, <1>6, <1>7 DEF r

\* The action client raised.
LEMMA ExceptionInv ==
  ASSUME NEW s, Inv(s), NEW t \in TaskState, Waits(t),
         t.state = s.state, t.retries = s.retries, t.safety = s.safety
  PROVE  Inv(ActionFutureException(t))
<1> DEFINE u == ActionFutureException(t)
<1>1. /\ Book(u) /\ u.state = s.state /\ u.retries = s.retries
      /\ u.safety = "FAULT" /\ ~u.goalInProgress
  BY ExceptionBook
<1> HIDE DEF u
<1>2. Budget(u) /\ Watched(u)
  BY <1>1 DEF Inv, Budget, Watched
<1>. QED
  BY <1>1, <1>2 DEF Inv, u

LEMMA SettledExceptionInv ==
  ASSUME NEW s, Inv(s), NEW c
  PROVE  Inv(ActionFutureException(Settle(s, c)))
<1> DEFINE t == Settle(s, c)
<1>1. t \in TaskState /\ t.calls = s.calls \ {c} /\ SameTask(s, t)
  BY SettleFrame DEF Inv, Book, Base
<1> HIDE DEF t
<1>2. Waits(t)
  BY <1>1 DEF Inv, Book, Base, Waits
<1>3. Inv(ActionFutureException(t))
  BY <1>1, <1>2, ExceptionInv DEF SameTask
<1>. QED
  BY <1>3 DEF t

LEMMA GoalAcceptedInv ==
  ASSUME NEW s, Inv(s), NEW c \in Current(s.calls, {"send_goal"}), NEW goal \in Goal \cup State \cup {None}
  PROVE  Inv(GoalAccepted(Settle(s, c), goal))
<1> DEFINE r == Settle(s, c)
           t == [r EXCEPT !.goalHandle = TRUE]
           new == NewCall("get_result", goal, FALSE)
           u == [t EXCEPT !.calls = @ \cup {NewCall("get_result", goal, FALSE)}]
<1>1. s \in TaskState /\ Goals(s) /\ Cancels(s) /\ Guarded(s) /\ Recovers(s) /\ Waits(s)
  BY DEF Inv, Book, Base
<1>2. /\ r \in TaskState /\ r.calls = s.calls \ {c} /\ SameTask(s, r)
      /\ \A kinds : Current(r.calls, kinds) = Current(s.calls, kinds) \ {c}
  BY <1>1, SettleFrame
<1> HIDE DEF r
<1>3. /\ t \in TaskState /\ t.calls = r.calls /\ t.goalHandle = TRUE
      /\ t.state = r.state /\ t.safety = r.safety /\ t.retries = r.retries
      /\ t.goalInProgress = r.goalInProgress /\ t.resultState = r.resultState
      /\ t.cancelPending = r.cancelPending /\ t.cancelTimer = r.cancelTimer
      /\ t.recoveryInProgress = r.recoveryInProgress
  BY <1>2 DEF TaskState
<1>4. GoalAccepted(r, goal) = IF "robot_task" \notin up THEN ActionFutureException(t) ELSE u
  BY DEF GoalAccepted
<1>5. u \in TaskState
  <2>1. new \in Call
    BY NewCallType
  <2> HIDE DEF t, new
  <2>2. t \in TaskState /\ u = [t EXCEPT !.calls = t.calls \cup {new}]
    BY <1>3 DEF new
  <2>3. t.calls \cup {new} \in SUBSET Call
    BY <2>1, <2>2 DEF TaskState
  <2>. QED
    BY ZenonT(60), <2>2, <2>3 DEF TaskState
<1> HIDE DEF t
<1>6. Waits(t)
  BY <1>1, <1>2, <1>3 DEF Waits
<1>7. CASE "robot_task" \notin up
  BY <1>2, <1>3, <1>4, <1>6, <1>7, ExceptionInv DEF SameTask, r
<1>8. CASE "robot_task" \in up
  <2>1. /\ u.calls = t.calls \cup {new} /\ u.goalHandle = TRUE
        /\ u.state = t.state /\ u.safety = t.safety /\ u.retries = t.retries
        /\ u.goalInProgress = t.goalInProgress /\ u.resultState = t.resultState
        /\ u.cancelPending = t.cancelPending /\ u.cancelTimer = t.cancelTimer
        /\ u.recoveryInProgress = t.recoveryInProgress
    BY <1>3 DEF TaskState
  <2>2. u \in TaskState
    BY <1>5
  <2>3. new.kind = "get_result"
    BY DEF NewCall
  <2> HIDE DEF u
  <2>4. /\ Current(t.calls, GoalKinds) = {} /\ Current(t.calls, {"get_result"}) = {}
        /\ Current(t.calls, {"recover"}) = Current(s.calls, {"recover"})
        /\ s.goalInProgress
    <3>1. c \in Current(s.calls, GoalKinds) /\ c.kind = "send_goal"
      BY DEF Current, GoalKinds
    <3>2. Current(s.calls, GoalKinds) = {c} /\ s.goalInProgress
      BY <1>1, <3>1 DEF Goals
    <3>3. Current(s.calls, {"get_result"}) \subseteq Current(s.calls, GoalKinds)
      BY DEF Current, GoalKinds
    <3>4. c \notin Current(s.calls, {"recover"})
      BY <3>1 DEF Current
    <3>. QED
      BY <1>2, <1>3, <3>2, <3>3, <3>4
  <2>5. /\ Current(u.calls, GoalKinds) = {new} /\ Current(u.calls, {"get_result"}) = {new}
        /\ Current(u.calls, {"recover"}) = Current(s.calls, {"recover"})
    <3>1. /\ Current(t.calls \cup {new}, GoalKinds) = Current(t.calls, GoalKinds) \cup {new}
          /\ Current(t.calls \cup {new}, {"get_result"})
               = Current(t.calls, {"get_result"}) \cup {new}
          /\ Current(t.calls \cup {new}, {"recover"}) = Current(t.calls, {"recover"})
      BY CurrentAccepted
    <3> HIDE DEF new
    <3>. QED
      BY <2>1, <2>4, <3>1
  <2> HIDE DEF new
  <2>6. Waits(u)
    BY <1>6, <2>1, <2>3 DEF Waits
  <2>7. /\ u.state = s.state /\ u.safety = s.safety /\ u.retries = s.retries
        /\ u.goalInProgress = s.goalInProgress /\ u.resultState = s.resultState
        /\ u.cancelPending = s.cancelPending /\ u.cancelTimer = s.cancelTimer
        /\ u.recoveryInProgress = s.recoveryInProgress
    BY <1>2, <1>3, <2>1 DEF SameTask
  <2>8. Goals(u) /\ Cancels(u) /\ Guarded(u) /\ Recovers(u)
    BY <1>1, <2>1, <2>4, <2>5, <2>7 DEF Goals, Cancels, Guarded, Recovers
  <2>9. Budget(u) /\ Watched(u)
    BY <2>4, <2>7 DEF Inv, Budget, Watched
  <2>. QED
    BY <1>4, <1>8, <2>2, <2>6, <2>8, <2>9 DEF Inv, Book, Base, r
<1>. QED
  BY <1>7, <1>8

LEMMA VisionInv ==
  ASSUME NEW s, Inv(s), NEW c \in s.calls, c.kind = "set_mode", NEW success
  PROVE  Inv(VisionAnswered(Settle(s, c), c, success))
<1> DEFINE r == Settle(s, c)
<1>1. s \in TaskState /\ Book(s) /\ Waits(s) /\ s.retries \in Nat /\ VerifyGraspMaxRetries \in Nat
  BY ConstantsAssumption DEF Inv, Book, Base, TaskState
<1>2. /\ r \in TaskState /\ r.calls = s.calls \ {c} /\ SameTask(s, r)
      /\ r.detectTimer = s.detectTimer
      /\ \A kinds : Current(r.calls, kinds) = Current(s.calls, kinds) \ {c}
  BY <1>1, SettleFrame
<1>3. ~c.current => Inv(r)
  BY StaleInv
<1>4. VisionAnswered(r, c, success)
        = IF ~c.current \/ r.state # c.what THEN r
          ELSE IF ~success THEN EnterFault(r, "FAULT")
          ELSE SendRobotGoal(r, IF c.what = "MOVE_TO_WATCH" THEN "watch" ELSE "handover_approach")
  BY DEF VisionAnswered
<1> HIDE DEF r
<1>5. Book(r)
  <2>1. \A kinds : "set_mode" \notin kinds => Current(r.calls, kinds) = Current(s.calls, kinds)
    BY <1>2 DEF Current
  <2>2. "set_mode" \notin GoalKinds /\ "set_mode" \notin {"get_result"} /\ "set_mode" \notin {"recover"}
    BY DEF GoalKinds
  <2>3. SameCalls(s, r)
    BY <2>1, <2>2 DEF SameCalls
  <2>4. Waits(r)
    BY <1>1, <1>2 DEF Waits
  <2>. QED
    BY <1>1, <1>2, <2>3, <2>4, BookKept
<1>6. CASE ~c.current
  BY <1>3, <1>4, <1>6 DEF r
<1>7. CASE c.current /\ r.state # c.what
  <2>1. Budget(r) /\ Watched(r)
    BY <1>2, <1>7 DEF Inv, Budget, Watched, SameTask
  <2>. QED
    BY <1>4, <1>5, <1>7, <2>1 DEF Inv, r
<1>8. CASE c.current /\ r.state = c.what
  <2>1. s.state \in {"MOVE_TO_WATCH", "APPROACH_HAND"}
    BY <1>1, <1>2, <1>8 DEF Waits, SameTask
  <2>2. ~(s.retries > VerifyGraspMaxRetries)
    BY <2>1 DEF Inv, Budget
  <2>3. r.retries <= VerifyGraspMaxRetries
    BY <1>1, <1>2, <2>2 DEF SameTask
  <2>4. "watch" \in Goal /\ "handover_approach" \in Goal
    BY DEF Goal, NamedTarget
  <2>5. /\ Inv(EnterFault(r, "FAULT")) /\ Inv(SendRobotGoal(r, "watch"))
        /\ Inv(SendRobotGoal(r, "handover_approach"))
    BY <1>5, <2>3, <2>4, FaultInv, SendInv
  <2>. QED
    BY <1>4, <1>8, <2>5 DEF r
<1>. QED
  BY <1>6, <1>7, <1>8

LEMMA RecoverInv ==
  ASSUME NEW s, Inv(s), NEW c \in Current(s.calls, {"recover"}), NEW success
  PROVE  Inv(RecoverAnswered(Settle(s, c), success))
<1> DEFINE r == Settle(s, c)
           t == [r EXCEPT !.recoveryInProgress = FALSE]
           u == [t EXCEPT !.safety = "NORMAL", !.mode = "MANUAL",
                          !.tool = None, !.spec = None, !.retries = 0]
           w == CancelAllTimers(u)
           x == SetVisionMode(w, "OFF", None)
           y == [x EXCEPT !.state = "IDLE"]
<1>1. s \in TaskState /\ Book(s) /\ Goals(s) /\ Cancels(s) /\ Recovers(s) /\ Waits(s)
  BY DEF Inv, Book, Base
<1>2. /\ r \in TaskState /\ r.calls = s.calls \ {c} /\ SameTask(s, r)
      /\ \A kinds : Current(r.calls, kinds) = Current(s.calls, kinds) \ {c}
  BY <1>1, SettleFrame
<1>3. RecoverAnswered(r, success) = IF r.safety # "RECOVERY_REQUIRED" \/ ~success THEN t ELSE y
  BY DEF RecoverAnswered
<1> HIDE DEF r
<1>4. Current(s.calls, {"recover"}) = {c} /\ s.cancelPending = None
      /\ s.safety = "RECOVERY_REQUIRED"
  BY <1>1 DEF Recovers
<1>5. /\ Current(r.calls, GoalKinds) = Current(s.calls, GoalKinds)
      /\ Current(r.calls, {"get_result"}) = Current(s.calls, {"get_result"})
      /\ Current(r.calls, {"recover"}) = {}
  <2>1. c.kind = "recover"
    BY DEF Current
  <2>2. c \notin Current(s.calls, GoalKinds) /\ c \notin Current(s.calls, {"get_result"})
    BY <2>1 DEF Current, GoalKinds
  <2>. QED
    BY <1>2, <1>4, <2>2
<1>6. /\ t \in TaskState /\ t.calls = r.calls /\ ~t.recoveryInProgress
      /\ t.state = r.state /\ t.safety = r.safety /\ t.retries = r.retries
      /\ t.goalInProgress = r.goalInProgress /\ t.goalHandle = r.goalHandle
      /\ t.resultState = r.resultState
      /\ t.cancelPending = r.cancelPending /\ t.cancelTimer = r.cancelTimer
  <2>1. t \in TaskState
    BY <1>2 DEF TaskState
  <2>2. /\ t.calls = r.calls /\ ~t.recoveryInProgress
        /\ t.state = r.state /\ t.safety = r.safety /\ t.retries = r.retries
        /\ t.goalInProgress = r.goalInProgress /\ t.goalHandle = r.goalHandle
        /\ t.resultState = r.resultState
        /\ t.cancelPending = r.cancelPending /\ t.cancelTimer = r.cancelTimer
    BY <1>2 DEF TaskState
  <2>. QED
    BY <2>1, <2>2
<1> HIDE DEF t
<1>7. /\ Goals(t) /\ Cancels(t) /\ t.cancelPending = None /\ Waits(t)
      /\ Current(t.calls, {"recover"}) = {}
  BY ZenonT(60), <1>1, <1>2, <1>4, <1>5, <1>6 DEF Goals, Cancels, Waits, SameTask
<1>8. Inv(t)
  <2>1. Guarded(t) /\ Recovers(t)
    BY <1>6, <1>7 DEF Guarded, Recovers
  <2>2. Budget(t) /\ Watched(t)
    BY <1>2, <1>4, <1>6 DEF Inv, Budget, Watched, SameTask
  <2>. QED
    BY <1>6, <1>7, <2>1, <2>2 DEF Inv, Book, Base
<1>9. /\ u \in TaskState /\ u.calls = t.calls /\ ~u.recoveryInProgress
      /\ u.retries = 0
      /\ u.goalInProgress = t.goalInProgress /\ u.goalHandle = t.goalHandle
      /\ u.resultState = t.resultState
      /\ u.cancelPending = t.cancelPending /\ u.cancelTimer = t.cancelTimer
  BY <1>6, SnapshotTypes DEF TaskState, Safety, Mode
<1> HIDE DEF u
<1>10. Book(u)
  <2>1. Goals(u) /\ Cancels(u) /\ Guarded(u) /\ Recovers(u) /\ Waits(u)
    BY <1>7, <1>9 DEF Goals, Cancels, Guarded, Recovers, Waits
  <2>. QED
    BY <1>9, <2>1 DEF Book, Base
<1>11. w \in TaskState /\ SameBooks(u, w)
  <2>1. w \in TaskState
    BY <1>9, CancelTimersType
  <2>2. SameBooks(u, w)
    BY <1>9 DEF CancelAllTimers, SameBooks, TaskState
  <2>. QED
    BY <2>1, <2>2
<1> HIDE DEF w
<1>12. Book(w) /\ Waits(w)
  BY <1>10, <1>11, BooksKept DEF Book, Base
<1>13. x \in TaskState /\ SameTask(w, x) /\ SameCalls(w, x) /\ Waits(x)
  BY <1>11, <1>12, SetVisionModeType, SetVisionModeFrame, RequestTypes
<1> HIDE DEF x
<1>14. Book(x) /\ x.retries <= VerifyGraspMaxRetries
  BY <1>9, <1>11, <1>12, <1>13, BookKept, ConstantsAssumption DEF SameTask, SameBooks
<1>15. y \in TaskState /\ SameBooks(x, y) /\ y.state = "IDLE"
  BY <1>13 DEF TaskState, State, SameBooks
<1> HIDE DEF y
<1>16. Inv(y)
  BY <1>14, <1>15, IdleInv
<1>. QED
  BY <1>3, <1>8, <1>16 DEF r

(***************************************************************************)
(* Commands and timers.                                                    *)
(***************************************************************************)
LEMMA AtNormal ==
  ASSUME NEW s, Inv(s), s.safety = "NORMAL"
  PROVE  /\ s \in TaskState /\ Book(s) /\ Base(s) /\ s.retries <= VerifyGraspMaxRetries
         /\ Current(s.calls, {"recover"}) = {} /\ ~s.recoveryInProgress
<1>1. s \in TaskState /\ Book(s) /\ Base(s) /\ s.retries \in Nat /\ VerifyGraspMaxRetries \in Nat
  BY ConstantsAssumption DEF Inv, Book, Base, TaskState
<1>2. ~(s.retries > VerifyGraspMaxRetries)
  BY DEF Inv, Budget
<1>3. Current(s.calls, {"recover"}) = {} /\ ~s.recoveryInProgress
  BY DEF Inv, Book, Recovers
<1>. QED
  BY <1>1, <1>2, <1>3

\* stop, a reset at NORMAL and a change of mode: what is running is cancelled.
LEMMA CancelCommandInv ==
  ASSUME NEW s, Inv(s), s.safety = "NORMAL", NEW t \in TaskState, SameBooks(s, t),
         NEW callback \in {"idle"} \cup Mode
  PROVE  Inv(RequestCancel(t, callback))
<1> DEFINE u == RequestCancel(t, callback)
<1>1. /\ Base(t) /\ t.safety = "NORMAL" /\ t.retries <= VerifyGraspMaxRetries
      /\ Current(t.calls, {"recover"}) = {} /\ ~t.recoveryInProgress
  BY AtNormal, BooksKept DEF SameBooks
<1>2. callback # "noop" /\ callback \in {"noop", "idle"} \cup Mode
  BY DEF Mode
<1>3. Cancelled(t, u, callback)
  BY <1>1, <1>2, RequestCancelBook
<1>4. t.retries \in Nat /\ VerifyGraspMaxRetries \in Nat
  BY ConstantsAssumption DEF TaskState
<1> HIDE DEF u
<1>5. Budget(u) /\ Watched(u)
  BY <1>1, <1>2, <1>3, <1>4 DEF Cancelled, Budget, Watched
<1>. QED
  BY <1>3, <1>5 DEF Cancelled, Inv, u

\* A reset while not NORMAL.
LEMMA ResetInv ==
  ASSUME NEW s, Inv(s), s.safety # "NORMAL", ~s.recoveryInProgress,
         NEW t \in TaskState, t.safety = "RECOVERY_REQUIRED", t.recoveryInProgress,
         t.state = s.state, t.retries = s.retries, t.calls = s.calls,
         t.goalInProgress = s.goalInProgress, t.goalHandle = s.goalHandle,
         t.resultState = s.resultState,
         t.cancelPending = s.cancelPending, t.cancelTimer = s.cancelTimer
  PROVE  Inv(IF s.cancelPending # None THEN t ELSE RequestCancel(t, "noop"))
<1>1. s \in TaskState /\ Goals(s) /\ Cancels(s) /\ Recovers(s) /\ Waits(s)
  BY DEF Inv, Book, Base
<1>2. Current(t.calls, {"recover"}) = {}
  BY <1>1 DEF Recovers
<1>3. Base(t)
  BY <1>1 DEF Base, Goals, Cancels, Waits
<1>4. CASE s.cancelPending # None
  <2>1. Guarded(t) /\ Recovers(t)
    BY <1>2, <1>4 DEF Guarded, Recovers
  <2>2. Budget(t) /\ Watched(t)
    BY DEF Inv, Budget, Watched
  <2>. QED
    BY <1>3, <1>4, <2>1, <2>2 DEF Inv, Book
<1>5. CASE s.cancelPending = None
  <2> DEFINE u == RequestCancel(t, "noop")
  <2>1. Cancelled(t, u, "noop")
    BY <1>2, <1>3, RequestCancelBook
  <2> HIDE DEF u
  <2>2. Budget(u) /\ Watched(u)
    BY <2>1 DEF Cancelled, Inv, Budget, Watched
  <2>3. Inv(u)
    BY <2>1, <2>2 DEF Cancelled, Inv
  <2>. QED
    BY <1>5, <2>3 DEF u
<1>. QED
  BY <1>4, <1>5

LEMMA CommandingInv == Inv(tm) /\ Commanding => Inv(tm')
<1> SUFFICES ASSUME Inv(tm), Commanding PROVE Inv(tm')
  OBVIOUS
<1>1. tm \in TaskState /\ Book(tm)
  BY DEF Inv, Book, Base
<1>2. ASSUME NEW s, Becomes(s) PROVE tm' = s
  BY <1>2 DEF Becomes
<1>3. CASE ResetTask
  <2> DEFINE s == ClearResumeSnapshot(tm)
             t == [s EXCEPT !.state = "CANCELLING"]
  <2>1. /\ s \in TaskState /\ SameBooks(tm, s) /\ s.state = tm.state
        /\ s.detectTimer = tm.detectTimer
    BY <1>1, SnapshotTypes DEF ClearResumeSnapshot, TaskState, SameBooks
  <2>2. tm.safety = "NORMAL"
        /\ (tm' = s \/ tm' = RequestCancel(t, "idle"))
    BY <1>2, <1>3 DEF ResetTask
  <2> HIDE DEF s
  <2>3. t \in TaskState /\ SameBooks(s, t)
    BY <2>1 DEF TaskState, State, SameBooks
  <2>4. Inv(s)
    <3>1. Book(s)
      BY <1>1, <2>1, BooksKept
    <3>2. Budget(s) /\ Watched(s)
      BY <2>1 DEF Inv, Budget, Watched, SameBooks
    <3>. QED
      BY <3>1, <3>2 DEF Inv
  <2>5. s.safety = "NORMAL"
    BY <2>1, <2>2 DEF SameBooks
  <2> HIDE DEF t
  <2>6. Inv(RequestCancel(t, "idle"))
    BY <2>3, <2>4, <2>5, CancelCommandInv
  <2>. QED
    BY <2>2, <2>4, <2>6
<1>4. CASE ResetSafety
  <2> DEFINE t == [tm EXCEPT !.safety = "RECOVERY_REQUIRED", !.recoveryInProgress = TRUE]
  <2>1. /\ t \in TaskState /\ t.safety = "RECOVERY_REQUIRED" /\ t.recoveryInProgress
        /\ t.state = tm.state /\ t.retries = tm.retries /\ t.calls = tm.calls
        /\ t.goalInProgress = tm.goalInProgress /\ t.goalHandle = tm.goalHandle
        /\ t.resultState = tm.resultState
        /\ t.cancelPending = tm.cancelPending /\ t.cancelTimer = tm.cancelTimer
    BY <1>1 DEF TaskState, Safety
  <2>2. /\ tm.safety # "NORMAL" /\ ~tm.recoveryInProgress
        /\ tm' = IF tm.cancelPending # None THEN t ELSE RequestCancel(t, "noop")
    BY <1>2, <1>4 DEF ResetSafety
  <2> HIDE DEF t
  <2>. QED
    BY <2>1, <2>2, ResetInv
<1>5. CASE Stop
  <2> DEFINE r == CaptureResumeSnapshot(tm)
             t == [r EXCEPT !.state = "CANCELLING"]
  <2>1. r \in TaskState /\ SameBooks(tm, r)
    BY <1>1, CaptureType, CaptureFrame DEF SameTask, SameBooks
  <2>2. tm.safety = "NORMAL" /\ tm' = RequestCancel(t, "idle")
    BY <1>2, <1>5 DEF Stop, Commanded
  <2> HIDE DEF r
  <2>3. t \in TaskState /\ SameBooks(r, t)
    BY <2>1 DEF TaskState, State, SameBooks
  <2> HIDE DEF t
  <2>4. SameBooks(tm, t)
    BY <2>1, <2>3 DEF SameBooks
  <2>. QED
    BY <2>2, <2>3, <2>4, CancelCommandInv
<1>6. CASE Resume
  <2>1. tm.safety = "NORMAL" /\ tm.state = "IDLE" /\ tm' = ResumeFrom(tm, tm.resume)
    BY <1>2, <1>6 DEF Resume, Commanded
  <2>2. tm.resume \in Snapshot
    BY <1>1 DEF TaskState
  <2>. QED
    BY <2>1, <2>2, ResumeInv
<1>7. ASSUME NEW mode \in Mode, ModeSwitch(mode) PROVE Inv(tm')
  <2> DEFINE s == [tm EXCEPT !.mode = mode]
             v == SetVisionMode(s, "OFF", None)
             t == [tm EXCEPT !.state = "CANCELLING"]
  <2>1. tm.safety = "NORMAL"
        /\ ((tm.state = "IDLE" /\ tm' = v) \/ tm' = RequestCancel(t, mode))
    BY <1>2, <1>7 DEF ModeSwitch, Commanded
  <2>2. t \in TaskState /\ SameBooks(tm, t)
    BY <1>1 DEF TaskState, State, SameBooks
  <2>3. s \in TaskState /\ SameBooks(tm, s) /\ s.state = tm.state
    BY <1>1 DEF TaskState, SameBooks
  <2> HIDE DEF s, t
  <2>4. Inv(RequestCancel(t, mode))
    BY <2>1, <2>2, CancelCommandInv
  <2>5. Book(s) /\ Waits(s)
    BY <1>1, <2>3, BooksKept DEF Book, Base
  <2>6. v \in TaskState /\ SameTask(s, v) /\ SameCalls(s, v) /\ Waits(v)
    BY <2>3, <2>5, SetVisionModeType, SetVisionModeFrame, RequestTypes
  <2> HIDE DEF v
  <2>7. Book(v)
    BY <2>5, <2>6, BookKept
  <2>8. ASSUME tm.state = "IDLE" PROVE Inv(v)
    <3>1. Budget(v) /\ Watched(v)
      BY <2>3, <2>6, <2>8 DEF Inv, Budget, Watched, SameTask, SameBooks
    <3>. QED
      BY <2>7, <3>1 DEF Inv
  <2>. QED
    BY <2>1, <2>4, <2>8
<1>8. ASSUME NEW target \in NamedTarget, ManualMove(target) PROVE Inv(tm')
  <2> DEFINE t == [tm EXCEPT !.state = "MANUAL_MOVE"]
  <2>1. tm.safety = "NORMAL" /\ tm' = SendRobotGoal(t, target)
    BY <1>2, <1>8 DEF ManualMove, Commanded
  <2>2. t \in TaskState /\ SameBooks(tm, t)
    BY <1>1 DEF TaskState, State, SameBooks
  <2> HIDE DEF t
  <2>3. Book(t) /\ t.retries <= VerifyGraspMaxRetries
    BY <2>1, <2>2, AtNormal, BooksKept DEF SameBooks
  <2>4. target \in Goal
    BY DEF Goal
  <2>. QED
    BY <2>1, <2>3, <2>4, SendInv
<1>9. ASSUME NEW tool \in Tools, FetchTool(tool) PROVE Inv(tm')
  <2> DEFINE t == [tm EXCEPT !.tool = tool, !.spec = None, !.retries = 0,
                             !.state = "MOVE_TO_WATCH"]
  <2>1. tm.safety = "NORMAL"
        /\ tm' = StartAfterVisionMode(t, "TRACK_TOOL", tool, "MOVE_TO_WATCH")
    BY <1>2, <1>9 DEF FetchTool, Commanded
  <2>2. /\ t \in TaskState /\ t.state = "MOVE_TO_WATCH" /\ t.retries = 0
        /\ t.calls = tm.calls /\ t.safety = tm.safety
        /\ t.goalInProgress = tm.goalInProgress /\ t.goalHandle = tm.goalHandle
        /\ t.resultState = tm.resultState
        /\ t.cancelPending = tm.cancelPending /\ t.cancelTimer = tm.cancelTimer
        /\ t.recoveryInProgress = tm.recoveryInProgress
    <3>1. t \in TaskState
      BY <1>1 DEF TaskState, State, ToolOrNone
    <3>2. /\ t.state = "MOVE_TO_WATCH" /\ t.retries = 0
          /\ t.calls = tm.calls /\ t.safety = tm.safety
          /\ t.goalInProgress = tm.goalInProgress /\ t.goalHandle = tm.goalHandle
          /\ t.resultState = tm.resultState
          /\ t.cancelPending = tm.cancelPending /\ t.cancelTimer = tm.cancelTimer
          /\ t.recoveryInProgress = tm.recoveryInProgress
      BY <1>1 DEF TaskState
    <3>. QED
      BY <3>1, <3>2
  <2> HIDE DEF t
  <2>3. Book(t)
    BY <1>1, <2>2 DEF Book, Base, Goals, Cancels, Guarded, Recovers, Waits
  <2>4. t.retries <= VerifyGraspMaxRetries
    BY <2>2, ConstantsAssumption
  <2>5. [mode |-> "TRACK_TOOL", tool |-> tool] \in VisionRequest
    BY RequestTypes
  <2>. QED
    BY <2>1, <2>2, <2>3, <2>4, <2>5, StartInv
<1>. QED
  BY <1>3, <1>4, <1>5, <1>6, <1>7, <1>8, <1>9 DEF Commanding

LEMMA ReplyingInv == Inv(tm) /\ Replying => Inv(tm')
<1> SUFFICES ASSUME Inv(tm), Replying PROVE Inv(tm')
  OBVIOUS
<1>1. tm \in TaskState /\ tm.calls \in SUBSET Call
  BY DEF Inv, Book, Base, TaskState
<1>2. ASSUME NEW s, Becomes(s) PROVE tm' = s
  BY <1>2 DEF Becomes
<1>3. ASSUME NEW c \in Waiting("send_goal"), NEW accepted \in BOOLEAN,
             OnGoalResponse(c, accepted)
      PROVE  Inv(tm')
  <2>1. tm' = IF ~c.current THEN Settle(tm, c)
              ELSE IF accepted THEN GoalAccepted(Settle(tm, c), c.what)
              ELSE GoalRejected(Settle(tm, c))
    BY <1>2, <1>3 DEF OnGoalResponse
  <2>2. c.what \in Goal \cup State \cup {None}
    BY <1>1 DEF Waiting, Call
  <2>3. c.current => c \in Current(tm.calls, {"send_goal"}) /\ c \in Current(tm.calls, GoalKinds)
    BY DEF Waiting, Current, GoalKinds
  <2>4. CASE c.current
    BY <2>1, <2>2, <2>3, <2>4, GoalAcceptedInv, GoalReplyInv
  <2>5. CASE ~c.current
    BY <2>1, <2>5, StaleInv
  <2>. QED
    BY <2>4, <2>5
<1>4. ASSUME NEW c \in Waiting("get_result"), NEW outcome \in Outcomes(c.what),
             OnRobotResult(c, outcome)
      PROVE  Inv(tm')
  <2>1. tm' = IF c.current THEN RobotResult(Settle(tm, c), outcome) ELSE Settle(tm, c)
    BY <1>2, <1>4 DEF OnRobotResult
  <2>2. c.current => c \in Current(tm.calls, GoalKinds)
    BY DEF Waiting, Current, GoalKinds
  <2>3. CASE c.current
    BY <2>1, <2>2, <2>3, GoalReplyInv
  <2>4. CASE ~c.current
    BY <2>1, <2>4, StaleInv
  <2>. QED
    BY <2>3, <2>4
<1>5. ASSUME NEW c, OnActionFutureException(c) PROVE Inv(tm')
  <2>1. tm' = IF c.current THEN ActionFutureException(Settle(tm, c)) ELSE Settle(tm, c)
    BY <1>2, <1>5 DEF OnActionFutureException
  <2>2. CASE c.current
    BY <2>1, <2>2, SettledExceptionInv
  <2>3. CASE ~c.current
    BY <2>1, <2>3, StaleInv
  <2>. QED
    BY <2>2, <2>3
<1>6. ASSUME NEW c \in Waiting("set_mode"), NEW success \in BOOLEAN,
             OnVisionModeResponse(c, success)
      PROVE  Inv(tm')
  <2>1. tm' = VisionAnswered(Settle(tm, c), c, success)
    BY <1>2, <1>6 DEF OnVisionModeResponse
  <2>2. c \in tm.calls /\ c.kind = "set_mode"
    BY DEF Waiting
  <2>. QED
    BY <2>1, <2>2, VisionInv
<1>7. ASSUME NEW c \in Waiting("recover"), NEW success \in BOOLEAN,
             OnRecoverResponse(c, success)
      PROVE  Inv(tm')
  <2>1. tm' = IF c.current THEN RecoverAnswered(Settle(tm, c), success) ELSE Settle(tm, c)
    BY <1>2, <1>7 DEF OnRecoverResponse
  <2>2. c.current => c \in Current(tm.calls, {"recover"})
    BY DEF Waiting, Current
  <2>3. CASE c.current
    BY <2>1, <2>2, <2>3, RecoverInv
  <2>4. CASE ~c.current
    BY <2>1, <2>4, StaleInv
  <2>. QED
    BY <2>3, <2>4
<1>. QED
  BY <1>3, <1>4, <1>5, <1>6, <1>7 DEF Replying

LEMMA TimersInv == Inv(tm) /\ TimersFiring => Inv(tm')
<1> SUFFICES ASSUME Inv(tm), TimersFiring PROVE Inv(tm')
  OBVIOUS
<1>1. /\ tm \in TaskState /\ tm.calls \in SUBSET Call /\ Book(tm)
      /\ Goals(tm) /\ Cancels(tm) /\ Recovers(tm) /\ Waits(tm)
  BY DEF Inv, Book, Base, TaskState
<1>2. ASSUME NEW s, Becomes(s) PROVE tm' = s
  BY <1>2 DEF Becomes
<1>3. CASE OnCancelTimeout
  <2> DEFINE s == [tm EXCEPT !.cancelTimer = FALSE]
             u == [s EXCEPT !.cancelPending = "noop", !.calls = Retire(@, {"recover"}),
                            !.recoveryInProgress = FALSE, !.safety = "FAULT"]
             old == Retire(tm.calls, {"recover"})
  <2>1. tm.cancelPending # None
    BY <1>1, <1>3 DEF OnCancelTimeout, Cancels
  <2>2. tm' = u
    <3>1. s.cancelPending = tm.cancelPending
      BY <1>1 DEF TaskState
    <3>. QED
      BY <1>2, <1>3, <2>1 DEF OnCancelTimeout
  <2>3. /\ s \in TaskState /\ s.calls = tm.calls /\ s.state = tm.state
        /\ s.retries = tm.retries
        /\ s.goalInProgress = tm.goalInProgress /\ s.goalHandle = tm.goalHandle
        /\ s.resultState = tm.resultState /\ ~s.cancelTimer
    BY <1>1 DEF TaskState
  <2>4. old \in SUBSET Call
    BY <1>1, RetireType
  <2> HIDE DEF s
  <2>5. /\ u \in TaskState /\ u.calls = old /\ u.state = tm.state /\ u.retries = tm.retries
        /\ u.goalInProgress = tm.goalInProgress /\ u.goalHandle = tm.goalHandle
        /\ u.resultState = tm.resultState /\ ~u.cancelTimer
        /\ u.cancelPending = "noop" /\ ~u.recoveryInProgress /\ u.safety = "FAULT"
    BY <2>3, <2>4 DEF TaskState, Safety, FaultLevel
  <2> HIDE DEF u
  <2>6. /\ Current(old, GoalKinds) = Current(tm.calls, GoalKinds)
        /\ Current(old, {"get_result"}) = Current(tm.calls, {"get_result"})
        /\ Current(old, {"recover"}) = {}
    <3>1. {"recover"} \cap GoalKinds = {} /\ {"recover"} \cap {"get_result"} = {}
      BY DEF GoalKinds
    <3>. QED
      BY <1>1, <3>1, CurrentRetire
  <2>7. \A c \in old : c.kind = "set_mode" => c.what \in {"MOVE_TO_WATCH", "APPROACH_HAND"}
    BY <1>1, WaitsKept DEF Waits
  <2> HIDE DEF old
  <2>8. Goals(u) /\ Cancels(u) /\ Guarded(u) /\ Recovers(u) /\ Waits(u)
    BY <1>1, <2>1, <2>5, <2>6, <2>7 DEF Goals, Cancels, Guarded, Recovers, Waits
  <2>9. Budget(u) /\ Watched(u)
    <3>1. u.cancelPending # None
      BY <2>5 DEF None
    <3>. QED
      BY <2>5, <3>1 DEF Inv, Budget, Watched
  <2>. QED
    BY <2>2, <2>5, <2>8, <2>9 DEF Inv, Book, Base
<1>4. CASE OnDetectTrackTimeout
  <2> DEFINE s == [tm EXCEPT !.detectTimer = FALSE]
             v == SetVisionMode(s, "OFF", None)
             u == [v EXCEPT !.tool = None, !.spec = None, !.state = "IDLE"]
  <2>1. s \in TaskState /\ SameBooks(tm, s) /\ s.state = tm.state
    BY <1>1 DEF TaskState, SameBooks
  <2>2. tm' = IF tm.state # "DETECT_TRACK" THEN s ELSE u
    BY <1>2, <1>4 DEF OnDetectTrackTimeout
  <2> HIDE DEF s
  <2>3. Book(s) /\ Waits(s)
    BY <1>1, <2>1, BooksKept DEF Book, Base
  <2>4. v \in TaskState /\ SameTask(s, v) /\ SameCalls(s, v) /\ Waits(v)
    BY <2>1, <2>3, SetVisionModeType, SetVisionModeFrame, RequestTypes
  <2> HIDE DEF v
  <2>5. Book(v)
    BY <2>3, <2>4, BookKept
  <2>6. u \in TaskState /\ SameBooks(v, u) /\ u.state = "IDLE"
    BY <2>4 DEF TaskState, State, ToolOrNone, SameBooks
  <2> HIDE DEF u
  <2>7. CASE tm.state # "DETECT_TRACK"
    <3>1. Budget(s) /\ Watched(s)
      BY <2>1, <2>7 DEF Inv, Budget, Watched, SameBooks
    <3>. QED
      BY <2>2, <2>3, <2>7, <3>1 DEF Inv
  <2>8. CASE tm.state = "DETECT_TRACK"
    <3>1. Book(u)
      BY <2>5, <2>6, BooksKept
    <3>2. ~(tm.retries > VerifyGraspMaxRetries)
      BY <2>8 DEF Inv, Budget
    <3>3. u.retries = tm.retries
      BY <2>1, <2>4, <2>6 DEF SameTask, SameBooks
    <3>4. Budget(u) /\ Watched(u)
      BY <2>6, <3>2, <3>3 DEF Budget, Watched
    <3>. QED
      BY <2>2, <2>8, <3>1, <3>4 DEF Inv
  <2>. QED
    BY <2>7, <2>8
<1>5. CASE OnWaitPullTimer
  <2>1. ASSUME NEW timer \in {"off", "reminder"}, tm' = [tm EXCEPT !.waitPullTimer = timer]
        PROVE  Inv(tm')
    <3> DEFINE u == [tm EXCEPT !.waitPullTimer = timer]
    <3>1. u \in TaskState /\ SameBooks(tm, u) /\ u.state = tm.state
          /\ u.detectTimer = tm.detectTimer
      BY <1>1 DEF TaskState, SameBooks
    <3>2. tm' = u
      BY <2>1
    <3> HIDE DEF u
    <3>3. Book(u)
      BY <1>1, <3>1, BooksKept
    <3>4. Budget(u) /\ Watched(u)
      BY <3>1 DEF Inv, Budget, Watched, SameBooks
    <3>. QED
      BY <3>2, <3>3, <3>4 DEF Inv
  <2>. QED
    BY <1>2, <1>5, <2>1 DEF OnWaitPullTimer
<1>6. ASSUME NEW c \in Waiting("set_mode"), OnVisionModeTimeout(c) PROVE Inv(tm')
  <2> DEFINE old == Retire(tm.calls, {"set_mode"})
             calls == Untime(old, {"set_mode"})
             s == [tm EXCEPT !.calls = Untime(Retire(@, {"set_mode"}), {"set_mode"})]
  <2>1. tm' = EnterFault(s, "FAULT")
    BY <1>2, <1>6 DEF OnVisionModeTimeout
  <2>2. old \in SUBSET Call
    BY <1>1, RetireType
  <2>3. calls \in SUBSET Call
    BY <2>2, UntimeType
  <2>4. /\ {"set_mode"} \cap GoalKinds = {} /\ {"set_mode"} \cap {"get_result"} = {}
        /\ {"set_mode"} \cap {"recover"} = {}
    BY DEF GoalKinds
  <2>5. \A c2 \in old : c2.kind = "set_mode" => c2.what \in {"MOVE_TO_WATCH", "APPROACH_HAND"}
    BY <1>1, WaitsKept DEF Waits
  <2>6. /\ Current(old, GoalKinds) = Current(tm.calls, GoalKinds)
        /\ Current(old, {"get_result"}) = Current(tm.calls, {"get_result"})
        /\ Current(old, {"recover"}) = Current(tm.calls, {"recover"})
    BY <1>1, <2>4, CurrentRetire
  <2>7. s \in TaskState /\ s.calls = calls /\ SameTask(tm, s)
    BY <1>1, <2>3 DEF TaskState, SameTask
  <2> HIDE DEF old, s
  <2>8. /\ Current(calls, GoalKinds) = Current(old, GoalKinds)
        /\ Current(calls, {"get_result"}) = Current(old, {"get_result"})
        /\ Current(calls, {"recover"}) = Current(old, {"recover"})
    BY <2>2, <2>4, CurrentUntime
  <2>9. \A c2 \in calls : c2.kind = "set_mode" => c2.what \in {"MOVE_TO_WATCH", "APPROACH_HAND"}
    BY <2>2, <2>5, WaitsKept
  <2> HIDE DEF calls
  <2>10. SameCalls(tm, s) /\ Waits(s)
    BY <2>6, <2>7, <2>8, <2>9 DEF SameCalls, Waits
  <2>11. Base(s)
    BY <1>1, <2>7, <2>10, BookKept DEF Book
  <2>12. s.retries > VerifyGraspMaxRetries =>
           /\ s.retries = VerifyGraspMaxRetries + 1
           /\ s.state \in {"VERIFY_GRASP", "IDLE"}
    BY <2>7 DEF Inv, Budget, SameTask
  <2>13. "FAULT" \in FaultLevel
    BY DEF FaultLevel
  <2>. QED
    BY <2>1, <2>11, <2>12, <2>13, EnterFaultInv
<1>7. ASSUME NEW c \in Waiting("recover"), OnRecoveryTimeout(c) PROVE Inv(tm')
  <2> DEFINE old == Untime(tm.calls, {"recover"})
             calls == Retire(old, {"recover"})
             s == [tm EXCEPT !.calls = Untime(@, {"recover"})]
             u == [s EXCEPT !.calls = Retire(@, {"recover"}), !.recoveryInProgress = FALSE]
  <2>1. c \in Current(tm.calls, {"recover"})
    BY <1>7 DEF OnRecoveryTimeout, Waiting, Current
  <2>2. tm.recoveryInProgress /\ tm.safety = "RECOVERY_REQUIRED" /\ tm.cancelPending = None
    BY <1>1, <2>1 DEF Recovers
  <2>3. tm' = u
    BY <1>2, <1>7, <2>2 DEF OnRecoveryTimeout
  <2>4. old \in SUBSET Call
    BY <1>1, UntimeType
  <2>5. calls \in SUBSET Call
    BY <2>4, RetireType
  <2>6. {"recover"} \cap GoalKinds = {} /\ {"recover"} \cap {"get_result"} = {}
    BY DEF GoalKinds
  <2>7. /\ Current(old, GoalKinds) = Current(tm.calls, GoalKinds)
        /\ Current(old, {"get_result"}) = Current(tm.calls, {"get_result"})
    BY <1>1, <2>6, CurrentUntime
  <2>8. \A c2 \in old : c2.kind = "set_mode" => c2.what \in {"MOVE_TO_WATCH", "APPROACH_HAND"}
    BY <1>1, WaitsKept DEF Waits
  <2>9. /\ s \in TaskState /\ s.calls = old /\ SameTask(tm, s)
    BY <1>1, <2>4 DEF TaskState, SameTask
  <2> HIDE DEF old, s
  <2>10. /\ Current(calls, GoalKinds) = Current(old, GoalKinds)
         /\ Current(calls, {"get_result"}) = Current(old, {"get_result"})
         /\ Current(calls, {"recover"}) = {}
    BY <2>4, <2>6, CurrentRetire
  <2>11. \A c2 \in calls : c2.kind = "set_mode" => c2.what \in {"MOVE_TO_WATCH", "APPROACH_HAND"}
    BY <2>4, <2>8, WaitsKept
  <2>12. /\ u \in TaskState /\ u.calls = calls /\ ~u.recoveryInProgress
         /\ u.state = s.state /\ u.safety = s.safety /\ u.retries = s.retries
         /\ u.goalInProgress = s.goalInProgress /\ u.goalHandle = s.goalHandle
         /\ u.resultState = s.resultState
         /\ u.cancelPending = s.cancelPending /\ u.cancelTimer = s.cancelTimer
    BY <2>5, <2>9 DEF TaskState
  <2> HIDE DEF u, calls
  <2>13. /\ u.state = tm.state /\ u.safety = tm.safety /\ u.retries = tm.retries
         /\ u.goalInProgress = tm.goalInProgress /\ u.goalHandle = tm.goalHandle
         /\ u.resultState = tm.resultState
         /\ u.cancelPending = tm.cancelPending /\ u.cancelTimer = tm.cancelTimer
    BY <2>9, <2>12 DEF SameTask
  <2>14. Goals(u) /\ Cancels(u) /\ Guarded(u) /\ Recovers(u) /\ Waits(u)
    BY <1>1, <2>2, <2>7, <2>10, <2>11, <2>12, <2>13
       DEF Goals, Cancels, Guarded, Recovers, Waits
  <2>15. Budget(u) /\ Watched(u)
    BY <2>2, <2>13 DEF Inv, Budget, Watched
  <2>. QED
    BY <2>3, <2>12, <2>14, <2>15 DEF Inv, Book, Base
<1>. QED
  BY <1>3, <1>4, <1>5, <1>6, <1>7 DEF TimersFiring

LEMMA FaultStepInv ==
  ASSUME Inv(tm), NEW level \in FaultLevels, NEW text \in FaultTexts, OnFault(level, text)
  PROVE  Inv(tm')
<1> DEFINE s == [tm EXCEPT !.lastFault = <<level, text>>]
<1>1. tm \in TaskState /\ Base(tm) /\ level \in FaultLevel
  BY ConstantsAssumption DEF Inv, Book, Base
<1>2. tm' = EnterFault(s, level)
  BY DEF OnFault, Becomes
<1>3. s \in TaskState /\ SameBooks(tm, s) /\ s.state = tm.state
  BY <1>1 DEF TaskState, SameBooks
<1> HIDE DEF s
<1>4. Base(s)
  BY <1>1, <1>3, BooksKept
<1>5. s.retries > VerifyGraspMaxRetries =>
        /\ s.retries = VerifyGraspMaxRetries + 1
        /\ s.state \in {"VERIFY_GRASP", "IDLE"}
  BY <1>3 DEF Inv, Budget, SameBooks
<1>. QED
  BY <1>1, <1>2, <1>4, <1>5, EnterFaultInv

LEMMA ToolTrackInv ==
  ASSUME Inv(tm), NEW tool \in Tools, OnToolTrack(tool)
  PROVE  Inv(tm')
<1> DEFINE s == [tm EXCEPT !.detectTimer = FALSE]
           w == [s EXCEPT !.spec = None]
           v == SetVisionMode(w, "OFF", None)
           u == [v EXCEPT !.tool = None, !.state = "IDLE"]
           p == [s EXCEPT !.spec = tool, !.state = "SERVO_PICK"]
<1>1. tm \in TaskState /\ Book(tm) /\ tm.state = "DETECT_TRACK"
      /\ tm.retries \in Nat /\ VerifyGraspMaxRetries \in Nat
  BY ConstantsAssumption DEF Inv, Book, Base, TaskState, OnToolTrack
<1>2. tm' = IF tool \notin ConfiguredTools THEN u ELSE SendRobotGoal(p, "servo_pick")
  BY DEF OnToolTrack, Becomes
<1>3. s \in TaskState /\ SameBooks(tm, s)
  BY <1>1 DEF TaskState, SameBooks
<1> HIDE DEF s
<1>4. ~(tm.retries > VerifyGraspMaxRetries)
  BY <1>1 DEF Inv, Budget
<1>5. Book(s) /\ s.retries <= VerifyGraspMaxRetries
  BY <1>1, <1>3, <1>4, BooksKept DEF SameBooks
<1>6. w \in TaskState /\ SameBooks(s, w)
  <2>1. w \in TaskState
    BY <1>3 DEF TaskState, ToolOrNone
  <2>2. SameBooks(s, w)
    BY <1>3 DEF TaskState, SameBooks
  <2>. QED
    BY <2>1, <2>2
<1>7. p \in TaskState /\ SameBooks(s, p)
  <2>1. p \in TaskState
    BY ZenonT(60), <1>3 DEF TaskState, State, ToolOrNone
  <2>2. SameBooks(s, p)
    BY <1>3 DEF TaskState, SameBooks
  <2>. QED
    BY <2>1, <2>2
<1> HIDE DEF w, p
<1>8. Inv(SendRobotGoal(p, "servo_pick"))
  <2>1. Book(p) /\ p.retries <= VerifyGraspMaxRetries
    BY <1>5, <1>7, BooksKept DEF SameBooks
  <2>. QED
    BY <2>1, SendInv DEF Goal
<1>9. Book(w) /\ Waits(w) /\ w.retries <= VerifyGraspMaxRetries
  BY <1>5, <1>6, BooksKept DEF SameBooks, Book, Base
<1>10. v \in TaskState /\ SameTask(w, v) /\ SameCalls(w, v) /\ Waits(v)
  BY <1>6, <1>9, SetVisionModeType, SetVisionModeFrame, RequestTypes
<1> HIDE DEF v
<1>11. Book(v) /\ v.retries <= VerifyGraspMaxRetries
  BY <1>9, <1>10, BookKept DEF SameTask
<1>12. u \in TaskState /\ SameBooks(v, u) /\ u.state = "IDLE"
  <2>1. u \in TaskState
    BY ZenonT(60), <1>10 DEF TaskState, State, ToolOrNone
  <2>2. SameBooks(v, u) /\ u.state = "IDLE"
    BY <1>10 DEF TaskState, SameBooks
  <2>. QED
    BY <2>1, <2>2
<1> HIDE DEF u
<1>13. Inv(u)
  BY <1>11, <1>12, IdleInv
<1>. QED
  BY <1>2, <1>8, <1>13

(***************************************************************************)
(* The invariant is inductive, so the bookkeeping holds in every reachable *)
(* state.                                                                  *)
(***************************************************************************)
LEMMA InvInit == Init => Inv(tm)
<1> SUFFICES ASSUME Init PROVE Inv(tm)
  OBVIOUS
<1>1. InitialTask \in TaskState
  BY SnapshotTypes, RequestTypes DEF InitialTask, TaskState, State, Mode, Safety
<1>2. /\ tm \in TaskState /\ tm.calls = {} /\ tm.state = "IDLE" /\ tm.safety = "NORMAL"
      /\ ~tm.goalInProgress /\ ~tm.goalHandle /\ tm.resultState = None
      /\ tm.cancelPending = None /\ ~tm.cancelTimer /\ ~tm.recoveryInProgress
      /\ tm.retries = 0
  BY <1>1 DEF Init, InitialTask
<1>3. \A kinds : Current(tm.calls, kinds) = {}
  BY <1>2 DEF Current
<1>4. Goals(tm) /\ Cancels(tm) /\ Guarded(tm) /\ Recovers(tm) /\ Waits(tm)
  BY <1>2, <1>3 DEF Goals, Cancels, Guarded, Recovers, Waits
<1>5. Budget(tm) /\ Watched(tm)
  BY <1>2, ConstantsAssumption DEF Budget, Watched
<1>. QED
  BY <1>2, <1>4, <1>5 DEF Inv, Book, Base

LEMMA InvStep == Inv(tm) /\ [Next]_vars => Inv(tm)'
<1> SUFFICES ASSUME Inv(tm), [Next]_vars PROVE Inv(tm')
  BY DEF Inv, Book, Base, Goals, Cancels, Guarded, Recovers, Waits, Budget, Watched
<1>1. ASSUME UNCHANGED tm PROVE Inv(tm')
  BY <1>1
<1>2. CASE EndpointsChange
  BY <1>1, <1>2 DEF EndpointsChange
<1>3. ASSUME NEW tool \in Tools, TracksDrain(tool) PROVE Inv(tm')
  BY <1>1, <1>3 DEF TracksDrain
<1>4. CASE UNCHANGED vars
  BY <1>1, <1>4 DEF vars
<1>. QED
  BY <1>2, <1>3, <1>4, CommandingInv, ReplyingInv, TimersInv, FaultStepInv, ToolTrackInv
     DEF Next

\* _goal_in_progress is up exactly while one reply of the newest goal is still to come.
THEOREM GoalsTracked == Spec => []GoalTracked
BY InvInit, InvStep, InvMeaning, PTL DEF Spec

\* A pending cancellation has a goal whose last reply will run it, and at NORMAL a timer.
THEOREM CancelsTracked == Spec => []CancelTracked
BY InvInit, InvStep, InvMeaning, PTL DEF Spec

\* An answer of /robot/recover that still counts belongs to the one recovery in progress.
THEOREM RecoveriesTracked == Spec => []RecoveryTracked
BY InvInit, InvStep, InvMeaning, PTL DEF Spec

\* One fetch retries the pick at most VerifyGraspMaxRetries times, its resumes included.
THEOREM RetriesBounded == Spec => []RetryBudget
BY InvInit, InvStep, InvMeaning, PTL DEF Spec

\* No task at NORMAL waits for something that will not come.
THEOREM TasksWatched == Spec => []NormalTaskIsWatched
BY InvInit, InvStep, InvMeaning, PTL DEF Spec

=============================================================================

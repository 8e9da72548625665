----------------------- MODULE TaskManagerFlowProofs -----------------------
(***************************************************************************)
(* task_manager implements GoalSupervisor, and the stages of a hand-over   *)
(* agree with goal, camera, grasp specification and gripper.               *)
(*                                                                         *)
(* Flow is what the bookkeeping of TaskManagerProofs does not say: away    *)
(* from NORMAL a goal is one being cancelled and no answer of vision_node  *)
(* is waited for, and at NORMAL the state is the one whose goal runs.      *)
(* Every handler keeps Flow and is a step of the supervisor or a stutter   *)
(* (Step), except a ToolTrack that starts a pick away from NORMAL          *)
(* (StrayPick), which _on_tool_track does not exclude.  Without tracks of  *)
(* a mode that was switched off, and with a vision_node that can be asked, *)
(* the camera is off whenever a task is stopped (Dark), and there is no    *)
(* such track.                                                             *)
(*                                                                         *)
(* The stages follow each other, so each helper has a lemma on the state   *)
(* it leaves (...Asks: what is asked of vision_node and of the robot;      *)
(* ...Fresh: the flow after it), and each action one on the step (...Step) *)
(***************************************************************************)
EXTENDS TaskManagerProofs

(***************************************************************************)
(* What follows from the bookkeeping once no goal is in progress.          *)
(***************************************************************************)
LEMMA AtRest ==
  ASSUME NEW s, Base(s), ~s.goalInProgress
  PROVE  /\ ~s.goalHandle /\ s.resultState = None /\ s.cancelPending = None
         /\ ~s.cancelTimer /\ Current(s.calls, GoalKinds) = {}
<1>1. Current(s.calls, GoalKinds) = {}
  BY DEF Base, Goals
<1>2. Current(s.calls, {"get_result"}) \subseteq Current(s.calls, GoalKinds)
  BY DEF Current, GoalKinds
<1>3. s.goalHandle \in BOOLEAN /\ s.cancelTimer \in BOOLEAN
  BY DEF Base, TaskState
<1>. QED
  BY <1>1, <1>2, <1>3 DEF Base, Goals, Cancels

LEMMA CurrentOther ==
  ASSUME NEW calls, NEW new, NEW kinds, new.kind \notin kinds
  PROVE  Current(calls \cup {new}, kinds) = Current(calls, kinds)
BY DEF Current

(***************************************************************************)
(* No reply of an earlier goal is still to come.  Generations only move on *)
(* between goals or when the action client breaks, so a reply becomes late *)
(* only if it breaks.                                                      *)
(***************************************************************************)
NothingLate(calls) == \A c \in calls : c.kind \in GoalKinds => c.current

LEMMA LateKept ==
  ASSUME NEW calls \in SUBSET Call, NEW kinds, NothingLate(calls)
  PROVE  /\ kinds \cap GoalKinds = {} \/ Current(calls, GoalKinds) = {} =>
              NothingLate(Retire(calls, kinds))
         /\ NothingLate(Untime(calls, kinds))
<1> DEFINE Old(c) == [c EXCEPT !.current = @ /\ c.kind \notin kinds]
           Slow(c) == [c EXCEPT !.timed = @ /\ c.kind \notin kinds]
<1>1. \A c \in calls : /\ Old(c).kind = c.kind /\ (c.kind \notin kinds => Old(c) = c)
                       /\ Slow(c).kind = c.kind /\ Slow(c).current = c.current
  BY DEF Call
<1>2. Retire(calls, kinds) = {Old(c) : c \in calls} /\ Untime(calls, kinds) = {Slow(c) : c \in calls}
  BY DEF Retire, Untime
<1> HIDE DEF Old, Slow
<1>3. NothingLate(Untime(calls, kinds))
  BY <1>1, <1>2 DEF NothingLate
<1>4. kinds \cap GoalKinds = {} => NothingLate(Retire(calls, kinds))
  BY <1>1, <1>2 DEF NothingLate
<1>5. ASSUME Current(calls, GoalKinds) = {} PROVE NothingLate(Retire(calls, kinds))
  <2>1. \A c \in calls : c.kind \notin GoalKinds
    BY <1>5 DEF Current, NothingLate
  <2>. QED
    BY <1>1, <1>2, <2>1 DEF NothingLate
<1>. QED
  BY <1>3, <1>4, <1>5

\* While the action client works, nothing late stays nothing late.
Prompt(s, u) == "robot_task" \in up /\ NothingLate(s.calls) => NothingLate(u.calls)

(***************************************************************************)
(* What the helpers do to the tool, the vision request and the replies     *)
(* that still count.                                                       *)
(***************************************************************************)
Held(s, u) == u.tool = s.tool /\ u.spec = s.spec

\* The request before, or the one just made.
Asked(s, u, mode, tool) ==
  u.asked = IF "set_mode" \in up THEN [mode |-> mode, tool |-> tool] ELSE s.asked

LEMMA SetVisionModeAsks ==
  ASSUME NEW s \in TaskState, NEW mode, NEW tool
  PROVE  LET u == SetVisionMode(s, mode, tool)
         IN  /\ Held(s, u) /\ Asked(s, u, mode, tool) /\ Prompt(s, u)
             /\ Current(u.calls, {"set_mode"}) = {}
<1> DEFINE u == SetVisionMode(s, mode, tool)
<1>1. u.calls = Retire(s.calls, {"set_mode"}) /\ Held(s, u) /\ Asked(s, u, mode, tool)
  BY DEF SetVisionMode, TaskState, Held, Asked
<1>2. s.calls \in SUBSET Call /\ {"set_mode"} \cap GoalKinds = {}
  BY DEF TaskState, GoalKinds
<1>3. Current(u.calls, {"set_mode"}) = {}
  BY <1>1, <1>2, CurrentRetire
<1>4. Prompt(s, u)
  BY <1>1, <1>2, LateKept DEF Prompt
<1>. QED
  BY <1>1, <1>3, <1>4

\* The node has failed and waits for nothing.
Dead(u) ==
  /\ ~u.goalInProgress /\ u.cancelPending = None /\ ~u.recoveryInProgress
  /\ u.safety = "FAULT" /\ Current(u.calls, {"set_mode"}) = {}

LEMMA ExceptionAsks ==
  ASSUME NEW s \in TaskState, Waits(s)
  PROVE  LET u == ActionFutureException(s)
         IN  /\ Book(u) /\ Dead(u) /\ u.state = s.state
             /\ Held(s, u) /\ Asked(s, u, "OFF", None)
<1> DEFINE r == CaptureResumeSnapshot(s)
           calls == Untime(Retire(r.calls, GoalKinds \cup {"recover"}), {"recover"})
           t == [r EXCEPT
       !.goalInProgress = FALSE, !.goalHandle = FALSE, !.resultState = None,
       !.cancelTimer = FALSE, !.cancelPending = None,
       !.calls = Untime(Retire(@, GoalKinds \cup {"recover"}), {"recover"}),
       !.recoveryInProgress = FALSE,
       !.safety = "FAULT"]
           u == ActionFutureException(s)
<1>1. r \in TaskState /\ Held(s, r) /\ r.asked = s.asked
  BY CaptureType DEF CaptureResumeSnapshot, TaskState, Held
<1>2. u = SetVisionMode(t, "OFF", None)
  BY DEF ActionFutureException
<1> HIDE DEF r
<1>3. calls \in SUBSET Call
  <2>1. Retire(r.calls, GoalKinds \cup {"recover"}) \in SUBSET Call
    BY <1>1, RetireType DEF TaskState
  <2>. QED
    BY <2>1, UntimeType
<1>4. t \in TaskState
  BY ZenonT(60), <1>1, <1>3 DEF TaskState, Safety, FaultLevel
<1>5. Held(r, t) /\ t.asked = r.asked
  BY <1>1 DEF TaskState, Held
<1>6. /\ Book(u) /\ u.state = s.state /\ u.safety = "FAULT" /\ ~u.goalInProgress
  BY ExceptionBook
<1> HIDE DEF t, u
<1>7. Held(t, u) /\ Asked(t, u, "OFF", None) /\ Current(u.calls, {"set_mode"}) = {}
  BY <1>2, <1>4, SetVisionModeAsks
<1>8. u.cancelPending = None /\ ~u.recoveryInProgress
  BY <1>6, AtRest DEF Book, Recovers
<1>9. Held(s, u) /\ Asked(s, u, "OFF", None)
  BY <1>1, <1>5, <1>7 DEF Held, Asked
<1>. QED
  BY <1>6, <1>7, <1>8, <1>9 DEF Dead, u

LEMMA FinishCancelAsks ==
  ASSUME NEW s \in TaskState, NEW callback \in {"noop", "idle"} \cup Mode
  PROVE  LET u == FinishCancel(s, callback)
         IN  /\ Current(u.calls, {"set_mode"}) = Current(s.calls, {"set_mode"})
             /\ u.recoveryInProgress => s.recoveryInProgress
             /\ Held(s, u) /\ u.asked = s.asked /\ Prompt(s, u)
<1>1. ASSUME NEW r \in TaskState
      PROVE  LET u == MaybeStartRecovery(r)
             IN  /\ Current(u.calls, {"set_mode"}) = Current(r.calls, {"set_mode"})
                 /\ u.recoveryInProgress => r.recoveryInProgress
                 /\ Held(r, u) /\ u.asked = r.asked /\ Prompt(r, u)
  <2> DEFINE new == NewCall("recover", None, TRUE)
             old == Untime(r.calls, {"recover"})
             dropped == [r EXCEPT !.recoveryInProgress = FALSE]
             called == [r EXCEPT !.calls = Untime(@, {"recover"}) \cup {NewCall("recover", None, TRUE)}]
  <2>1. MaybeStartRecovery(r) \in {r, dropped, called}
        /\ (MaybeStartRecovery(r) = called => r.recoveryInProgress \/ called = r)
    BY DEF MaybeStartRecovery, CallRecoverService
  <2>2. /\ dropped.calls = r.calls /\ ~dropped.recoveryInProgress
        /\ Held(r, dropped) /\ dropped.asked = r.asked
    BY DEF TaskState, Held
  <2>3. /\ called.calls = old \cup {new} /\ called.recoveryInProgress = r.recoveryInProgress
        /\ Held(r, called) /\ called.asked = r.asked
    BY DEF TaskState, Held
  <2>4. r.calls \in SUBSET Call /\ {"recover"} \cap {"set_mode"} = {}
    BY DEF TaskState
  <2>5. Current(old, {"set_mode"}) = Current(r.calls, {"set_mode"})
    BY <2>4, CurrentUntime
  <2>6. new.kind \notin {"set_mode"}
    BY DEF NewCall
  <2>8. NothingLate(r.calls) => NothingLate(old \cup {new})
    <3>1. NothingLate(r.calls) => NothingLate(old)
      BY <2>4, LateKept
    <3>2. new.current
      BY DEF NewCall
    <3> HIDE DEF new, old
    <3>. QED
      BY <3>1, <3>2 DEF NothingLate
  <2> HIDE DEF new, old, dropped, called
  <2>7. Current(old \cup {new}, {"set_mode"}) = Current(old, {"set_mode"})
    BY <2>6, CurrentOther
  <2>. QED
    BY <2>1, <2>2, <2>3, <2>5, <2>7, <2>8 DEF Held, Prompt
<1>2. /\ callback = "noop" => FinishCancel(s, callback) = MaybeStartRecovery(s)
      /\ callback = "idle" =>
           FinishCancel(s, callback) = MaybeStartRecovery([s EXCEPT !.state = "IDLE"])
      /\ callback \in Mode =>
           FinishCancel(s, callback)
             = MaybeStartRecovery([s EXCEPT !.mode = callback, !.state = "IDLE"])
  BY DEF FinishCancel, Mode
<1>3. ASSUME NEW r \in TaskState, r.calls = s.calls,
             r.recoveryInProgress = s.recoveryInProgress, Held(s, r), r.asked = s.asked
      PROVE  LET u == MaybeStartRecovery(r)
             IN  /\ Current(u.calls, {"set_mode"}) = Current(s.calls, {"set_mode"})
                 /\ u.recoveryInProgress => s.recoveryInProgress
                 /\ Held(s, u) /\ u.asked = s.asked /\ Prompt(s, u)
  BY <1>1, <1>3 DEF Held, Prompt
<1>4. CASE callback = "noop"
  BY <1>2, <1>3, <1>4 DEF Held
<1>5. CASE callback = "idle"
  <2> DEFINE r == [s EXCEPT !.state = "IDLE"]
  <2>1. /\ r \in TaskState /\ r.calls = s.calls
        /\ r.recoveryInProgress = s.recoveryInProgress /\ Held(s, r) /\ r.asked = s.asked
    BY DEF TaskState, State, Held
  <2>2. FinishCancel(s, callback) = MaybeStartRecovery(r)
    BY <1>2, <1>5
  <2> HIDE DEF r
  <2>. QED
    BY <1>3, <2>1, <2>2
<1>6. CASE callback \in Mode
  <2> DEFINE r == [s EXCEPT !.mode = callback, !.state = "IDLE"]
  <2>1. /\ r \in TaskState /\ r.calls = s.calls
        /\ r.recoveryInProgress = s.recoveryInProgress /\ Held(s, r) /\ r.asked = s.asked
    BY <1>6 DEF TaskState, State, Held
  <2>2. FinishCancel(s, callback) = MaybeStartRecovery(r)
    BY <1>2, <1>6
  <2> HIDE DEF r
  <2>. QED
    BY <1>3, <2>1, <2>2
<1>. QED
  BY <1>4, <1>5, <1>6

(***************************************************************************)
(* How a cancellation leaves the node, besides failed: the goal is being   *)
(* cancelled, or there was none and the callback has run.                  *)
(***************************************************************************)
Stopping(s, u, callback) ==
  /\ s.goalInProgress /\ u.goalInProgress
  /\ u.goalHandle = s.goalHandle /\ u.resultState = s.resultState
  /\ u.state = s.state /\ u.safety = s.safety
  /\ u.cancelPending = callback /\ u.recoveryInProgress = s.recoveryInProgress
  /\ Current(u.calls, GoalKinds) = Current(s.calls, GoalKinds)
  /\ Current(u.calls, {"recover"}) = {} /\ Current(u.calls, {"set_mode"}) = {}

Confirmed(s, u, callback) ==
  /\ ~s.goalInProgress /\ ~u.goalInProgress /\ u.cancelPending = None
  /\ u.safety = s.safety /\ (u.recoveryInProgress => s.recoveryInProgress)
  /\ u.state = IF callback = "noop" THEN s.state ELSE "IDLE"
  /\ Current(u.calls, {"set_mode"}) = {}

LEMMA RequestCancelAsks ==
  ASSUME NEW s, Base(s), Current(s.calls, {"recover"}) = {},
         s.recoveryInProgress => s.safety = "RECOVERY_REQUIRED",
         NEW callback \in {"noop", "idle"} \cup Mode,
         callback = "noop" => s.safety # "NORMAL"
  PROVE  LET u == RequestCancel(s, callback)
         IN  /\ Book(u) /\ Held(s, u) /\ Asked(s, u, "OFF", None) /\ Prompt(s, u)
             /\ Dead(u) \/ Stopping(s, u, callback) \/ Confirmed(s, u, callback)
<1> DEFINE v == SetVisionMode(s, "OFF", None)
           quiet == CancelAllTimers(v)
           asked == [quiet EXCEPT !.cancelPending = callback, !.cancelTimer = TRUE]
           u == RequestCancel(s, callback)
<1>1. s \in TaskState /\ Waits(s)
  BY DEF Base
<1>2. quiet \in TaskState /\ SameTask(s, quiet) /\ SameCalls(s, quiet) /\ Waits(quiet)
  BY <1>1, QuietFrame
<1>3. /\ Held(s, quiet) /\ Asked(s, quiet, "OFF", None) /\ Prompt(s, quiet)
      /\ Current(quiet.calls, {"set_mode"}) = {}
  <2>1. v \in TaskState
    BY <1>1, SetVisionModeType, RequestTypes
  <2>2. /\ Held(s, v) /\ Asked(s, v, "OFF", None) /\ Prompt(s, v)
        /\ Current(v.calls, {"set_mode"}) = {}
    BY <1>1, SetVisionModeAsks
  <2> HIDE DEF v
  <2>3. quiet.calls = v.calls /\ Held(v, quiet) /\ quiet.asked = v.asked
    BY <2>1 DEF CancelAllTimers, TaskState, Held
  <2>. QED
    BY <2>2, <2>3 DEF Held, Asked, Prompt
<1>4. u = IF ~s.goalInProgress THEN FinishCancel(quiet, callback)
          ELSE IF s.goalHandle /\ "robot_task" \notin up THEN ActionFutureException(asked)
          ELSE asked
  BY DEF RequestCancel
<1>5. Cancelled(s, u, callback)
  BY RequestCancelBook
<1> HIDE DEF quiet, u
<1>6. /\ asked \in TaskState /\ asked.calls = quiet.calls /\ asked.asked = quiet.asked
      /\ Held(quiet, asked) /\ asked.cancelPending = callback
      /\ asked.state = quiet.state /\ asked.safety = quiet.safety
      /\ asked.goalInProgress = quiet.goalInProgress
      /\ asked.goalHandle = quiet.goalHandle /\ asked.resultState = quiet.resultState
      /\ asked.recoveryInProgress = quiet.recoveryInProgress
  <2>1. asked \in TaskState
    BY <1>2 DEF TaskState
  <2>2. /\ asked.calls = quiet.calls /\ asked.asked = quiet.asked
        /\ Held(quiet, asked) /\ asked.cancelPending = callback
        /\ asked.state = quiet.state /\ asked.safety = quiet.safety
        /\ asked.goalInProgress = quiet.goalInProgress
        /\ asked.goalHandle = quiet.goalHandle /\ asked.resultState = quiet.resultState
        /\ asked.recoveryInProgress = quiet.recoveryInProgress
    BY <1>2 DEF TaskState, Held
  <2>. QED
    BY <2>1, <2>2
<1> HIDE DEF asked
<1>7. Book(u)
  BY <1>5 DEF Cancelled
<1>8. CASE ~s.goalInProgress
  <2>1. /\ Current(u.calls, {"set_mode"}) = Current(quiet.calls, {"set_mode"})
        /\ u.recoveryInProgress => quiet.recoveryInProgress
        /\ Held(quiet, u) /\ u.asked = quiet.asked /\ Prompt(quiet, u)
    BY <1>2, <1>4, <1>8, FinishCancelAsks
  <2>2. /\ Held(s, u) /\ Asked(s, u, "OFF", None) /\ Prompt(s, u)
        /\ Current(u.calls, {"set_mode"}) = {}
        /\ u.recoveryInProgress => s.recoveryInProgress
    BY <1>2, <1>3, <2>1 DEF Held, Asked, Prompt, SameTask
  <2>3. /\ ~u.goalInProgress /\ u.safety = s.safety
        /\ u.state = IF callback = "noop" THEN s.state ELSE "IDLE"
    <3>1. /\ Base(quiet) /\ Current(quiet.calls, {"recover"}) = {}
          /\ ~quiet.goalInProgress /\ quiet.state = s.state /\ quiet.safety = s.safety
          /\ quiet.recoveryInProgress = s.recoveryInProgress
      BY <1>2, <1>8, BookKept DEF SameTask, SameCalls
    <3>2. /\ ~FinishCancel(quiet, callback).goalInProgress
          /\ FinishCancel(quiet, callback).safety = quiet.safety
          /\ FinishCancel(quiet, callback).state
               = IF callback = "noop" THEN quiet.state ELSE "IDLE"
      BY <3>1, FinishCancelBook
    <3>. QED
      BY <1>4, <1>8, <3>1, <3>2
  <2>4. u.cancelPending = None
    BY <1>7, <2>3, AtRest DEF Book
  <2>. QED
    BY <1>7, <1>8, <2>2, <2>3, <2>4 DEF Confirmed, u
<1>9. CASE s.goalInProgress /\ s.goalHandle /\ "robot_task" \notin up
  <2>1. Waits(asked)
    BY <1>2, <1>6 DEF Waits
  <2>2. Dead(u) /\ Held(asked, u) /\ Asked(asked, u, "OFF", None)
    BY <1>4, <1>6, <1>9, <2>1, ExceptionAsks
  <2>. QED
    <3>1. Held(s, u) /\ Asked(s, u, "OFF", None)
      BY <1>3, <1>6, <2>2 DEF Held, Asked
    <3>2. Prompt(s, u)
      BY <1>9 DEF Prompt
    <3>. QED
      BY <1>7, <2>2, <3>1, <3>2 DEF u
<1>10. CASE s.goalInProgress /\ ~(s.goalHandle /\ "robot_task" \notin up)
  <2>1. u = asked
    BY <1>4, <1>10
  <2>2. /\ Current(quiet.calls, GoalKinds) = Current(s.calls, GoalKinds)
        /\ Current(quiet.calls, {"recover"}) = Current(s.calls, {"recover"})
    <3>1. GoalKinds \in {GoalKinds, {"get_result"}, {"recover"}}
          /\ {"recover"} \in {GoalKinds, {"get_result"}, {"recover"}}
      OBVIOUS
    <3>. QED
      BY <1>2, <3>1 DEF SameCalls
  <2>3. Stopping(s, u, callback)
    BY <1>2, <1>3, <1>6, <1>10, <2>1, <2>2 DEF Stopping, SameTask
  <2>. QED
    <3>1. Held(s, u) /\ Asked(s, u, "OFF", None) /\ Prompt(s, u)
      BY <1>3, <1>6, <2>1 DEF Held, Asked, Prompt
    <3>. QED
      BY <1>7, <2>3, <3>1 DEF u
<1>. QED
  BY <1>8, <1>9, <1>10

(***************************************************************************)
(* How a fault leaves the node, besides failed: the goal, if any, is being *)
(* cancelled.                                                              *)
(***************************************************************************)
Faulted(s, u, level) ==
  /\ u.goalInProgress = s.goalInProgress /\ u.goalHandle = s.goalHandle
  /\ u.resultState = s.resultState /\ u.safety = level /\ ~u.recoveryInProgress
  /\ u.cancelPending # None <=> s.goalInProgress
  /\ Current(u.calls, GoalKinds) = Current(s.calls, GoalKinds)
  /\ Current(u.calls, {"set_mode"}) = {}

LEMMA EnterFaultAsks ==
  ASSUME NEW s, Base(s), NEW level \in FaultLevel
  PROVE  LET u == EnterFault(s, level)
         IN  /\ Book(u) /\ Held(s, u) /\ Asked(s, u, "OFF", None) /\ Prompt(s, u)
             /\ u.state = s.state /\ u.safety # "NORMAL"
             /\ Dead(u) \/ Faulted(s, u, level)
<1> DEFINE r == CaptureResumeSnapshot(s)
           t == [r EXCEPT
       !.recoveryInProgress = FALSE,
       !.calls = Untime(Retire(@, {"recover"}), {"recover", "set_mode"}),
       !.safety = level]
           old == Retire(s.calls, {"recover"})
           calls == Untime(old, {"recover", "set_mode"})
           u == EnterFault(s, level)
<1>1. s \in TaskState /\ s.calls \in SUBSET Call /\ Waits(s)
  BY DEF Base, TaskState
<1>2. r \in TaskState /\ r.calls = s.calls /\ SameTask(s, r) /\ Held(s, r) /\ r.asked = s.asked
  <2>1. Held(s, r) /\ r.asked = s.asked
    BY <1>1 DEF CaptureResumeSnapshot, TaskState, Held
  <2>. QED
    BY <1>1, <2>1, CaptureType, CaptureFrame
<1>3. u = RequestCancel(t, "noop")
  BY DEF EnterFault
<1> HIDE DEF r, u
<1>4. old \in SUBSET Call
  BY <1>1, RetireType
<1>5. calls \in SUBSET Call
  BY <1>4, UntimeType
<1>6. /\ Current(calls, GoalKinds) = Current(s.calls, GoalKinds)
      /\ Current(calls, {"get_result"}) = Current(s.calls, {"get_result"})
      /\ Current(calls, {"recover"}) = {}
      /\ NothingLate(s.calls) => NothingLate(calls)
  <2>1. /\ {"recover"} \cap GoalKinds = {} /\ {"recover"} \cap {"get_result"} = {}
        /\ {"recover", "set_mode"} \cap GoalKinds = {}
        /\ {"recover", "set_mode"} \cap {"get_result"} = {}
    BY DEF GoalKinds
  <2>2. /\ Current(old, GoalKinds) = Current(s.calls, GoalKinds)
        /\ Current(old, {"get_result"}) = Current(s.calls, {"get_result"})
        /\ Current(old, {"recover"}) = {}
        /\ NothingLate(s.calls) => NothingLate(old)
    BY <1>1, <2>1, CurrentRetire, LateKept
  <2> HIDE DEF old
  <2>3. /\ Current(calls, GoalKinds) = Current(old, GoalKinds)
        /\ Current(calls, {"get_result"}) = Current(old, {"get_result"})
        /\ NothingLate(old) => NothingLate(calls)
    BY <1>4, <2>1, CurrentUntime, LateKept
  <2>4. Current(calls, {"recover"}) = {}
    BY <1>4, <2>2, CurrentUntime
  <2>. QED
    BY <2>2, <2>3, <2>4
<1>7. \A c \in calls : c.kind = "set_mode" => c.what \in {"MOVE_TO_WATCH", "APPROACH_HAND"}
  BY <1>1, <1>4, WaitsKept DEF Waits
<1>8. /\ t \in TaskState /\ t.calls = calls /\ t.asked = s.asked /\ Held(s, t)
      /\ t.state = s.state /\ t.safety = level
      /\ t.goalInProgress = s.goalInProgress /\ t.goalHandle = s.goalHandle
      /\ t.resultState = s.resultState /\ t.cancelPending = s.cancelPending
      /\ t.cancelTimer = s.cancelTimer /\ ~t.recoveryInProgress
  <2>1. t \in TaskState /\ t.calls = calls
    BY <1>2, <1>5 DEF TaskState, Safety
  <2>2. /\ t.state = r.state /\ t.safety = level /\ t.asked = r.asked /\ Held(r, t)
        /\ t.goalInProgress = r.goalInProgress /\ t.goalHandle = r.goalHandle
        /\ t.resultState = r.resultState /\ t.cancelPending = r.cancelPending
        /\ t.cancelTimer = r.cancelTimer /\ ~t.recoveryInProgress
    BY <1>2 DEF TaskState, Held
  <2> HIDE DEF t
  <2>. QED
    BY <1>2, <2>1, <2>2 DEF SameTask, Held
<1> HIDE DEF t, calls, old
<1>9. Base(t)
  BY <1>6, <1>7, <1>8 DEF Base, Goals, Cancels, Waits
<1>10. level # "NORMAL" /\ "FAULT" # "NORMAL"
  BY DEF FaultLevel
<1>11. /\ Book(u) /\ Held(t, u) /\ Asked(t, u, "OFF", None) /\ Prompt(t, u)
       /\ Dead(u) \/ Stopping(t, u, "noop") \/ Confirmed(t, u, "noop")
  BY <1>3, <1>6, <1>8, <1>9, <1>10, RequestCancelAsks
<1>12. Held(s, u) /\ Asked(s, u, "OFF", None) /\ Prompt(s, u)
  BY <1>6, <1>8, <1>11 DEF Held, Asked, Prompt
<1>13. Cancelled(t, u, "noop")
  BY <1>3, <1>6, <1>8, <1>9, <1>10, RequestCancelBook
<1>14. u.state = s.state /\ u.safety # "NORMAL"
  BY <1>8, <1>10, <1>13 DEF Cancelled
<1>15. ASSUME Stopping(t, u, "noop") PROVE Faulted(s, u, level)
  <2>1. "noop" # None
    BY DEF None
  <2>. QED
    BY <1>6, <1>8, <1>15, <2>1 DEF Stopping, Faulted
<1>16. ASSUME Confirmed(t, u, "noop") PROVE Faulted(s, u, level)
  <2>1. /\ Base(u) /\ ~u.goalInProgress /\ ~t.goalInProgress
        /\ u.goalInProgress \in BOOLEAN /\ t.goalInProgress \in BOOLEAN
        /\ u.goalHandle \in BOOLEAN /\ t.goalHandle \in BOOLEAN
    BY <1>8, <1>11, <1>16 DEF Confirmed, Book, Base, TaskState
  <2>2. /\ ~u.goalHandle /\ u.resultState = None /\ Current(u.calls, GoalKinds) = {}
        /\ ~t.goalHandle /\ t.resultState = None /\ Current(t.calls, GoalKinds) = {}
    BY <1>9, <2>1, AtRest
  <2>3. /\ u.goalInProgress = t.goalInProgress /\ u.goalHandle = t.goalHandle
    BY <2>1, <2>2
  <2>. QED
    BY <1>6, <1>8, <1>16, <2>1, <2>2, <2>3 DEF Confirmed, Faulted
<1>. QED
  BY <1>11, <1>12, <1>14, <1>15, <1>16 DEF u

(***************************************************************************)
(* How a goal or a request is made: everything else stays as it was.       *)
(***************************************************************************)
GoalSent(s, u, goal) ==
  /\ u.goalInProgress /\ ~u.goalHandle /\ u.resultState = s.state
  /\ u.safety = s.safety /\ u.cancelPending = None
  /\ u.recoveryInProgress = s.recoveryInProgress /\ u.asked = s.asked
  /\ Current(u.calls, GoalKinds) = {NewCall("send_goal", goal, FALSE)}
  /\ Current(u.calls, {"set_mode"}) = Current(s.calls, {"set_mode"})

LEMMA SendAsks ==
  ASSUME NEW s, Book(s), ~s.goalInProgress, NEW goal \in Goal
  PROVE  LET u == SendRobotGoal(s, goal)
         IN  /\ Book(u) /\ Held(s, u) /\ Prompt(s, u) /\ u.state = s.state
             /\ \/ Dead(u) /\ Asked(s, u, "OFF", None)
                \/ GoalSent(s, u, goal)
<1> DEFINE calls == Retire(s.calls, GoalKinds)
           new == NewCall("send_goal", goal, FALSE)
           sent == [s EXCEPT !.goalInProgress = TRUE, !.resultState = s.state,
                             !.calls = Retire(@, GoalKinds)]
           out == [sent EXCEPT !.calls = @ \cup {NewCall("send_goal", goal, FALSE)}]
           u == SendRobotGoal(s, goal)
<1>1. s \in TaskState /\ s.calls \in SUBSET Call /\ Waits(s) /\ Base(s)
  BY DEF Book, Base, TaskState
<1>2. /\ ~s.goalHandle /\ s.cancelPending = None /\ Current(s.calls, GoalKinds) = {}
  BY <1>1, AtRest
<1>3. Book(u) /\ u.state = s.state
  BY SendBook
<1>4. u = IF "robot_task" \notin up THEN ActionFutureException(sent) ELSE out
  BY DEF SendRobotGoal
<1> HIDE DEF u
<1>5. calls \in SUBSET Call
  BY <1>1, RetireType
<1>6. /\ sent \in TaskState /\ sent.calls = calls /\ Held(s, sent) /\ sent.asked = s.asked
      /\ sent.goalInProgress /\ sent.goalHandle = s.goalHandle
      /\ sent.resultState = s.state /\ sent.safety = s.safety
      /\ sent.cancelPending = s.cancelPending
      /\ sent.recoveryInProgress = s.recoveryInProgress
  <2>1. sent \in TaskState
    BY <1>1, <1>5 DEF TaskState
  <2>2. /\ sent.calls = calls /\ Held(s, sent) /\ sent.asked = s.asked
        /\ sent.goalInProgress /\ sent.goalHandle = s.goalHandle
        /\ sent.resultState = s.state /\ sent.safety = s.safety
        /\ sent.cancelPending = s.cancelPending
        /\ sent.recoveryInProgress = s.recoveryInProgress
    BY <1>1 DEF TaskState, Held
  <2>. QED
    BY <2>1, <2>2
<1> HIDE DEF sent
<1>7. CASE "robot_task" \notin up
  <2>1. Waits(sent)
    BY <1>1, <1>6, WaitsKept DEF Waits
  <2>2. Dead(u) /\ Held(sent, u) /\ Asked(sent, u, "OFF", None)
    BY <1>4, <1>6, <1>7, <2>1, ExceptionAsks
  <2>3. Held(s, u) /\ Asked(s, u, "OFF", None) /\ Prompt(s, u)
    BY <1>6, <1>7, <2>2 DEF Held, Asked, Prompt
  <2>. QED
    BY <1>3, <2>2, <2>3 DEF u
<1>8. CASE "robot_task" \in up
  <2>1. u = out
    BY <1>4, <1>8
  <2>2. /\ out.calls = calls \cup {new} /\ Held(sent, out) /\ out.asked = sent.asked
        /\ out.goalInProgress = sent.goalInProgress /\ out.goalHandle = sent.goalHandle
        /\ out.resultState = sent.resultState /\ out.safety = sent.safety
        /\ out.cancelPending = sent.cancelPending
        /\ out.recoveryInProgress = sent.recoveryInProgress
    BY <1>6 DEF TaskState, Held
  <2>3. /\ Current(calls, GoalKinds) = {}
        /\ Current(calls, {"set_mode"}) = Current(s.calls, {"set_mode"})
        /\ NothingLate(s.calls) => NothingLate(calls)
    <3>1. GoalKinds \cap {"set_mode"} = {}
      BY DEF GoalKinds
    <3>. QED
      BY <1>1, <1>2, <3>1, CurrentRetire, LateKept
  <2>4. new.kind \notin {"set_mode"} /\ new.current
    BY DEF NewCall
  <2> HIDE DEF calls, out
  <2>5. Current(calls \cup {new}, GoalKinds) = Current(calls, GoalKinds) \cup {new}
    BY CurrentSent
  <2>6. Current(calls \cup {new}, {"set_mode"}) = Current(calls, {"set_mode"})
    BY <2>4, CurrentOther
  <2>7. NothingLate(calls) => NothingLate(calls \cup {new})
    BY <2>4 DEF NothingLate
  <2>8. GoalSent(s, u, goal)
    BY <1>2, <1>6, <2>1, <2>2, <2>3, <2>5, <2>6 DEF GoalSent
  <2>9. Held(s, u) /\ Prompt(s, u)
    BY <1>6, <2>1, <2>2, <2>3, <2>7 DEF Held, Prompt
  <2>. QED
    BY <1>3, <2>8, <2>9 DEF u
<1>. QED
  BY <1>7, <1>8

ModeAsked(s, u, mode, tool) ==
  /\ u.goalInProgress = s.goalInProgress /\ u.goalHandle = s.goalHandle
  /\ u.resultState = s.resultState
  /\ u.safety = s.safety /\ u.cancelPending = s.cancelPending
  /\ u.recoveryInProgress = s.recoveryInProgress
  /\ u.asked = [mode |-> mode, tool |-> tool]
  /\ Current(u.calls, GoalKinds) = Current(s.calls, GoalKinds)

LEMMA StartAsks ==
  ASSUME NEW s, Book(s), NEW mode, NEW tool, [mode |-> mode, tool |-> tool] \in VisionRequest,
         s.state \in {"MOVE_TO_WATCH", "APPROACH_HAND"}
  PROVE  LET u == StartAfterVisionMode(s, mode, tool, s.state)
         IN  /\ Held(s, u) /\ Prompt(s, u) /\ u.state = s.state
             /\ "set_mode" \in up => ModeAsked(s, u, mode, tool)
             /\ "set_mode" \notin up =>
                  u.safety # "NORMAL" /\ (Dead(u) \/ Faulted(s, u, "FAULT"))
<1> DEFINE t == SetVisionMode(s, mode, tool)
           old == Untime(t.calls, {"set_mode"})
           new == NewCall("set_mode", s.state, TRUE)
           out == [t EXCEPT !.calls = Untime(@, {"set_mode"})
                                        \cup {NewCall("set_mode", s.state, TRUE)}]
           u == StartAfterVisionMode(s, mode, tool, s.state)
<1>1. s \in TaskState /\ Waits(s)
  BY DEF Book, Base
<1>2. t \in TaskState /\ SameTask(s, t) /\ SameCalls(s, t) /\ Waits(t)
  BY <1>1, SetVisionModeType, SetVisionModeFrame
<1>3. Held(s, t) /\ Asked(s, t, mode, tool) /\ Prompt(s, t)
  BY <1>1, SetVisionModeAsks
<1>4. u = IF "set_mode" \notin up THEN EnterFault(t, "FAULT") ELSE out
  BY DEF StartAfterVisionMode
<1> HIDE DEF t, u
<1>5. /\ Base(t) /\ t.state = s.state /\ t.safety = s.safety
      /\ t.goalInProgress = s.goalInProgress /\ t.goalHandle = s.goalHandle
      /\ t.resultState = s.resultState /\ t.cancelPending = s.cancelPending
      /\ t.recoveryInProgress = s.recoveryInProgress
      /\ Current(t.calls, GoalKinds) = Current(s.calls, GoalKinds)
  <2>1. GoalKinds \in {GoalKinds, {"get_result"}, {"recover"}}
    OBVIOUS
  <2>2. Book(t)
    BY <1>2, BookKept
  <2>. QED
    BY <1>2, <2>1, <2>2 DEF SameTask, SameCalls, Book
<1>6. CASE "set_mode" \notin up
  <2>1. /\ Held(t, u) /\ Prompt(t, u) /\ u.state = t.state /\ u.safety # "NORMAL"
        /\ Dead(u) \/ Faulted(t, u, "FAULT")
    BY <1>4, <1>5, <1>6, EnterFaultAsks DEF FaultLevel
  <2>2. Held(s, u) /\ Prompt(s, u) /\ u.state = s.state
    BY <1>3, <1>5, <2>1 DEF Held, Prompt
  <2>3. Faulted(t, u, "FAULT") => Faulted(s, u, "FAULT")
    BY <1>5 DEF Faulted
  <2>. QED
    BY <1>6, <2>1, <2>2, <2>3 DEF u
<1>7. CASE "set_mode" \in up
  <2>1. u = out
    BY <1>4, <1>7
  <2>2. /\ out.calls = old \cup {new} /\ out.asked = t.asked /\ Held(t, out)
        /\ SameTask(t, out)
    BY <1>2 DEF TaskState, Held, SameTask
  <2>3. t.calls \in SUBSET Call /\ {"set_mode"} \cap GoalKinds = {}
    BY <1>2 DEF TaskState, GoalKinds
  <2>4. /\ Current(old, GoalKinds) = Current(t.calls, GoalKinds)
        /\ NothingLate(t.calls) => NothingLate(old)
    BY <2>3, CurrentUntime, LateKept
  <2>5. new.kind \notin GoalKinds
    BY DEF NewCall, GoalKinds
  <2> HIDE DEF old, new, out
  <2>6. Current(old \cup {new}, GoalKinds) = Current(old, GoalKinds)
    BY <2>5, CurrentOther
  <2>7. NothingLate(old) => NothingLate(old \cup {new})
    BY <2>5 DEF NothingLate
  <2>8. ModeAsked(s, u, mode, tool)
    BY <1>3, <1>5, <1>7, <2>1, <2>2, <2>4, <2>6 DEF ModeAsked, SameTask, Asked
  <2>9. Held(s, u) /\ Prompt(s, u) /\ u.state = s.state
    BY <1>3, <1>5, <2>1, <2>2, <2>4, <2>7 DEF Held, Prompt, SameTask
  <2>. QED
    BY <1>7, <2>8, <2>9 DEF u
<1>. QED
  BY <1>6, <1>7

(***************************************************************************)
(* The invariants of the flow: what the state, the goal, the cancellation  *)
(* and the level have to do with each other.                               *)
(***************************************************************************)
\* An answer of vision_node moves the robot only at NORMAL, and not during a cancellation.
AnswersWanted(s) ==
  s.safety # "NORMAL" \/ s.cancelPending # None => Current(s.calls, {"set_mode"}) = {}

\* Away from NORMAL a goal is a goal being cancelled.
Stopped(s) == s.safety # "NORMAL" /\ s.goalInProgress => s.cancelPending # None

\* At NORMAL the state shows the goal, or that it is being cancelled.
Matched(s) ==
  /\ s.resultState \notin {"IDLE", "DETECT_TRACK", "CANCELLING"}
  /\ s.safety = "NORMAL" /\ s.goalInProgress =>
       IF s.cancelPending # None THEN s.state = "CANCELLING" ELSE s.resultState = s.state

\* The goals of the stages that carry the tool do not touch the gripper.
Carrying(s) ==
  s.resultState \in {"MOVE_SAFE", "APPROACH_HAND"} =>
    \A c \in Current(s.calls, GoalKinds) : c.what \in {"handover_safe", "handover_approach"}

Flow(s) == AnswersWanted(s) /\ Stopped(s) /\ Matched(s) /\ Carrying(s)

\* A task that is stopped has the camera off.
Dark(s) == s.safety # "NORMAL" \/ s.state = "CANCELLING" => s.asked.mode = "OFF"

\* The next stage of a task starts here ...
Ready(s) == Book(s) /\ ~s.goalInProgress /\ s.safety = "NORMAL"

\* ... and leaves a goal just sent, or none, and possibly a fault.
Fresh(u) ==
  /\ Flow(u)
  /\ u.cancelPending = None /\ ~u.recoveryInProgress /\ ~u.goalHandle
  /\ u.safety \in FaultLevel \cup {"NORMAL"}
  /\ "set_mode" \in up => Dark(u)

\* From s the task enters this state with this vision request, or fails.
Enters(s, u, state, asked) ==
  /\ Fresh(u) /\ Prompt(s, u)
  /\ u.safety = "NORMAL" => u.state = state /\ Held(s, u) /\ u.asked = asked

LEMMA ReadyRest ==
  ASSUME NEW s, Ready(s)
  PROVE  /\ s \in TaskState /\ Base(s) /\ ~s.recoveryInProgress
         /\ ~s.goalHandle /\ s.resultState = None /\ s.cancelPending = None
         /\ Current(s.calls, GoalKinds) = {}
BY AtRest DEF Ready, Book, Base, Recovers

LEMMA ReadyFresh ==
  ASSUME NEW s, Ready(s), s.state # "CANCELLING"
  PROVE  Fresh(s)
<1>1. s.resultState \notin {"IDLE", "DETECT_TRACK", "CANCELLING", "MOVE_SAFE", "APPROACH_HAND"}
  BY ReadyRest DEF None
<1>2. Flow(s)
  BY <1>1, ReadyRest DEF Ready, Flow, AnswersWanted, Stopped, Matched, Carrying
<1>. QED
  BY <1>2, ReadyRest DEF Ready, Fresh, Dark

LEMMA DeadFresh ==
  ASSUME NEW s, NEW u, Book(u), Dead(u), Asked(s, u, "OFF", None)
  PROVE  Fresh(u)
<1>1. Base(u) /\ ~u.goalInProgress /\ ~u.goalHandle /\ u.resultState = None
  BY AtRest DEF Dead, Book
<1>2. u.resultState \notin {"IDLE", "DETECT_TRACK", "CANCELLING", "MOVE_SAFE", "APPROACH_HAND"}
  BY <1>1 DEF None
<1>3. Flow(u)
  BY <1>2 DEF Dead, Flow, AnswersWanted, Stopped, Matched, Carrying
<1>4. "set_mode" \in up => Dark(u)
  BY DEF Asked, Dark
<1>. QED
  BY <1>1, <1>3, <1>4 DEF Dead, Fresh, FaultLevel

LEMMA FaultFresh ==
  ASSUME NEW s, Base(s), ~s.goalInProgress, NEW level \in FaultLevel, NEW state, NEW asked
  PROVE  Enters(s, EnterFault(s, level), state, asked)
<1> DEFINE u == EnterFault(s, level)
<1>1. /\ Book(u) /\ Asked(s, u, "OFF", None) /\ Prompt(s, u) /\ u.safety # "NORMAL"
      /\ Dead(u) \/ Faulted(s, u, level)
  BY EnterFaultAsks
<1> HIDE DEF u
<1>2. ASSUME Faulted(s, u, level) PROVE Fresh(u)
  <2>1. ~u.goalInProgress /\ Base(u) /\ u.cancelPending = None
    BY <1>1, <1>2 DEF Faulted, Book
  <2>2. ~u.goalHandle /\ u.resultState = None
    BY <2>1, AtRest
  <2>3. u.resultState \notin {"IDLE", "DETECT_TRACK", "CANCELLING", "MOVE_SAFE", "APPROACH_HAND"}
    BY <2>2 DEF None
  <2>4. Flow(u)
    BY <1>2, <2>1, <2>3 DEF Faulted, Flow, AnswersWanted, Stopped, Matched, Carrying
  <2>5. "set_mode" \in up => Dark(u)
    BY <1>1 DEF Asked, Dark
  <2>. QED
    BY <1>2, <2>1, <2>2, <2>4, <2>5 DEF Faulted, Fresh
<1>. QED
  BY <1>1, <1>2, DeadFresh DEF Enters, u

LEMMA SendFresh ==
  ASSUME NEW s, Ready(s), NEW goal \in Goal,
         s.state \notin {"IDLE", "DETECT_TRACK", "CANCELLING"},
         s.state \in {"MOVE_SAFE", "APPROACH_HAND"} =>
           goal \in {"handover_safe", "handover_approach"}
  PROVE  Enters(s, SendRobotGoal(s, goal), s.state, s.asked)
<1> DEFINE u == SendRobotGoal(s, goal)
<1>1. /\ Book(u) /\ Held(s, u) /\ Prompt(s, u) /\ u.state = s.state
      /\ \/ Dead(u) /\ Asked(s, u, "OFF", None)
         \/ GoalSent(s, u, goal)
  BY SendAsks DEF Ready
<1> HIDE DEF u
<1>2. CASE Dead(u) /\ Asked(s, u, "OFF", None)
  <2>1. Fresh(u) /\ u.safety # "NORMAL"
    BY <1>1, <1>2, DeadFresh DEF Dead
  <2>. QED
    BY <1>1, <2>1 DEF Enters, u
<1>3. CASE GoalSent(s, u, goal)
  <2>1. NewCall("send_goal", goal, FALSE).what = goal
    BY DEF NewCall
  <2>2. Flow(u)
    BY <1>1, <1>3, <2>1
       DEF Ready, GoalSent, Flow, AnswersWanted, Stopped, Matched, Carrying
  <2>3. Fresh(u)
    BY <1>1, <1>3, <2>2, ReadyRest DEF Ready, GoalSent, Fresh, Dark
  <2>. QED
    BY <1>1, <1>3, <2>3 DEF Enters, GoalSent, u
<1>. QED
  BY <1>1, <1>2, <1>3

LEMMA StartFresh ==
  ASSUME NEW s, Ready(s), NEW mode, NEW tool, [mode |-> mode, tool |-> tool] \in VisionRequest,
         s.state \in {"MOVE_TO_WATCH", "APPROACH_HAND"}
  PROVE  Enters(s, StartAfterVisionMode(s, mode, tool, s.state), s.state,
                [mode |-> mode, tool |-> tool])
<1> DEFINE t == SetVisionMode(s, mode, tool)
           u == StartAfterVisionMode(s, mode, tool, s.state)
<1>1. s \in TaskState /\ Waits(s)
  BY DEF Ready, Book, Base
<1>2. CASE "set_mode" \notin up
  <2>1. t \in TaskState /\ SameTask(s, t) /\ SameCalls(s, t) /\ Waits(t) /\ Prompt(s, t)
    BY <1>1, SetVisionModeType, SetVisionModeFrame, SetVisionModeAsks
  <2>2. u = EnterFault(t, "FAULT")
    BY <1>2 DEF StartAfterVisionMode
  <2> HIDE DEF t, u
  <2>3. Base(t) /\ ~t.goalInProgress
    BY <2>1, BookKept DEF Ready, Book, SameTask
  <2>4. Enters(t, u, s.state, [mode |-> mode, tool |-> tool])
    BY <2>2, <2>3, FaultFresh DEF FaultLevel
  <2>5. u.safety # "NORMAL"
    BY <2>2, <2>3, EnterFaultAsks DEF FaultLevel
  <2>. QED
    BY <2>1, <2>4, <2>5 DEF Enters, Prompt, u
<1>3. CASE "set_mode" \in up
  <2>1. ModeAsked(s, u, mode, tool) /\ Held(s, u) /\ Prompt(s, u) /\ u.state = s.state
    BY <1>3, StartAsks DEF Ready
  <2> HIDE DEF u
  <2>2. u.resultState \notin {"IDLE", "DETECT_TRACK", "CANCELLING", "MOVE_SAFE", "APPROACH_HAND"}
    BY <2>1, ReadyRest DEF ModeAsked, None
  <2>3. Flow(u)
    BY <2>1, <2>2, ReadyRest DEF Ready, ModeAsked, Flow, AnswersWanted, Stopped, Matched, Carrying
  <2>4. Fresh(u)
    BY <2>1, <2>3, ReadyRest DEF Ready, ModeAsked, Fresh, Dark
  <2>. QED
    BY <2>1, <2>4 DEF Enters, ModeAsked, u
<1>. QED
  BY <1>2, <1>3

\* A change of state, tool or spec before a stage is entered.
LEMMA ReadyKept ==
  ASSUME NEW s, Ready(s), NEW t \in TaskState, SameBooks(s, t)
  PROVE  Ready(t)
BY BooksKept DEF Ready, SameBooks

LEMMA EntersFrom ==
  ASSUME NEW s, NEW t, NEW u, NEW state, NEW asked, NEW other,
         Held(s, t), t.calls = s.calls, Enters(t, u, state, asked),
         asked = other \/ u.safety # "NORMAL"
  PROVE  Enters(s, u, state, other)
BY DEF Enters, Held, Prompt

LEMMA StageEnters ==
  ASSUME NEW s, Ready(s)
  PROVE  /\ Enters(s, EnterDetectTrack(s), "DETECT_TRACK", s.asked)
         /\ Enters(s, EnterMoveSafe(s), "MOVE_SAFE", s.asked)
         /\ Enters(s, EnterApproachHand(s), "APPROACH_HAND",
                   [mode |-> "TRACK_HAND", tool |-> None])
         /\ Enters(s, EnterWaitPull(s), "WAIT_PULL", s.asked)
         /\ Enters(s, RetryGrasp(s), "VERIFY_GRASP", s.asked)
<1>1. s \in TaskState /\ Base(s) /\ ~s.goalInProgress
  BY ReadyRest DEF Ready
<1>2. ASSUME NEW state \in State
      PROVE  LET t == [s EXCEPT !.state = state]
             IN  /\ Ready(t) /\ t.state = state /\ t.asked = s.asked /\ t.calls = s.calls
                 /\ Held(s, t)
  <2> DEFINE t == [s EXCEPT !.state = state]
  <2>1. /\ t \in TaskState /\ SameBooks(s, t) /\ t.state = state /\ t.asked = s.asked
        /\ t.calls = s.calls /\ Held(s, t)
    BY <1>1 DEF TaskState, SameBooks, Held
  <2> HIDE DEF t
  <2>2. Ready(t)
    BY <2>1, ReadyKept
  <2>. QED
    BY <2>1, <2>2 DEF t
<1>3. /\ {"MOVE_SAFE", "APPROACH_HAND", "VERIFY_GRASP", "DETECT_TRACK"} \subseteq State
      /\ {"handover_safe", "handover_hold", "release_and_retry"} \subseteq Goal
      /\ "FAULT" \in FaultLevel
  BY DEF State, Goal, FaultLevel
<1>4. Enters(s, EnterDetectTrack(s), "DETECT_TRACK", s.asked)
  <2> DEFINE u == EnterDetectTrack(s)
  <2>1. /\ u \in TaskState /\ SameBooks(s, u) /\ u.state = "DETECT_TRACK"
        /\ u.asked = s.asked /\ Held(s, u) /\ u.calls = s.calls
    BY <1>1 DEF EnterDetectTrack, TaskState, State, SameBooks, Held
  <2> HIDE DEF u
  <2>2. Fresh(u)
    BY <2>1, ReadyKept, ReadyFresh
  <2>. QED
    BY <2>1, <2>2 DEF Enters, Prompt, u
<1>5. Enters(s, EnterMoveSafe(s), "MOVE_SAFE", s.asked)
  <2> DEFINE t == [s EXCEPT !.state = "MOVE_SAFE"]
  <2>1. /\ Ready(t) /\ t.state = "MOVE_SAFE" /\ t.asked = s.asked /\ t.calls = s.calls
        /\ Held(s, t)
    BY <1>2, <1>3
  <2>2. EnterMoveSafe(s) = SendRobotGoal(t, "handover_safe")
    BY DEF EnterMoveSafe
  <2> HIDE DEF t
  <2>3. Enters(t, SendRobotGoal(t, "handover_safe"), t.state, t.asked)
    BY <1>3, <2>1, SendFresh
  <2>. QED
    BY <2>1, <2>2, <2>3, EntersFrom
<1>6. Enters(s, EnterApproachHand(s), "APPROACH_HAND", [mode |-> "TRACK_HAND", tool |-> None])
  <2> DEFINE t == [s EXCEPT !.state = "APPROACH_HAND"]
  <2>1. /\ Ready(t) /\ t.state = "APPROACH_HAND" /\ t.calls = s.calls /\ Held(s, t)
    BY <1>2, <1>3
  <2>2. EnterApproachHand(s) = StartAfterVisionMode(t, "TRACK_HAND", None, t.state)
    BY <2>1 DEF EnterApproachHand
  <2> HIDE DEF t
  <2>3. Enters(t, StartAfterVisionMode(t, "TRACK_HAND", None, t.state), t.state,
               [mode |-> "TRACK_HAND", tool |-> None])
    BY <2>1, RequestTypes, StartFresh
  <2>. QED
    BY <2>1, <2>2, <2>3, EntersFrom
<1>7. Enters(s, EnterWaitPull(s), "WAIT_PULL", s.asked)
  <2> DEFINE t == [s EXCEPT !.state = "WAIT_PULL", !.waitPullTimer = "timeout"]
  <2>1. /\ t \in TaskState /\ SameBooks(s, t) /\ t.state = "WAIT_PULL"
        /\ t.asked = s.asked /\ Held(s, t) /\ t.calls = s.calls
    BY <1>1 DEF TaskState, State, SameBooks, Held
  <2>2. EnterWaitPull(s) = SendRobotGoal(t, "handover_hold")
    BY DEF EnterWaitPull
  <2> HIDE DEF t
  <2>3. Ready(t)
    BY <2>1, ReadyKept
  <2>4. Enters(t, SendRobotGoal(t, "handover_hold"), t.state, t.asked)
    BY <1>3, <2>1, <2>3, SendFresh
  <2>. QED
    BY <2>1, <2>2, <2>4, EntersFrom
<1>8. Enters(s, RetryGrasp(s), "VERIFY_GRASP", s.asked)
  <2> DEFINE t == [s EXCEPT !.retries = @ + 1]
             u == [t EXCEPT !.state = "VERIFY_GRASP"]
  <2>1. /\ t \in TaskState /\ Held(s, t) /\ t.asked = s.asked
        /\ t.safety = s.safety
        /\ t.goalInProgress = s.goalInProgress /\ t.goalHandle = s.goalHandle
        /\ t.resultState = s.resultState
        /\ t.cancelPending = s.cancelPending /\ t.cancelTimer = s.cancelTimer
        /\ t.recoveryInProgress = s.recoveryInProgress /\ t.calls = s.calls
    BY <1>1 DEF TaskState, Held
  <2>2. RetryGrasp(s) = IF t.retries > VerifyGraspMaxRetries THEN EnterFault(t, "FAULT")
                        ELSE SendRobotGoal(u, "release_and_retry")
    BY DEF RetryGrasp
  <2> HIDE DEF t
  <2>3. Ready(t) /\ Base(t)
    BY <2>1 DEF Ready, Book, Base, Goals, Cancels, Guarded, Recovers, Waits
  <2>4. /\ u \in TaskState /\ SameBooks(t, u) /\ u.state = "VERIFY_GRASP"
        /\ u.asked = t.asked /\ Held(t, u) /\ u.calls = t.calls
    BY <2>1 DEF TaskState, State, SameBooks, Held
  <2> HIDE DEF u
  <2>5. Ready(u)
    BY <2>3, <2>4, ReadyKept
  <2>6. Enters(u, SendRobotGoal(u, "release_and_retry"), u.state, u.asked)
    BY <1>3, <2>4, <2>5, SendFresh
  <2>7. Enters(t, EnterFault(t, "FAULT"), "VERIFY_GRASP", s.asked)
    BY <1>3, <2>3, FaultFresh DEF Ready
  <2>8. Enters(s, SendRobotGoal(u, "release_and_retry"), "VERIFY_GRASP", s.asked)
    <3>1. Held(s, u) /\ u.calls = s.calls
      BY <2>1, <2>4 DEF Held
    <3>. QED
      BY <2>1, <2>4, <2>6, <3>1, EntersFrom
  <2>9. Enters(s, EnterFault(t, "FAULT"), "VERIFY_GRASP", s.asked)
    BY <2>1, <2>7, EntersFrom
  <2>. QED
    BY <2>2, <2>8, <2>9
<1>. QED
  BY <1>4, <1>5, <1>6, <1>7, <1>8

(***************************************************************************)
(* What a stage needs of the camera and of the task at NORMAL: until the   *)
(* tool is carried the camera tracks the asked-for tool, then the hand.    *)
(***************************************************************************)
Looking == {"MOVE_TO_WATCH", "DETECT_TRACK", "SERVO_PICK", "VERIFY_GRASP", "MOVE_SAFE"}

Served(state, asked, tool) ==
  /\ state \in Looking => asked = [mode |-> "TRACK_TOOL", tool |-> tool] /\ tool # None
  /\ state = "APPROACH_HAND" => asked.mode = "TRACK_HAND"
  /\ state \in {"APPROACH_HAND", "WAIT_PULL"} => tool # None

Staged(s) ==
  s.safety = "NORMAL" => Served(s.state, s.asked, s.tool) /\ (s.spec # None => s.spec = s.tool)

LEMMA StagedEnters ==
  ASSUME NEW s, NEW u, NEW state, NEW asked, Enters(s, u, state, asked),
         s.safety = "NORMAL", Staged(s), Served(state, asked, s.tool)
  PROVE  Staged(u)
BY DEF Enters, Staged, Held

\* A stage begins to carry the tool after a verified grasp, or goes on carrying it.
Grasping(s, outcome) ==
  \/ s.state = "SERVO_PICK" /\ outcome = "grasped"
  \/ s.state \in {"MOVE_SAFE", "APPROACH_HAND"}

LEMMA ResultFresh ==
  ASSUME NEW s, Ready(s), s.state # "CANCELLING", NEW outcome
  PROVE  LET u == HandleResult(s, s.state, outcome)
         IN  /\ Fresh(u) /\ Prompt(s, u)
             /\ Staged(s) => Staged(u)
             /\ u.safety = "NORMAL" /\ u.state \in ContinueStates => Grasping(s, outcome)
<1> DEFINE Good(u) == /\ Fresh(u) /\ Prompt(s, u)
                      /\ Staged(s) => Staged(u)
                      /\ u.safety = "NORMAL" /\ u.state \in ContinueStates
                           => Grasping(s, outcome)
<1>1. s \in TaskState /\ Base(s) /\ ~s.goalInProgress /\ s.safety = "NORMAL"
  BY ReadyRest DEF Ready
<1>2. ASSUME NEW u, NEW state, NEW asked, Enters(s, u, state, asked),
             Staged(s) => Served(state, asked, s.tool),
             state \in ContinueStates => Grasping(s, outcome)
      PROVE  Good(u)
  <2>1. Staged(s) => Staged(u)
    BY <1>1, <1>2, StagedEnters
  <2>. QED
    BY <1>2, <2>1 DEF Enters
<1>3. Good(EnterFault(s, "FAULT"))
  <2>1. Enters(s, EnterFault(s, "FAULT"), "IDLE", s.asked)
    BY <1>1, FaultFresh DEF FaultLevel
  <2>. QED
    BY <1>2, <2>1 DEF Served, Looking, ContinueStates
<1>4. s.state \in Looking => Good(EnterDetectTrack(s))
  BY <1>1, <1>2, StageEnters DEF Staged, Served, Looking, ContinueStates
<1>5. s.state = "MOVE_SAFE" => Good(EnterApproachHand(s))
  BY <1>1, <1>2, StageEnters DEF Staged, Served, Looking, Grasping
<1>6. s.state = "APPROACH_HAND" => Good(EnterWaitPull(s))
  BY <1>1, <1>2, StageEnters DEF Staged, Served, Looking, Grasping
<1>7. ASSUME s.state = "SERVO_PICK" PROVE Good(HandleServoPickResult(s, outcome))
  <2> DEFINE v == [s EXCEPT !.state = "VERIFY_GRASP"]
  <2>1. /\ v \in TaskState /\ SameBooks(s, v) /\ v.asked = s.asked /\ Held(s, v)
        /\ v.calls = s.calls
    BY <1>1 DEF TaskState, State, SameBooks, Held
  <2>2. \/ HandleServoPickResult(s, outcome) \in
             {EnterDetectTrack(s), EnterFault(s, "FAULT"), RetryGrasp(v)}
        \/ outcome = "grasped" /\ HandleServoPickResult(s, outcome) = EnterMoveSafe(s)
    BY DEF HandleServoPickResult
  <2> HIDE DEF v
  <2>3. Enters(s, RetryGrasp(v), "VERIFY_GRASP", s.asked)
    BY <2>1, ReadyKept, StageEnters, EntersFrom
  <2>4. Good(RetryGrasp(v))
    BY <1>1, <1>2, <1>7, <2>3 DEF Staged, Served, Looking, ContinueStates
  <2>5. outcome = "grasped" => Good(EnterMoveSafe(s))
    BY <1>1, <1>2, <1>7, StageEnters DEF Staged, Served, Looking, Grasping
  <2> HIDE DEF Good
  <2>. QED
    BY <1>3, <1>4, <1>7, <2>2, <2>4, <2>5 DEF Looking
<1>8. Good(HandleWaitPullResult(s, outcome))
  <2> DEFINE t == [s EXCEPT !.waitPullTimer = "off"]
             h == [t EXCEPT !.state = "HOME"]
             v == SetVisionMode(h, "OFF", None)
  <2>1. /\ t \in TaskState /\ SameBooks(s, t) /\ t.asked = s.asked /\ Held(s, t)
        /\ t.calls = s.calls
    BY <1>1 DEF TaskState, SameBooks, Held
  <2>2. HandleWaitPullResult(s, outcome)
          = IF outcome # "ok" THEN EnterFault(t, "FAULT") ELSE SendRobotGoal(v, "home")
    BY DEF HandleWaitPullResult
  <2> HIDE DEF t
  <2>3. Ready(t)
    BY <2>1, ReadyKept
  <2>4. h \in TaskState /\ SameBooks(t, h) /\ Held(t, h) /\ h.calls = t.calls /\ h.state = "HOME"
    BY <2>1 DEF TaskState, State, SameBooks, Held
  <2> HIDE DEF h
  <2>5. Ready(h) /\ Book(h) /\ Waits(h)
    BY <2>3, <2>4, ReadyKept DEF Ready, Book, Base
  <2>6. /\ v \in TaskState /\ SameTask(h, v) /\ SameCalls(h, v) /\ Waits(v)
        /\ Held(h, v) /\ Prompt(h, v)
    BY <2>4, <2>5, SetVisionModeType, SetVisionModeFrame, RequestTypes, SetVisionModeAsks
  <2> HIDE DEF v
  <2>7. Ready(v) /\ v.state = "HOME"
    BY <2>4, <2>5, <2>6, BookKept DEF Ready, SameTask
  <2>8. Enters(v, SendRobotGoal(v, "home"), v.state, v.asked)
    BY <2>7, SendFresh DEF Goal, NamedTarget
  <2>9. Enters(s, SendRobotGoal(v, "home"), "HOME", v.asked)
    BY <2>1, <2>4, <2>6, <2>7, <2>8 DEF Enters, Held, Prompt
  <2>10. Enters(t, EnterFault(t, "FAULT"), "HOME", s.asked)
    BY <2>3, ReadyRest, FaultFresh DEF Ready, FaultLevel
  <2>11. Enters(s, EnterFault(t, "FAULT"), "HOME", s.asked)
    BY <2>1, <2>10, EntersFrom
  <2>12. Good(SendRobotGoal(v, "home")) /\ Good(EnterFault(t, "FAULT"))
    BY <1>2, <2>9, <2>11 DEF Served, Looking, ContinueStates
  <2> HIDE DEF Good
  <2>. QED
    BY <2>2, <2>12
<1>9. ASSUME NEW u \in TaskState, SameBooks(s, u), u.state = "IDLE",
             u.asked = s.asked, u.spec # None => Held(s, u)
      PROVE  Good(u)
  <2>1. Fresh(u)
    BY <1>9, ReadyKept, ReadyFresh
  <2>2. Prompt(s, u)
    BY <1>9 DEF SameBooks, Prompt
  <2>3. Staged(s) => Staged(u)
    BY <1>1, <1>9 DEF Staged, Served, Looking, Held
  <2>. QED
    BY <1>9, <2>1, <2>2, <2>3 DEF ContinueStates
<1>10. Good(FinishTask(s))
  <2>1. LET u == FinishTask(s)
        IN  /\ u \in TaskState /\ SameBooks(s, u) /\ u.state = "IDLE" /\ u.asked = s.asked
            /\ u.spec = None
    BY <1>1, SnapshotTypes DEF FinishTask, TaskState, State, SameBooks
  <2> HIDE DEF Good
  <2>. QED
    BY <1>9, <2>1
<1>11. Good([s EXCEPT !.state = "IDLE"])
  <2>1. LET u == [s EXCEPT !.state = "IDLE"]
        IN  /\ u \in TaskState /\ SameBooks(s, u) /\ u.state = "IDLE" /\ u.asked = s.asked
            /\ Held(s, u)
    BY <1>1 DEF TaskState, State, SameBooks, Held
  <2> HIDE DEF Good
  <2>. QED
    BY <1>9, <2>1
<1>12. \/ HandleResult(s, s.state, outcome) \in
            {HandleWaitPullResult(s, outcome), EnterFault(s, "FAULT"), FinishTask(s),
             [s EXCEPT !.state = "IDLE"]}
       \/ s.state = "SERVO_PICK"
            /\ HandleResult(s, s.state, outcome) = HandleServoPickResult(s, outcome)
       \/ s.state \in Looking /\ HandleResult(s, s.state, outcome) = EnterDetectTrack(s)
       \/ s.state = "MOVE_SAFE" /\ HandleResult(s, s.state, outcome) = EnterApproachHand(s)
       \/ s.state = "APPROACH_HAND" /\ HandleResult(s, s.state, outcome) = EnterWaitPull(s)
  BY DEF HandleResult, Looking
<1>13. Good(HandleResult(s, s.state, outcome))
  <2> HIDE DEF Good
  <2>. QED
    BY <1>3, <1>4, <1>5, <1>6, <1>7, <1>8, <1>10, <1>11, <1>12
<1>. QED
  BY <1>13

(***************************************************************************)
(* Resuming from the snapshot, from rest.                                  *)
(***************************************************************************)
LEMMA ResumeFresh ==
  ASSUME NEW s, Ready(s), s.state = "IDLE", NEW snapshot \in Snapshot
  PROVE  LET u == ResumeFrom(s, snapshot) IN Fresh(u) /\ Prompt(s, u)
<1> DEFINE r == ClearResumeSnapshot(s)
           t == [r EXCEPT !.tool = snapshot.tool]
           c == [t EXCEPT !.spec = snapshot.spec]
           d == [t EXCEPT !.tool = None]
<1>1. ResumeFrom(s, snapshot) \in
        {EnterMoveSafe(c), EnterApproachHand(c), EnterWaitPull(c), RetryGrasp(t), RetryGrasp(d)}
  BY DEF ResumeFrom
<1>2. s \in TaskState /\ snapshot.tool \in ToolOrNone /\ snapshot.spec \in ToolOrNone
  BY ReadyRest DEF Snapshot
<1>3. r \in TaskState /\ SameBooks(s, r)
  BY <1>2, SnapshotTypes DEF ClearResumeSnapshot, TaskState, SameBooks
<1> HIDE DEF r
<1>4. t \in TaskState /\ SameBooks(s, t)
  BY <1>2, <1>3 DEF TaskState, SameBooks
<1> HIDE DEF t
<1>5. c \in TaskState /\ SameBooks(s, c) /\ d \in TaskState /\ SameBooks(s, d)
  BY <1>2, <1>4, SnapshotTypes DEF TaskState, SameBooks
<1> HIDE DEF c, d
<1>6. ASSUME NEW v \in TaskState, SameBooks(s, v)
      PROVE  \A u \in {EnterMoveSafe(v), EnterApproachHand(v), EnterWaitPull(v), RetryGrasp(v)} :
               Fresh(u) /\ Prompt(s, u)
  <2>1. Ready(v) /\ v.calls = s.calls
    BY <1>6, ReadyKept DEF SameBooks
  <2>. QED
    BY <2>1, StageEnters DEF Enters, Prompt
<1>. QED
  BY <1>1, <1>4, <1>5, <1>6

(***************************************************************************)
(* Steps.  What every step of the node preserves, beside its bookkeeping.  *)
(***************************************************************************)
\* A stage that carries the tool.
Carries(s) == s.safety = "NORMAL" /\ s.state \in ContinueStates

Kept(s, u) ==
  /\ Flow(u) /\ Prompt(s, u)
  /\ "set_mode" \in up /\ Dark(s) => Dark(u)
  /\ Staged(s) => Staged(u)
  /\ Carries(u) => Carries(s)

\* What the supervisor sees of the node has not changed, or its goal is lost.
LEMMA SupervisorStutters ==
  ASSUME tm'.goalInProgress = tm.goalInProgress, tm'.goalHandle = tm.goalHandle,
         tm'.cancelPending = tm.cancelPending, tm'.safety = tm.safety,
         tm'.recoveryInProgress = tm.recoveryInProgress,
         ~tm.recoveryInProgress \/ Current(tm'.calls, {"recover"}) = Current(tm.calls, {"recover"})
  PROVE  UNCHANGED Supervisor!vars
BY DEF Supervisor!vars

LEMMA SupervisorLoses ==
  ASSUME Dead(tm')
  PROVE  Supervisor!Next
BY DEF Dead, Supervisor!Next, Supervisor!LoseGoal

Obeys == [Supervisor!Next]_(Supervisor!vars)

\* A step that leaves alone what the flow is about.
Quiet(s, u) ==
  /\ u.state = s.state /\ u.safety = s.safety /\ u.asked = s.asked /\ Held(s, u)
  /\ u.goalInProgress = s.goalInProgress /\ u.goalHandle = s.goalHandle
  /\ u.resultState = s.resultState /\ u.cancelPending = s.cancelPending
  /\ u.recoveryInProgress = s.recoveryInProgress
  /\ \A kinds \in {GoalKinds, {"recover"}, {"set_mode"}} :
       Current(u.calls, kinds) \subseteq Current(s.calls, kinds)
  /\ s.recoveryInProgress => Current(u.calls, {"recover"}) = Current(s.calls, {"recover"})
  /\ NothingLate(s.calls) => NothingLate(u.calls)

LEMMA QuietKept ==
  ASSUME NEW s, NEW u, Flow(s), Quiet(s, u)
  PROVE  Kept(s, u)
<1>1. /\ Current(u.calls, GoalKinds) \subseteq Current(s.calls, GoalKinds)
      /\ Current(u.calls, {"set_mode"}) \subseteq Current(s.calls, {"set_mode"})
  BY DEF Quiet
<1>2. Flow(u)
  BY <1>1 DEF Quiet, Flow, AnswersWanted, Stopped, Matched, Carrying
<1>3. Prompt(s, u) /\ (Dark(s) => Dark(u)) /\ (Staged(s) => Staged(u)) /\ (Carries(u) => Carries(s))
  BY DEF Quiet, Prompt, Dark, Staged, Held, Carries
<1>. QED
  BY <1>2, <1>3 DEF Kept

LEMMA QuietStep ==
  ASSUME Flow(tm), Quiet(tm, tm')
  PROVE  Kept(tm, tm') /\ Obeys
<1>1. UNCHANGED Supervisor!vars
  BY SupervisorStutters DEF Quiet
<1>. QED
  BY <1>1, QuietKept DEF Obeys

\* The action client broke.
LEMMA LostStep ==
  ASSUME NEW s, Book(tm'), Dead(tm'), Asked(s, tm', "OFF", None), Prompt(tm, tm')
  PROVE  Kept(tm, tm') /\ Obeys
<1>1. Fresh(tm') /\ tm'.safety # "NORMAL"
  BY DeadFresh DEF Dead
<1>. QED
  BY <1>1, SupervisorLoses DEF Fresh, Kept, Staged, Carries, Obeys

\* A stage of the task has run, from NORMAL and with nothing to cancel.
LEMMA FreshStep ==
  ASSUME Inv(tm), tm.safety = "NORMAL", tm.cancelPending = None, Fresh(tm')
  PROVE  Obeys
<1>1. /\ ~tm.recoveryInProgress /\ ~tm'.recoveryInProgress /\ tm'.cancelPending = None
      /\ ~tm'.goalHandle /\ tm'.safety \in FaultLevel \cup {"NORMAL"}
      /\ tm'.goalInProgress => tm'.safety = "NORMAL"
  BY AtNormal DEF Fresh, Flow, Stopped
<1>2. CASE tm.goalInProgress
  <2>1. Supervisor!Finish
    BY <1>1, <1>2 DEF Supervisor!Finish, Supervisor!Fault, FaultLevel
  <2>. QED
    BY <2>1 DEF Obeys, Supervisor!Next
<1>3. CASE ~tm.goalInProgress /\ tm'.goalInProgress
  <2>1. Supervisor!Start
    BY <1>1, <1>3 DEF Supervisor!Start
  <2>. QED
    BY <2>1 DEF Obeys, Supervisor!Next
<1>4. CASE ~tm.goalInProgress /\ ~tm'.goalInProgress /\ tm'.safety = "NORMAL"
  BY <1>1, <1>4 DEF Obeys, Supervisor!vars
<1>5. CASE ~tm.goalInProgress /\ ~tm'.goalInProgress /\ tm'.safety \in FaultLevel
  <2>1. Supervisor!RaiseFault
    BY <1>1, <1>5 DEF Supervisor!RaiseFault, Supervisor!Fault, FaultLevel
  <2>. QED
    BY <2>1 DEF Obeys, Supervisor!Next
<1>. QED
  BY <1>1, <1>2, <1>3, <1>4, <1>5

\* A fault, whatever was running.
LEMMA FaultStep ==
  ASSUME Inv(tm), Flow(tm), NEW level \in FaultLevel, NEW s, Base(s),
         s.goalInProgress = tm.goalInProgress, s.goalHandle = tm.goalHandle,
         s.resultState = tm.resultState,
         Current(s.calls, GoalKinds) = Current(tm.calls, GoalKinds),
         NothingLate(tm.calls) => NothingLate(s.calls),
         tm' = EnterFault(s, level)
  PROVE  Kept(tm, tm') /\ Obeys
<1> DEFINE u == EnterFault(s, level)
<1>1. /\ Book(u) /\ Asked(s, u, "OFF", None) /\ Prompt(s, u) /\ u.safety # "NORMAL"
      /\ Dead(u) \/ Faulted(s, u, level)
  BY EnterFaultAsks
<1> HIDE DEF u
<1>2. Prompt(tm, u)
  BY <1>1 DEF Prompt
<1>3. tm' = u
  BY DEF u
<1>4. CASE Dead(u)
  BY <1>1, <1>2, <1>3, <1>4, LostStep
<1>5. CASE Faulted(s, u, level)
  <2>1. Flow(u)
    BY <1>1, <1>5 DEF Faulted, Flow, AnswersWanted, Stopped, Matched, Carrying
  <2>2. "set_mode" \in up => Dark(u)
    BY <1>1 DEF Asked, Dark
  <2>3. Kept(tm, u)
    BY <1>1, <1>2, <2>1, <2>2 DEF Kept, Staged, Carries
  <2>4. Supervisor!RaiseFault
    BY <1>3, <1>5 DEF Faulted, Supervisor!RaiseFault, Supervisor!Fault, FaultLevel
  <2>. QED
    BY <1>3, <2>3, <2>4 DEF Obeys, Supervisor!Next
<1>. QED
  BY <1>1, <1>4, <1>5

\* A command that cancels what runs at NORMAL.
LEMMA CancelStep ==
  ASSUME Inv(tm), Flow(tm), tm.safety = "NORMAL",
         NEW t \in TaskState, SameBooks(tm, t), t.state = "CANCELLING", Held(tm, t),
         NEW callback \in {"idle"} \cup Mode,
         tm' = RequestCancel(t, callback)
  PROVE  Kept(tm, tm') /\ Obeys
<1> DEFINE u == RequestCancel(t, callback)
<1>1. /\ Base(t) /\ t.safety = "NORMAL" /\ Current(t.calls, {"recover"}) = {}
      /\ ~t.recoveryInProgress
  BY AtNormal, BooksKept DEF SameBooks
<1>2. callback \notin {"noop", None} /\ callback \in {"noop", "idle"} \cup Mode
  BY DEF Mode, None
<1>3. /\ Book(u) /\ Held(t, u) /\ Asked(t, u, "OFF", None) /\ Prompt(t, u)
      /\ Dead(u) \/ Stopping(t, u, callback) \/ Confirmed(t, u, callback)
  BY <1>1, <1>2, RequestCancelAsks
<1> HIDE DEF u
<1>4. tm' = u /\ Held(tm, u) /\ Prompt(tm, u)
  BY <1>3 DEF u, SameBooks, Held, Prompt
<1>5. "set_mode" \in up => Dark(u)
  BY <1>3 DEF Asked, Dark
<1>6. ASSUME Flow(u), u.state \in {"IDLE", "CANCELLING"}, u.safety = "NORMAL"
      PROVE  Kept(tm, tm')
  <2>1. Staged(tm) => Staged(u)
    BY <1>4, <1>6 DEF Staged, Served, Looking, Held
  <2>2. ~Carries(u)
    BY <1>6 DEF Carries, ContinueStates
  <2>. QED
    BY <1>4, <1>5, <1>6, <2>1, <2>2 DEF Kept
<1>7. CASE Dead(u)
  BY <1>3, <1>4, <1>7, LostStep
<1>8. CASE Stopping(t, u, callback)
  <2>1. Flow(u)
    BY <1>1, <1>2, <1>8
       DEF Stopping, SameBooks, Flow, AnswersWanted, Stopped, Matched, Carrying
  <2>2. Supervisor!Cancel
    BY <1>1, <1>2, <1>4, <1>8, AtNormal DEF Stopping, SameBooks, Supervisor!Cancel
  <2>. QED
    BY <1>1, <1>6, <1>8, <2>1, <2>2 DEF Stopping, Obeys, Supervisor!Next
<1>9. CASE Confirmed(t, u, callback)
  <2>1. u.resultState = None /\ None \notin {"IDLE", "DETECT_TRACK", "CANCELLING", "MOVE_SAFE",
                                             "APPROACH_HAND"}
    BY <1>3, <1>9, AtRest DEF Book, Confirmed, None
  <2>2. Flow(u) /\ u.state = "IDLE" /\ u.safety = "NORMAL"
    BY <1>1, <1>2, <1>9, <2>1
       DEF Confirmed, Flow, AnswersWanted, Stopped, Matched, Carrying
  <2>3. tm.cancelPending = None
    BY <1>9, AtNormal, AtRest DEF Confirmed, SameBooks
  <2>4. UNCHANGED Supervisor!vars
    BY <1>1, <1>4, <1>9, <2>3 DEF Confirmed, SameBooks, Supervisor!vars
  <2>. QED
    BY <1>6, <2>2, <2>4 DEF Obeys
<1>. QED
  BY <1>3, <1>7, <1>8, <1>9

\* A stage that carries the tool has it in the gripper.
Gripped(s, g) == Carries(s) => g = "tool"

Step ==
  /\ Obeys
  /\ Flow(tm')
  /\ "robot_task" \notin Flaky => Prompt(tm, tm')
  /\ "set_mode" \in up /\ Dark(tm) => Dark(tm')
  /\ "resume" \notin Commands /\ Staged(tm) => Staged(tm')
  /\ /\ "resume" \notin Commands /\ "robot_task" \notin Flaky
     /\ NothingLate(tm.calls) /\ Gripped(tm, gripper)
     => Gripped(tm', gripper')

LEMMA KeptStep ==
  ASSUME Kept(tm, tm'), Obeys, UNCHANGED gripper
  PROVE  Step
BY DEF Kept, Step, Gripped

\* A stage entered from NORMAL, other than by a resume.
LEMMA EntersStep ==
  ASSUME Inv(tm), tm.safety = "NORMAL", tm.cancelPending = None, UNCHANGED gripper,
         NEW s, NEW state, NEW asked, Enters(s, tm', state, asked),
         s.calls = tm.calls \/ (NothingLate(tm.calls) => NothingLate(s.calls)),
         Staged(tm) => Served(state, asked, s.tool) /\ (s.spec # None => s.spec = s.tool),
         state \in ContinueStates => tm.state \in ContinueStates
  PROVE  Step
<1>1. Fresh(tm') /\ Obeys
  BY FreshStep DEF Enters
<1>2. Prompt(tm, tm')
  BY DEF Enters, Prompt
<1>3. (Staged(tm) => Staged(tm')) /\ (Carries(tm') => Carries(tm))
  BY DEF Enters, Staged, Held, Carries
<1>4. Kept(tm, tm')
  BY <1>1, <1>2, <1>3 DEF Fresh, Kept
<1>. QED
  BY <1>1, <1>4, KeptStep

(***************************************************************************)
(* Commands.                                                               *)
(***************************************************************************)
\* At NORMAL a task that rests or waits has no goal, so its next stage can start.
LEMMA RestIsReady ==
  ASSUME Inv(tm), Flow(tm), tm.safety = "NORMAL",
         tm.state \in {"IDLE", "DETECT_TRACK"} \/ ~tm.goalInProgress
  PROVE  Ready(tm) /\ tm.cancelPending = None
<1>1. tm.goalInProgress =>
        /\ tm.resultState \notin {"IDLE", "DETECT_TRACK"}
        /\ IF tm.cancelPending # None THEN tm.state = "CANCELLING" ELSE tm.resultState = tm.state
  BY DEF Flow, Matched
<1>2. ~tm.goalInProgress
  BY <1>1
<1>. QED
  BY <1>2, AtNormal, ReadyRest DEF Ready

LEMMA ResetTaskStep ==
  ASSUME Inv(tm), Flow(tm), ResetTask
  PROVE  Step
<1> DEFINE s == ClearResumeSnapshot(tm)
           t == [s EXCEPT !.state = "CANCELLING"]
<1>1. /\ tm.safety = "NORMAL" /\ UNCHANGED gripper
      /\ tm' = s \/ tm' = RequestCancel(t, "idle")
  BY DEF ResetTask, Becomes
<1>2. tm \in TaskState
  BY DEF Inv, Book, Base
<1>3. /\ s \in TaskState /\ SameBooks(tm, s) /\ s.state = tm.state /\ s.asked = tm.asked
      /\ Held(tm, s)
  BY <1>2, SnapshotTypes DEF ClearResumeSnapshot, TaskState, SameBooks, Held
<1> HIDE DEF s
<1>4. t \in TaskState /\ SameBooks(s, t) /\ t.state = "CANCELLING" /\ Held(s, t)
  BY <1>3 DEF TaskState, State, SameBooks, Held
<1> HIDE DEF t
<1>5. CASE tm' = s
  <2>1. Quiet(tm, s)
    BY <1>3 DEF SameBooks, Quiet
  <2>. QED
    BY <1>1, <1>5, <2>1, QuietStep, KeptStep
<1>6. CASE tm' = RequestCancel(t, "idle")
  <2>1. SameBooks(tm, t) /\ Held(tm, t)
    BY <1>3, <1>4 DEF SameBooks, Held
  <2>. QED
    BY <1>1, <1>4, <1>6, <2>1, CancelStep, KeptStep
<1>. QED
  BY <1>1, <1>5, <1>6

LEMMA ResetSafetyStep ==
  ASSUME Inv(tm), Flow(tm), ResetSafety
  PROVE  Step
<1> DEFINE t == [tm EXCEPT !.safety = "RECOVERY_REQUIRED", !.recoveryInProgress = TRUE]
           u == RequestCancel(t, "noop")
<1>1. /\ tm.safety # "NORMAL" /\ ~tm.recoveryInProgress /\ UNCHANGED gripper
      /\ tm' = IF tm.cancelPending # None THEN t ELSE u
  BY DEF ResetSafety, Becomes
<1>2. /\ tm \in TaskState /\ Goals(tm) /\ Cancels(tm) /\ Recovers(tm) /\ Waits(tm)
  BY DEF Inv, Book, Base
<1>3. /\ t \in TaskState /\ t.safety = "RECOVERY_REQUIRED" /\ t.recoveryInProgress
      /\ t.state = tm.state /\ t.calls = tm.calls /\ t.asked = tm.asked
      /\ t.goalInProgress = tm.goalInProgress /\ t.goalHandle = tm.goalHandle
      /\ t.resultState = tm.resultState
      /\ t.cancelPending = tm.cancelPending /\ t.cancelTimer = tm.cancelTimer
  BY <1>2 DEF TaskState, Safety
<1> HIDE DEF t
<1>4. Current(tm.calls, {"recover"}) = {}
  BY <1>1, <1>2 DEF Recovers
<1>5. CASE tm.cancelPending # None
  <2>1. tm' = t
    BY <1>1, <1>5
  <2>2. Flow(t)
    BY <1>1, <1>3 DEF Flow, AnswersWanted, Stopped, Matched, Carrying
  <2>3. Kept(tm, t)
    BY <1>1, <1>3, <2>2 DEF Kept, Prompt, Dark, Staged, Carries
  <2>4. Supervisor!Reset
    BY <1>1, <1>2, <1>3, <1>4, <1>5, <2>1 DEF Cancels, Supervisor!Reset
  <2>. QED
    BY <1>1, <2>1, <2>3, <2>4, KeptStep DEF Obeys, Supervisor!Next
<1>6. CASE tm.cancelPending = None
  <2>1. ~tm.goalInProgress
    BY <1>1, <1>6 DEF Flow, Stopped
  <2>2. Base(t)
    BY <1>2, <1>3 DEF Base, Goals, Cancels, Waits
  <2>3. /\ Book(u) /\ Asked(t, u, "OFF", None) /\ Prompt(t, u)
        /\ Dead(u) \/ Stopping(t, u, "noop") \/ Confirmed(t, u, "noop")
    BY <1>3, <1>4, <2>2, RequestCancelAsks
  <2> HIDE DEF u
  <2>4. tm' = u /\ Prompt(tm, u)
    BY <1>1, <1>3, <1>6, <2>3 DEF u, Prompt
  <2>5. CASE Dead(u)
    BY <1>1, <2>3, <2>4, <2>5, LostStep, KeptStep
  <2>6. CASE Confirmed(t, u, "noop")
    <3>1. u.resultState = None /\ None \notin {"IDLE", "DETECT_TRACK", "CANCELLING",
                                               "MOVE_SAFE", "APPROACH_HAND"}
      BY <2>3, <2>6, AtRest DEF Book, Confirmed, None
    <3>2. Flow(u)
      BY <2>6, <3>1 DEF Confirmed, Flow, AnswersWanted, Stopped, Matched, Carrying
    <3>3. "set_mode" \in up => Dark(u)
      BY <2>3 DEF Asked, Dark
    <3>4. Kept(tm, u)
      BY <1>3, <2>4, <2>6, <3>2, <3>3 DEF Confirmed, Kept, Staged, Carries
    <3>5. u.recoveryInProgress => Current(u.calls, {"recover"}) # {}
      BY <2>3, <2>6 DEF Confirmed, Book, Recovers
    <3>6. Supervisor!Reset
      BY <1>1, <1>3, <2>1, <2>4, <2>6, <3>5 DEF Confirmed, Supervisor!Reset
    <3>. QED
      BY <1>1, <2>4, <3>4, <3>6, KeptStep DEF Obeys, Supervisor!Next
  <2>. QED
    BY <1>3, <2>1, <2>3, <2>5, <2>6 DEF Stopping
<1>. QED
  BY <1>5, <1>6

LEMMA StopStep ==
  ASSUME Inv(tm), Flow(tm), Stop
  PROVE  Step
<1> DEFINE r == CaptureResumeSnapshot(tm)
           t == [r EXCEPT !.state = "CANCELLING"]
<1>1. tm.safety = "NORMAL" /\ UNCHANGED gripper /\ tm' = RequestCancel(t, "idle")
  BY DEF Stop, Commanded, Becomes
<1>2. tm \in TaskState
  BY DEF Inv, Book, Base
<1>3. r \in TaskState /\ SameBooks(tm, r) /\ Held(tm, r)
  <2>1. Held(tm, r)
    BY <1>2 DEF CaptureResumeSnapshot, TaskState, Held
  <2>. QED
    BY <1>2, <2>1, CaptureType, CaptureFrame DEF SameTask, SameBooks
<1> HIDE DEF r
<1>4. t \in TaskState /\ SameBooks(r, t) /\ t.state = "CANCELLING" /\ Held(r, t)
  BY <1>3 DEF TaskState, State, SameBooks, Held
<1> HIDE DEF t
<1>5. SameBooks(tm, t) /\ Held(tm, t)
  BY <1>3, <1>4 DEF SameBooks, Held
<1>. QED
  BY <1>1, <1>4, <1>5, CancelStep, KeptStep

LEMMA ModeSwitchStep ==
  ASSUME Inv(tm), Flow(tm), NEW mode \in Mode, ModeSwitch(mode)
  PROVE  Step
<1> DEFINE s == [tm EXCEPT !.mode = mode]
           v == SetVisionMode(s, "OFF", None)
           t == [tm EXCEPT !.state = "CANCELLING"]
<1>1. /\ tm.safety = "NORMAL" /\ UNCHANGED gripper
      /\ \/ tm.state = "IDLE" /\ tm' = v
         \/ tm' = RequestCancel(t, mode)
  BY DEF ModeSwitch, Commanded, Becomes
<1>2. tm \in TaskState
  BY DEF Inv, Book, Base
<1>3. s \in TaskState /\ SameBooks(tm, s) /\ s.state = tm.state /\ Held(tm, s)
  BY <1>2 DEF TaskState, SameBooks, Held
<1>4. t \in TaskState /\ SameBooks(tm, t) /\ t.state = "CANCELLING" /\ Held(tm, t)
  BY <1>2 DEF TaskState, State, SameBooks, Held
<1> HIDE DEF s, t
<1>5. CASE tm' = RequestCancel(t, mode)
  BY <1>1, <1>4, <1>5, CancelStep, KeptStep
<1>6. CASE tm.state = "IDLE" /\ tm' = v
  <2>1. Ready(tm) /\ tm.cancelPending = None
    BY <1>1, <1>6, RestIsReady
  <2>2. Ready(s) /\ Waits(s)
    BY <1>3, <2>1, ReadyKept DEF Ready, Book, Base
  <2>3. /\ v \in TaskState /\ SameTask(s, v) /\ SameCalls(s, v) /\ Waits(v)
        /\ Held(s, v) /\ Prompt(s, v)
    BY <1>3, <2>2, SetVisionModeType, SetVisionModeFrame, RequestTypes, SetVisionModeAsks
  <2> HIDE DEF v
  <2>4. Ready(v)
    BY <2>2, <2>3, BookKept DEF Ready, SameTask
  <2>5. Fresh(v) /\ v.state = "IDLE"
    BY <1>3, <1>6, <2>3, <2>4, ReadyFresh DEF SameTask
  <2>6. Enters(s, v, "IDLE", v.asked)
    BY <1>3, <1>6, <2>3, <2>5 DEF Enters
  <2>. QED
    BY <1>1, <1>3, <1>6, <2>1, <2>6, EntersStep
       DEF SameBooks, Held, Staged, Served, Looking, ContinueStates
<1>. QED
  BY <1>1, <1>5, <1>6

LEMMA ManualMoveStep ==
  ASSUME Inv(tm), Flow(tm), NEW target \in NamedTarget, ManualMove(target)
  PROVE  Step
<1> DEFINE t == [tm EXCEPT !.state = "MANUAL_MOVE"]
<1>1. /\ tm.safety = "NORMAL" /\ ~tm.goalInProgress /\ UNCHANGED gripper
      /\ tm' = SendRobotGoal(t, target)
  BY DEF ManualMove, Commanded, Becomes
<1>2. Ready(tm) /\ tm.cancelPending = None /\ tm \in TaskState
  BY <1>1, RestIsReady DEF Inv, Book, Base
<1>3. /\ t \in TaskState /\ SameBooks(tm, t) /\ t.state = "MANUAL_MOVE" /\ Held(tm, t)
      /\ t.asked = tm.asked /\ t.calls = tm.calls
  BY <1>2 DEF TaskState, State, SameBooks, Held
<1> HIDE DEF t
<1>4. Ready(t)
  BY <1>2, <1>3, ReadyKept
<1>5. Enters(t, tm', "MANUAL_MOVE", tm.asked)
  BY <1>1, <1>3, <1>4, SendFresh DEF Goal
<1>. QED
  BY <1>1, <1>2, <1>3, <1>5, EntersStep DEF Staged, Served, Looking, Held, ContinueStates

LEMMA FetchToolStep ==
  ASSUME Inv(tm), Flow(tm), NEW tool \in Tools, FetchTool(tool)
  PROVE  Step
<1> DEFINE t == [tm EXCEPT !.tool = tool, !.spec = None, !.retries = 0,
                           !.state = "MOVE_TO_WATCH"]
           asked == [mode |-> "TRACK_TOOL", tool |-> tool]
<1>1. /\ tm.safety = "NORMAL" /\ tm.state = "IDLE" /\ UNCHANGED gripper
      /\ tm' = StartAfterVisionMode(t, "TRACK_TOOL", tool, "MOVE_TO_WATCH")
  BY DEF FetchTool, Commanded, Becomes
<1>2. Ready(tm) /\ tm.cancelPending = None /\ tm \in TaskState
  BY <1>1, RestIsReady DEF Inv, Book, Base
<1>3. t \in TaskState
  <2> DEFINE w == [tm EXCEPT !.tool = tool, !.spec = None, !.state = "MOVE_TO_WATCH"]
  <2>1. tool \in ToolOrNone /\ None \in ToolOrNone /\ "MOVE_TO_WATCH" \in State
    BY DEF ToolOrNone, State
  <2>2. w \in TaskState
    BY ZenonT(60), <1>2, <2>1 DEF TaskState
  <2>3. t = [w EXCEPT !.retries = 0]
    BY <1>2 DEF TaskState
  <2> HIDE DEF w, t
  <2>. QED
    BY <2>2, <2>3 DEF TaskState
<1>4. /\ t.state = "MOVE_TO_WATCH" /\ t.tool = tool /\ t.spec = None
      /\ t.calls = tm.calls /\ t.safety = tm.safety
      /\ t.goalInProgress = tm.goalInProgress /\ t.goalHandle = tm.goalHandle
      /\ t.resultState = tm.resultState
      /\ t.cancelPending = tm.cancelPending /\ t.cancelTimer = tm.cancelTimer
      /\ t.recoveryInProgress = tm.recoveryInProgress
  BY <1>2 DEF TaskState
<1> HIDE DEF t
<1>5. Ready(t)
  BY <1>2, <1>3, <1>4 DEF Ready, Book, Base, Goals, Cancels, Guarded, Recovers, Waits
<1>6. Enters(t, tm', "MOVE_TO_WATCH", asked)
  BY <1>1, <1>4, <1>5, RequestTypes, StartFresh
<1>7. tool # None /\ Served("MOVE_TO_WATCH", asked, tool)
  BY ConstantsAssumption DEF Served, Looking
<1>. QED
  BY <1>1, <1>2, <1>4, <1>6, <1>7, EntersStep DEF ContinueStates

LEMMA ResumeStep ==
  ASSUME Inv(tm), Flow(tm), Resume
  PROVE  Step
<1>1. /\ "resume" \in Commands /\ tm.safety = "NORMAL" /\ tm.state = "IDLE"
      /\ tm' = ResumeFrom(tm, tm.resume)
  BY DEF Resume, Commanded, Becomes
<1>2. Ready(tm) /\ tm.cancelPending = None /\ tm.resume \in Snapshot
  BY <1>1, RestIsReady DEF Inv, Book, Base, TaskState
<1>3. Fresh(tm') /\ Prompt(tm, tm')
  BY <1>1, <1>2, ResumeFresh
<1>. QED
  BY <1>1, <1>2, <1>3, FreshStep DEF Fresh, Step

LEMMA CommandingStep ==
  ASSUME Inv(tm), Flow(tm), Commanding
  PROVE  Step
BY ResetTaskStep, ResetSafetyStep, StopStep, ModeSwitchStep, ManualMoveStep, FetchToolStep,
   ResumeStep DEF Commanding

(***************************************************************************)
(* Replies.                                                                *)
(***************************************************************************)
LEMMA SettleAsks ==
  ASSUME NEW s \in TaskState, NEW c
  PROVE  LET u == Settle(s, c)
         IN  /\ Held(s, u) /\ u.asked = s.asked
             /\ NothingLate(s.calls) => NothingLate(u.calls)
<1>1. Held(s, Settle(s, c)) /\ Settle(s, c).asked = s.asked
  BY DEF Settle, TaskState, Held
<1>2. Settle(s, c).calls = s.calls \ {c}
  BY SettleFrame
<1>. QED
  BY <1>1, <1>2 DEF NothingLate

\* A reply that is late, or not about the goal or the recovery.
LEMMA SettleQuiet ==
  ASSUME NEW s \in TaskState, NEW c,
         c \notin Current(s.calls, GoalKinds), c \notin Current(s.calls, {"recover"})
  PROVE  Quiet(s, Settle(s, c))
<1> DEFINE u == Settle(s, c)
<1>1. /\ SameTask(s, u) /\ u.calls = s.calls \ {c}
      /\ \A kinds : Current(u.calls, kinds) = Current(s.calls, kinds) \ {c}
  BY SettleFrame
<1>2. /\ Held(s, u) /\ u.asked = s.asked
      /\ NothingLate(s.calls) => NothingLate(u.calls)
  BY SettleAsks
<1> HIDE DEF u
<1>3. /\ Current(u.calls, GoalKinds) = Current(s.calls, GoalKinds)
      /\ Current(u.calls, {"recover"}) = Current(s.calls, {"recover"})
      /\ Current(u.calls, {"set_mode"}) \subseteq Current(s.calls, {"set_mode"})
  BY <1>1
<1>. QED
  BY <1>1, <1>2, <1>3 DEF SameTask, Quiet, u

LEMMA StaleStep ==
  ASSUME Inv(tm), Flow(tm), NEW c, ~c.current, tm' = Settle(tm, c)
  PROVE  Kept(tm, tm') /\ Obeys
<1>1. c \notin Current(tm.calls, GoalKinds) /\ c \notin Current(tm.calls, {"recover"})
  BY DEF Current
<1>. QED
  BY <1>1, SettleQuiet, QuietStep DEF Inv, Book, Base

\* The goal is gone; t still has its cancellation, v has not.
LEMMA GoalGoneFrame ==
  ASSUME NEW s \in TaskState, NEW c
  PROVE  LET t == GoalGone(s, c)
             v == CancelGone(t)
         IN  /\ ~t.goalInProgress
             /\ \A u \in {t, v} :
                  /\ Held(s, u) /\ u.asked = s.asked
                  /\ u.state = s.state /\ u.safety = s.safety
                  /\ u.recoveryInProgress = s.recoveryInProgress
                  /\ Current(u.calls, {"set_mode"}) \subseteq Current(s.calls, {"set_mode"})
                  /\ NothingLate(s.calls) => NothingLate(u.calls)
<1> DEFINE r == Settle(s, c)
           t == GoalGone(s, c)
           v == CancelGone(t)
<1>1. /\ r \in TaskState /\ SameTask(s, r)
      /\ \A kinds : Current(r.calls, kinds) = Current(s.calls, kinds) \ {c}
  BY SettleFrame
<1>2. /\ Held(s, r) /\ r.asked = s.asked
      /\ NothingLate(s.calls) => NothingLate(r.calls)
  BY SettleAsks
<1> HIDE DEF r
<1>3. t = [r EXCEPT !.goalInProgress = FALSE, !.goalHandle = FALSE, !.resultState = None]
  BY DEF r, GoalGone
<1> HIDE DEF t
<1>4. /\ ~t.goalInProgress
      /\ Held(r, t) /\ t.asked = r.asked /\ t.calls = r.calls
      /\ t.state = r.state /\ t.safety = r.safety
      /\ t.recoveryInProgress = r.recoveryInProgress
  BY <1>1, <1>3 DEF TaskState, Held
<1>5. t \in TaskState
  BY <1>1, <1>3 DEF TaskState
<1>6. /\ Held(t, v) /\ v.asked = t.asked /\ v.calls = t.calls
      /\ v.state = t.state /\ v.safety = t.safety
      /\ v.recoveryInProgress = t.recoveryInProgress
  BY <1>5 DEF TaskState, Held, CancelGone
<1> HIDE DEF v
<1>7. Current(r.calls, {"set_mode"}) \subseteq Current(s.calls, {"set_mode"})
  BY <1>1
<1>. QED
  BY <1>1, <1>2, <1>4, <1>6, <1>7 DEF SameTask, Held, t, v

\* A goal that ended by itself leaves the task ready, in the state that sent the goal.
LEMMA EndedReady ==
  ASSUME Inv(tm), Flow(tm), NEW c \in Current(tm.calls, GoalKinds), tm.cancelPending = None
  PROVE  LET t == GoalGone(tm, c)
         IN  /\ Ready(t) /\ t.state = tm.state /\ tm.resultState = tm.state
             /\ tm.state # "CANCELLING" /\ tm.safety = "NORMAL"
<1>1. tm.goalInProgress /\ tm \in TaskState
  BY DEF Inv, Book, Base, Goals
<1>2. tm.safety = "NORMAL"
  BY <1>1 DEF Flow, Stopped
<1>3. tm.resultState = tm.state /\ tm.state # "CANCELLING"
  BY <1>1, <1>2 DEF Flow, Matched
<1>. QED
  BY <1>1, <1>2, <1>3, GoalGoneBook, GoalGoneFrame DEF Ready

\* The reply that confirms a cancellation.
LEMMA ConfirmStep ==
  ASSUME Inv(tm), Flow(tm), NEW c \in Current(tm.calls, GoalKinds), tm.cancelPending # None,
         tm' = FinishCancel(CancelGone(GoalGone(tm, c)), tm.cancelPending)
  PROVE  Kept(tm, tm') /\ Obeys /\ ~Carries(tm')
<1> DEFINE v == CancelGone(GoalGone(tm, c))
           u == FinishCancel(v, tm.cancelPending)
<1>1. /\ tm \in TaskState /\ tm.cancelPending \in {"noop", "idle"} \cup Mode
      /\ tm.safety = "NORMAL" => tm.cancelPending # "noop"
      /\ tm.recoveryInProgress => Current(tm.calls, {"recover"}) = {}
  BY DEF Inv, Book, Base, TaskState, Guarded, Recovers
<1>2. /\ Base(v) /\ ~v.goalInProgress /\ Current(v.calls, {"recover"}) = {}
      /\ v.recoveryInProgress => v.safety = "RECOVERY_REQUIRED"
      /\ v.state = tm.state /\ v.safety = tm.safety
  BY GoalGoneBook
<1>3. /\ Held(tm, v) /\ v.asked = tm.asked /\ v.recoveryInProgress = tm.recoveryInProgress
      /\ Current(v.calls, {"set_mode"}) \subseteq Current(tm.calls, {"set_mode"})
      /\ NothingLate(tm.calls) => NothingLate(v.calls)
  BY <1>1, GoalGoneFrame
<1> HIDE DEF v
<1>4. /\ Book(u) /\ ~u.goalInProgress /\ u.safety = v.safety
      /\ u.state = IF tm.cancelPending = "noop" THEN v.state ELSE "IDLE"
  BY <1>1, <1>2, FinishCancelBook
<1>5. /\ Current(u.calls, {"set_mode"}) = Current(v.calls, {"set_mode"})
      /\ u.recoveryInProgress => v.recoveryInProgress
      /\ Held(v, u) /\ u.asked = v.asked /\ Prompt(v, u)
  BY <1>1, <1>2, FinishCancelAsks DEF Base
<1> HIDE DEF u
<1>6. tm' = u
  BY DEF u, v
<1>7. /\ u.cancelPending = None /\ u.resultState = None
      /\ u.recoveryInProgress => Current(u.calls, {"recover"}) # {}
  BY <1>4, AtRest DEF Book, Recovers
<1>8. None \notin {"IDLE", "DETECT_TRACK", "CANCELLING", "MOVE_SAFE", "APPROACH_HAND"}
  BY DEF None
<1>9. Current(u.calls, {"set_mode"}) = {}
  BY <1>3, <1>5 DEF Flow, AnswersWanted
<1>10. Flow(u)
  BY <1>4, <1>7, <1>8, <1>9 DEF Flow, AnswersWanted, Stopped, Matched, Carrying
<1>11. u.safety = "NORMAL" => u.state = "IDLE"
  BY <1>1, <1>2, <1>4
<1>12. Prompt(tm, u) /\ (Dark(tm) => Dark(u)) /\ ~Carries(u) /\ (Staged(tm) => Staged(u))
  BY <1>2, <1>3, <1>4, <1>5, <1>11
     DEF Prompt, Dark, Carries, ContinueStates, Staged, Served, Looking, Held
<1>13. tm.goalInProgress /\ Supervisor!CancelConfirmed
  BY <1>1, <1>2, <1>3, <1>4, <1>5, <1>6, <1>7 DEF Inv, Book, Base, Cancels, Supervisor!CancelConfirmed
<1>. QED
  BY <1>6, <1>10, <1>12, <1>13 DEF Kept, Obeys, Supervisor!Next

LEMMA GoalResponseStep ==
  ASSUME Inv(tm), Flow(tm), NEW c \in Waiting("send_goal"), NEW accepted \in BOOLEAN,
         OnGoalResponse(c, accepted)
  PROVE  Step
<1> DEFINE r == Settle(tm, c)
           t == GoalGone(tm, c)
<1>1. /\ UNCHANGED gripper
      /\ tm' = IF ~c.current THEN r
               ELSE IF accepted THEN GoalAccepted(r, c.what) ELSE GoalRejected(r)
  BY DEF OnGoalResponse, Becomes
<1>2. tm \in TaskState /\ Goals(tm) /\ Waits(tm)
  BY DEF Inv, Book, Base
<1>3. CASE ~c.current
  BY <1>1, <1>3, StaleStep, KeptStep
<1>4. c.current => c \in Current(tm.calls, {"send_goal"}) /\ c \in Current(tm.calls, GoalKinds)
  BY DEF Waiting, Current, GoalKinds
<1>5. CASE c.current /\ ~accepted
  <2>1. r.cancelPending = tm.cancelPending
    BY <1>2, SettleFrame DEF SameTask
  <2>2. tm' = IF tm.cancelPending # None THEN FinishCancel(CancelGone(t), tm.cancelPending)
              ELSE EnterFault(t, "FAULT")
    BY <1>1, <1>5, <2>1 DEF GoalRejected, GoalGone, CancelGone
  <2>3. CASE tm.cancelPending # None
    BY <1>1, <1>4, <1>5, <2>2, <2>3, ConfirmStep, KeptStep
  <2>4. CASE tm.cancelPending = None
    <3>1. Ready(t) /\ tm.safety = "NORMAL"
      BY <1>4, <1>5, <2>4, EndedReady
    <3>2. NothingLate(tm.calls) => NothingLate(t.calls)
      BY <1>2, GoalGoneFrame
    <3> HIDE DEF t
    <3>3. Enters(t, tm', "IDLE", t.asked) /\ tm'.safety # "NORMAL"
      BY <2>2, <2>4, <3>1, ReadyRest, FaultFresh, EnterFaultAsks DEF FaultLevel, Ready
    <3>4. Fresh(tm') /\ Obeys /\ Prompt(tm, tm')
      BY <2>4, <3>1, <3>2, <3>3, FreshStep DEF Enters, Prompt
    <3>5. Kept(tm, tm')
      BY <3>3, <3>4 DEF Fresh, Kept, Staged, Carries
    <3>. QED
      BY <1>1, <3>4, <3>5, KeptStep
  <2>. QED
    BY <2>3, <2>4
<1>6. CASE c.current /\ accepted
  <2> DEFINE w == [r EXCEPT !.goalHandle = TRUE]
             new == NewCall("get_result", c.what, FALSE)
             u == [w EXCEPT !.calls = @ \cup {NewCall("get_result", c.what, FALSE)}]
  <2>1. /\ r \in TaskState /\ r.calls = tm.calls \ {c} /\ SameTask(tm, r)
        /\ \A kinds : Current(r.calls, kinds) = Current(tm.calls, kinds) \ {c}
        /\ Held(tm, r) /\ r.asked = tm.asked
        /\ NothingLate(tm.calls) => NothingLate(r.calls)
    BY <1>2, SettleFrame, SettleAsks
  <2>2. tm' = IF "robot_task" \notin up THEN ActionFutureException(w) ELSE u
    BY <1>1, <1>6 DEF GoalAccepted
  <2> HIDE DEF r
  <2>3. /\ w \in TaskState /\ w.calls = r.calls /\ w.goalHandle = TRUE
        /\ w.state = r.state /\ w.safety = r.safety /\ w.asked = r.asked /\ Held(r, w)
        /\ w.goalInProgress = r.goalInProgress /\ w.resultState = r.resultState
        /\ w.cancelPending = r.cancelPending /\ w.recoveryInProgress = r.recoveryInProgress
    <3>1. w \in TaskState
      BY <2>1 DEF TaskState
    <3>2. /\ w.calls = r.calls /\ w.goalHandle = TRUE
          /\ w.state = r.state /\ w.safety = r.safety /\ w.asked = r.asked /\ Held(r, w)
          /\ w.goalInProgress = r.goalInProgress /\ w.resultState = r.resultState
          /\ w.cancelPending = r.cancelPending /\ w.recoveryInProgress = r.recoveryInProgress
      BY <2>1 DEF TaskState, Held
    <3>. QED
      BY <3>1, <3>2
  <2>4. /\ u.calls = w.calls \cup {new} /\ u.goalHandle = w.goalHandle
        /\ u.state = w.state /\ u.safety = w.safety /\ u.asked = w.asked /\ Held(w, u)
        /\ u.goalInProgress = w.goalInProgress /\ u.resultState = w.resultState
        /\ u.cancelPending = w.cancelPending /\ u.recoveryInProgress = w.recoveryInProgress
    BY <2>3 DEF TaskState, Held
  <2>5. new.kind = "get_result" /\ new.current /\ new.what = c.what
    BY DEF NewCall
  <2> HIDE DEF w, u, new
  <2>6. CASE "robot_task" \notin up
    <3>1. Waits(w)
      BY <1>2, <2>1, <2>3 DEF Waits
    <3>2. Book(tm') /\ Dead(tm') /\ Asked(w, tm', "OFF", None)
      BY <2>2, <2>3, <2>6, <3>1, ExceptionAsks
    <3>3. Prompt(tm, tm')
      BY <2>6 DEF Prompt
    <3>. QED
      BY <1>1, <3>2, <3>3, LostStep, KeptStep
  <2>7. CASE "robot_task" \in up
    <3>1. tm' = u
      BY <2>2, <2>7
    <3>2. /\ u.state = tm.state /\ u.safety = tm.safety /\ u.asked = tm.asked /\ Held(tm, u)
          /\ u.goalInProgress = tm.goalInProgress /\ u.goalHandle
          /\ u.resultState = tm.resultState
          /\ u.cancelPending = tm.cancelPending
          /\ u.recoveryInProgress = tm.recoveryInProgress
      BY <2>1, <2>3, <2>4 DEF SameTask, Held
    <3>3. NothingLate(tm.calls) => NothingLate(u.calls)
      BY <2>1, <2>3, <2>4, <2>5 DEF NothingLate
    <3>4. /\ Current(u.calls, {"set_mode"}) = Current(r.calls, {"set_mode"})
          /\ Current(u.calls, {"recover"}) = Current(r.calls, {"recover"})
      BY <2>3, <2>4, <2>5, CurrentOther
    <3>5. Current(u.calls, GoalKinds) \subseteq Current(r.calls, GoalKinds) \cup {new}
      BY <2>3, <2>4 DEF Current
    <3>6. c.kind = "send_goal" /\ Current(tm.calls, GoalKinds) = {c} /\ tm.goalInProgress
          /\ ~tm.goalHandle
      <4>1. c.kind = "send_goal" /\ Current(tm.calls, GoalKinds) = {c} /\ tm.goalInProgress
        BY <1>2, <1>4, <1>6 DEF Goals, Waiting
      <4>2. Current(tm.calls, {"get_result"}) = {}
        BY <4>1 DEF Current, GoalKinds
      <4>. QED
        BY <1>2, <4>1, <4>2 DEF Goals
    <3>7. Flow(u)
      <4>1. AnswersWanted(u)
        BY <2>1, <3>2, <3>4 DEF Flow, AnswersWanted
      <4>2. Carrying(u)
        BY <2>1, <2>5, <3>2, <3>5, <3>6 DEF Flow, Carrying
      <4>. QED
        BY <3>2, <4>1, <4>2 DEF Flow, Stopped, Matched
    <3>8. Kept(tm, u)
      BY <3>2, <3>3, <3>7 DEF Kept, Prompt, Dark, Staged, Held, Carries
    <3>9. Current(r.calls, {"recover"}) = Current(tm.calls, {"recover"})
      BY <2>1, <3>6 DEF Current
    <3>10. Supervisor!Accept
      BY <3>1, <3>2, <3>4, <3>6, <3>9 DEF Supervisor!Accept
    <3>. QED
      BY <1>1, <3>1, <3>8, <3>10, KeptStep DEF Obeys, Supervisor!Next
  <2>. QED
    BY <2>6, <2>7
<1>. QED
  BY <1>3, <1>5, <1>6

LEMMA RobotResultStep ==
  ASSUME Inv(tm), Flow(tm), NEW c \in Waiting("get_result"), NEW outcome \in Outcomes(c.what),
         OnRobotResult(c, outcome)
  PROVE  Step
<1> DEFINE r == Settle(tm, c)
           t == GoalGone(tm, c)
<1>1. /\ gripper' \in GripperAfter(c.what, outcome, gripper)
      /\ tm' = IF c.current THEN RobotResult(r, outcome) ELSE r
  BY DEF OnRobotResult, Becomes
<1>2. tm \in TaskState /\ Goals(tm) /\ c \in tm.calls /\ c.kind \in GoalKinds
  BY DEF Inv, Book, Base, Waiting, GoalKinds
<1>3. CASE ~c.current
  <2>1. ~NothingLate(tm.calls)
    BY <1>2, <1>3 DEF NothingLate
  <2>. QED
    BY <1>1, <1>3, <2>1, StaleStep DEF Kept, Step
<1>4. CASE c.current
  <2>1. c \in Current(tm.calls, GoalKinds)
    BY <1>2, <1>4 DEF Current
  <2>2. r.cancelPending = tm.cancelPending /\ r.resultState = tm.resultState
    BY <1>2, SettleFrame DEF SameTask
  <2>3. tm' = IF tm.cancelPending # None THEN FinishCancel(CancelGone(t), tm.cancelPending)
              ELSE HandleResult(t, IF tm.resultState = None THEN r.state ELSE tm.resultState,
                                outcome)
    BY <1>1, <1>4, <2>2 DEF RobotResult, GoalGone, CancelGone
  <2>4. CASE tm.cancelPending # None
    BY <2>1, <2>3, <2>4, ConfirmStep DEF Kept, Step, Gripped
  <2>5. CASE tm.cancelPending = None
    <3>1. /\ Ready(t) /\ t.state = tm.state /\ tm.resultState = tm.state
          /\ t.state # "CANCELLING" /\ tm.safety = "NORMAL"
      BY <2>1, <2>5, EndedReady
    <3>2. /\ NothingLate(tm.calls) => NothingLate(t.calls)
          /\ Held(tm, t) /\ t.asked = tm.asked /\ t.safety = tm.safety
      BY <1>2, GoalGoneFrame
    <3>3. tm.resultState # None
      BY <1>2, <2>1 DEF Goals
    <3> HIDE DEF t
    <3>4. tm' = HandleResult(t, t.state, outcome)
      BY <2>3, <2>5, <3>1, <3>3
    <3>5. /\ Fresh(tm') /\ Prompt(t, tm') /\ (Staged(t) => Staged(tm'))
          /\ Carries(tm') => Grasping(t, outcome)
      BY <3>1, <3>4, ResultFresh DEF Carries
    <3>6. Staged(tm) => Staged(t)
      BY <3>1, <3>2 DEF Staged, Held
    <3>7. ASSUME Gripped(tm, gripper), Carries(tm') PROVE gripper' = "tool"
      <4>1. CASE t.state = "SERVO_PICK" /\ outcome = "grasped"
        <5>1. c.what = "servo_pick"
          BY <4>1 DEF Outcomes
        <5>. QED
          BY <1>1, <4>1, <5>1 DEF GripperAfter
      <4>2. CASE t.state \in {"MOVE_SAFE", "APPROACH_HAND"}
        <5>1. c.what \in {"handover_safe", "handover_approach"}
          BY <2>1, <3>1, <4>2 DEF Flow, Carrying
        <5>2. gripper' = gripper
          BY <1>1, <5>1 DEF GripperAfter
        <5>3. gripper = "tool"
          BY <3>1, <3>7, <4>2 DEF Gripped, Carries, ContinueStates
        <5>. QED
          BY <5>2, <5>3
      <4>. QED
        BY <3>5, <3>7, <4>1, <4>2 DEF Grasping
    <3>8. Obeys
      BY <2>5, <3>1, <3>5, FreshStep
    <3>. QED
      BY <3>2, <3>5, <3>6, <3>7, <3>8 DEF Fresh, Step, Gripped, Prompt
  <2>. QED
    BY <2>4, <2>5
<1>. QED
  BY <1>3, <1>4

LEMMA ExceptionStep ==
  ASSUME Inv(tm), Flow(tm), NEW c, OnActionFutureException(c)
  PROVE  Step
<1> DEFINE r == Settle(tm, c)
<1>1. /\ "robot_task" \in Flaky
      /\ tm' = IF c.current THEN ActionFutureException(r) ELSE r
  BY DEF OnActionFutureException, Becomes
<1>2. CASE ~c.current
  BY <1>1, <1>2, StaleStep DEF Kept, Step
<1>3. CASE c.current
  <2>1. r \in TaskState /\ Waits(r)
    BY SettleFrame DEF Inv, Book, Base, Waits
  <2> HIDE DEF r
  <2>2. Book(tm') /\ Dead(tm') /\ Asked(r, tm', "OFF", None)
    BY <1>1, <1>3, <2>1, ExceptionAsks
  <2>3. Fresh(tm') /\ tm'.safety # "NORMAL"
    BY <2>2, DeadFresh DEF Dead
  <2>. QED
    BY <1>1, <2>2, <2>3, SupervisorLoses DEF Fresh, Step, Obeys, Staged
<1>. QED
  BY <1>2, <1>3

LEMMA VisionResponseStep ==
  ASSUME Inv(tm), Flow(tm), NEW c \in Waiting("set_mode"), NEW success \in BOOLEAN,
         OnVisionModeResponse(c, success)
  PROVE  Step
<1> DEFINE r == Settle(tm, c)
           goal == IF c.what = "MOVE_TO_WATCH" THEN "watch" ELSE "handover_approach"
<1>1. /\ UNCHANGED gripper
      /\ tm' = IF ~c.current \/ r.state # c.what THEN r
               ELSE IF ~success THEN EnterFault(r, "FAULT") ELSE SendRobotGoal(r, goal)
  BY DEF OnVisionModeResponse, VisionAnswered, Becomes
<1>2. tm \in TaskState /\ Waits(tm) /\ Book(tm) /\ c \in tm.calls /\ c.kind = "set_mode"
  BY DEF Inv, Book, Base, Waiting
<1>3. /\ r \in TaskState /\ r.calls = tm.calls \ {c} /\ SameTask(tm, r)
      /\ \A kinds : Current(r.calls, kinds) = Current(tm.calls, kinds) \ {c}
      /\ Held(tm, r) /\ r.asked = tm.asked
      /\ NothingLate(tm.calls) => NothingLate(r.calls)
  BY <1>2, SettleFrame, SettleAsks
<1>4. \A kinds : "set_mode" \notin kinds => Current(r.calls, kinds) = Current(tm.calls, kinds)
  BY <1>2, <1>3 DEF Current
<1>5. "set_mode" \notin GoalKinds /\ "set_mode" \notin {"recover"} /\ "set_mode" \notin {"get_result"}
  BY DEF GoalKinds
<1>6. Quiet(tm, r)
  BY <1>2, <1>5, SettleQuiet DEF Current
<1>7. SameCalls(tm, r) /\ Waits(r)
  BY <1>2, <1>3, <1>4, <1>5 DEF SameCalls, Waits
<1>8. Book(r) /\ Base(r)
  BY <1>2, <1>3, <1>7, BookKept DEF Book
<1> HIDE DEF r
<1>9. CASE tm' = r
  BY <1>1, <1>6, <1>9, QuietStep, KeptStep
<1>10. CASE tm' = EnterFault(r, "FAULT")
  <2>1. "FAULT" \in FaultLevel /\ Current(r.calls, GoalKinds) = Current(tm.calls, GoalKinds)
    BY <1>4, <1>5 DEF FaultLevel
  <2>. QED
    BY <1>1, <1>3, <1>8, <1>10, <2>1, FaultStep, KeptStep DEF SameTask
<1>11. CASE c.current /\ r.state = c.what /\ tm' = SendRobotGoal(r, goal)
  <2>1. /\ tm.safety = "NORMAL" /\ tm.cancelPending = None
        /\ tm.state \in {"MOVE_TO_WATCH", "APPROACH_HAND"} /\ tm.state = c.what
    <3>1. c \in Current(tm.calls, {"set_mode"})
      BY <1>2, <1>11 DEF Current
    <3>. QED
      BY <1>2, <1>3, <1>11, <3>1 DEF Flow, AnswersWanted, Waits, SameTask
  <2>2. CASE r.goalInProgress
    BY <1>9, <1>11, <2>2 DEF SendRobotGoal
  <2>3. CASE ~r.goalInProgress
    <3>1. Ready(r) /\ r.state = tm.state
      BY <1>3, <1>8, <2>1, <2>3 DEF Ready, SameTask
    <3>2. goal \in Goal /\ (r.state = "APPROACH_HAND" => goal = "handover_approach")
      BY <2>1, <3>1 DEF Goal, NamedTarget
    <3> HIDE DEF goal
    <3>3. Enters(r, SendRobotGoal(r, goal), r.state, r.asked)
      BY <2>1, <3>1, <3>2, SendFresh
    <3>. QED
      BY <1>1, <1>3, <1>11, <2>1, <3>1, <3>3, EntersStep DEF Staged, Held
  <2>. QED
    BY <2>2, <2>3
<1>. QED
  BY <1>1, <1>9, <1>10, <1>11

LEMMA RecoverResponseStep ==
  ASSUME Inv(tm), Flow(tm), NEW c \in Waiting("recover"), NEW success \in BOOLEAN,
         OnRecoverResponse(c, success)
  PROVE  Step
<1> DEFINE r == Settle(tm, c)
           t == [r EXCEPT !.recoveryInProgress = FALSE]
           u == [t EXCEPT !.safety = "NORMAL", !.mode = "MANUAL",
                          !.tool = None, !.spec = None, !.retries = 0]
           w == CancelAllTimers(u)
           x == SetVisionMode(w, "OFF", None)
           y == [x EXCEPT !.state = "IDLE"]
<1>1. /\ UNCHANGED gripper
      /\ tm' = IF c.current THEN RecoverAnswered(r, success) ELSE r
  BY DEF OnRecoverResponse, Becomes
<1>2. tm \in TaskState /\ Recovers(tm) /\ Goals(tm)
  BY DEF Inv, Book, Base
<1>3. CASE ~c.current
  BY <1>1, <1>3, StaleStep, KeptStep
<1>4. CASE c.current
  <2>1. /\ c \in Current(tm.calls, {"recover"}) /\ tm.recoveryInProgress
        /\ tm.safety = "RECOVERY_REQUIRED" /\ tm.cancelPending = None
    BY <1>2, <1>4 DEF Waiting, Current, Recovers
  <2>2. ~tm.goalInProgress /\ tm.resultState = None /\ ~tm.goalHandle
    <3>1. ~tm.goalInProgress
      BY <2>1 DEF Flow, Stopped
    <3>. QED
      BY <3>1, AtRest DEF Inv, Book
  <2>3. /\ r \in TaskState /\ SameTask(tm, r)
        /\ Held(tm, r) /\ r.asked = tm.asked
        /\ NothingLate(tm.calls) => NothingLate(r.calls)
        /\ Current(r.calls, {"set_mode"}) \subseteq Current(tm.calls, {"set_mode"})
    BY <1>2, SettleFrame, SettleAsks
  <2>4. tm' = t \/ tm' = y
    BY <1>1, <1>4 DEF RecoverAnswered
  <2> HIDE DEF r
  <2>5. /\ t \in TaskState /\ t.calls = r.calls /\ ~t.recoveryInProgress /\ t.asked = tm.asked
        /\ t.state = tm.state /\ t.safety = tm.safety
        /\ ~t.goalInProgress /\ ~t.goalHandle /\ t.resultState = None
        /\ t.cancelPending = None
    <3>1. t \in TaskState
      BY <2>3 DEF TaskState
    <3>2. /\ t.calls = r.calls /\ ~t.recoveryInProgress /\ t.asked = r.asked
          /\ t.state = r.state /\ t.safety = r.safety
          /\ t.goalInProgress = r.goalInProgress /\ t.goalHandle = r.goalHandle
          /\ t.resultState = r.resultState /\ t.cancelPending = r.cancelPending
      BY <2>3 DEF TaskState
    <3>. QED
      BY <2>1, <2>2, <2>3, <3>1, <3>2 DEF SameTask
  <2> HIDE DEF t
  <2>6. None \notin {"IDLE", "DETECT_TRACK", "CANCELLING", "MOVE_SAFE", "APPROACH_HAND"}
    BY DEF None
  <2>7. CASE tm' = t
    <3>1. AnswersWanted(t)
      BY <2>1, <2>3, <2>5 DEF Flow, AnswersWanted
    <3>2. Flow(t)
      BY <2>5, <2>6, <3>1 DEF Flow, Stopped, Matched, Carrying
    <3>3. Kept(tm, t)
      BY <2>1, <2>3, <2>5, <3>2 DEF Kept, Prompt, Dark, Staged, Carries
    <3>4. Supervisor!RecoveryEnds
      BY <2>1, <2>2, <2>5, <2>7 DEF Supervisor!RecoveryEnds
    <3>. QED
      BY <1>1, <2>7, <3>3, <3>4, KeptStep DEF Obeys, Supervisor!Next
  <2>8. CASE tm' = y
    <3>1. /\ u \in TaskState /\ u.calls = t.calls /\ ~u.recoveryInProgress
          /\ u.safety = "NORMAL" /\ u.spec = None
          /\ ~u.goalInProgress /\ ~u.goalHandle /\ u.resultState = None
          /\ u.cancelPending = None
      <4>1. u \in TaskState
        BY <2>5, SnapshotTypes DEF TaskState, Safety, Mode
      <4>2. /\ u.calls = t.calls /\ ~u.recoveryInProgress
            /\ u.safety = "NORMAL" /\ u.spec = None
            /\ ~u.goalInProgress /\ ~u.goalHandle /\ u.resultState = None
            /\ u.cancelPending = None
        BY <2>5 DEF TaskState
      <4>. QED
        BY <4>1, <4>2
    <3> HIDE DEF u
    <3>2. /\ w \in TaskState /\ w.calls = u.calls /\ ~w.recoveryInProgress
          /\ w.safety = "NORMAL" /\ w.spec = None
          /\ ~w.goalInProgress /\ ~w.goalHandle /\ w.resultState = None
          /\ w.cancelPending = None
      <4>1. w \in TaskState
        BY <3>1, CancelTimersType
      <4>2. /\ w.calls = u.calls /\ ~w.recoveryInProgress
            /\ w.safety = "NORMAL" /\ w.spec = None
            /\ ~w.goalInProgress /\ ~w.goalHandle /\ w.resultState = None
            /\ w.cancelPending = None
        BY <3>1 DEF CancelAllTimers, TaskState
      <4>. QED
        BY <4>1, <4>2
    <3> HIDE DEF w
    <3>3. /\ x \in TaskState /\ ~x.recoveryInProgress
          /\ x.safety = "NORMAL" /\ x.spec = None
          /\ ~x.goalInProgress /\ ~x.goalHandle /\ x.resultState = None
          /\ x.cancelPending = None /\ Prompt(w, x)
      <4>1. x \in TaskState /\ Prompt(w, x) /\ Held(w, x)
        BY <3>2, SetVisionModeType, RequestTypes, SetVisionModeAsks
      <4>2. /\ ~x.recoveryInProgress /\ x.safety = "NORMAL"
            /\ ~x.goalInProgress /\ ~x.goalHandle /\ x.resultState = None
            /\ x.cancelPending = None
        BY <3>2 DEF SetVisionMode, TaskState
      <4>. QED
        BY <3>2, <4>1, <4>2 DEF Held
    <3> HIDE DEF x
    <3>4. /\ ~y.recoveryInProgress /\ y.calls = x.calls
          /\ y.safety = "NORMAL" /\ y.spec = None /\ y.state = "IDLE"
          /\ ~y.goalInProgress /\ ~y.goalHandle /\ y.resultState = None
          /\ y.cancelPending = None
      BY <3>3 DEF TaskState
    <3> HIDE DEF y
    <3>5. Flow(y)
      BY <2>6, <3>4 DEF Flow, AnswersWanted, Stopped, Matched, Carrying
    <3>6. Prompt(tm, y)
      BY <2>3, <2>5, <3>1, <3>2, <3>3, <3>4 DEF Prompt
    <3>7. Kept(tm, y)
      BY <3>4, <3>5, <3>6 DEF Kept, Dark, Staged, Served, Looking, Carries, ContinueStates
    <3>8. Supervisor!RecoveryEnds
      BY <2>1, <2>2, <2>8, <3>4 DEF Supervisor!RecoveryEnds
    <3>. QED
      BY <1>1, <2>8, <3>7, <3>8, KeptStep DEF Obeys, Supervisor!Next
  <2>. QED
    BY <2>4, <2>7, <2>8
<1>. QED
  BY <1>3, <1>4

LEMMA ReplyingStep ==
  ASSUME Inv(tm), Flow(tm), Replying
  PROVE  Step
BY GoalResponseStep, RobotResultStep, ExceptionStep, VisionResponseStep, RecoverResponseStep
   DEF Replying

(***************************************************************************)
(* Timers, faults and tracks.                                              *)
(***************************************************************************)
LEMMA CancelTimeoutStep ==
  ASSUME Inv(tm), Flow(tm), OnCancelTimeout
  PROVE  Step
<1> DEFINE s == [tm EXCEPT !.cancelTimer = FALSE]
           u == [s EXCEPT !.cancelPending = "noop", !.calls = Retire(@, {"recover"}),
                          !.recoveryInProgress = FALSE, !.safety = "FAULT"]
           old == Retire(tm.calls, {"recover"})
<1>1. /\ tm \in TaskState /\ tm.calls \in SUBSET Call /\ Cancels(tm)
      /\ tm.cancelPending # None /\ tm.goalInProgress
  BY DEF Inv, Book, Base, TaskState, Cancels, OnCancelTimeout
<1>2. tm' = u /\ UNCHANGED gripper
  <2>1. s.cancelPending = tm.cancelPending
    BY <1>1 DEF TaskState
  <2>. QED
    BY <1>1, <2>1 DEF OnCancelTimeout, Becomes
<1>3. /\ s \in TaskState /\ s.calls = tm.calls
      /\ s.goalInProgress = tm.goalInProgress /\ s.goalHandle = tm.goalHandle
      /\ s.resultState = tm.resultState
  BY <1>1 DEF TaskState
<1> HIDE DEF s
<1>4. /\ u.calls = old
      /\ u.goalInProgress = tm.goalInProgress /\ u.goalHandle = tm.goalHandle
      /\ u.resultState = tm.resultState
      /\ u.cancelPending = "noop" /\ ~u.recoveryInProgress /\ u.safety = "FAULT"
      /\ u.asked = s.asked /\ u.state = s.state
  BY <1>3 DEF TaskState
<1>5. u.asked = tm.asked /\ u.state = tm.state
  BY <1>1, <1>4 DEF s, TaskState
<1> HIDE DEF u
<1>6. /\ Current(old, GoalKinds) = Current(tm.calls, GoalKinds)
      /\ Current(old, {"set_mode"}) = Current(tm.calls, {"set_mode"})
      /\ NothingLate(tm.calls) => NothingLate(old)
  <2>1. {"recover"} \cap GoalKinds = {} /\ {"recover"} \cap {"set_mode"} = {}
    BY DEF GoalKinds
  <2>. QED
    BY <1>1, <2>1, CurrentRetire, LateKept
<1>7. "noop" # None
  BY DEF None
<1>8. Flow(u)
  BY <1>1, <1>4, <1>6, <1>7 DEF Flow, AnswersWanted, Stopped, Matched, Carrying
<1>9. "set_mode" \in up /\ Dark(tm) => Dark(u)
  <2>1. tm.safety = "NORMAL" => tm.state = "CANCELLING"
    BY <1>1 DEF Flow, Matched
  <2>. QED
    BY <1>5, <2>1 DEF Dark
<1>10. Kept(tm, u)
  BY <1>4, <1>6, <1>8, <1>9 DEF Kept, Prompt, Staged, Carries
<1>11. Supervisor!CancelTimeout
  BY <1>1, <1>2, <1>4, <1>7 DEF Supervisor!CancelTimeout
<1>. QED
  BY <1>2, <1>10, <1>11, KeptStep DEF Obeys, Supervisor!Next

\* The wait for a track ends without a pick.
LEMMA GivenUpStep ==
  ASSUME Inv(tm), Flow(tm), tm.state = "DETECT_TRACK", UNCHANGED gripper,
         NEW w \in TaskState, SameBooks(tm, w),
         SameBooks(SetVisionMode(w, "OFF", None), tm'),
         tm'.state = "IDLE", tm'.spec = None,
         tm'.asked = SetVisionMode(w, "OFF", None).asked
  PROVE  Step
<1> DEFINE v == SetVisionMode(w, "OFF", None)
<1>1. Waits(w)
  BY BooksKept DEF Inv, Book, Base
<1>2. /\ v \in TaskState /\ SameTask(w, v) /\ SameCalls(w, v)
      /\ Asked(w, v, "OFF", None) /\ Prompt(w, v) /\ Current(v.calls, {"set_mode"}) = {}
  BY <1>1, SetVisionModeType, RequestTypes, SetVisionModeFrame, SetVisionModeAsks
<1> HIDE DEF v
<1>3. /\ Current(v.calls, GoalKinds) = Current(tm.calls, GoalKinds)
      /\ Current(v.calls, {"recover"}) = Current(tm.calls, {"recover"})
  <2>1. GoalKinds \in {GoalKinds, {"get_result"}, {"recover"}}
        /\ {"recover"} \in {GoalKinds, {"get_result"}, {"recover"}}
    OBVIOUS
  <2>. QED
    BY <1>2, <2>1 DEF SameCalls, SameBooks
<1>4. /\ tm'.safety = tm.safety /\ tm'.calls = v.calls
      /\ tm'.goalInProgress = tm.goalInProgress /\ tm'.goalHandle = tm.goalHandle
      /\ tm'.resultState = tm.resultState /\ tm'.cancelPending = tm.cancelPending
      /\ tm'.recoveryInProgress = tm.recoveryInProgress
  BY <1>2 DEF SameBooks, SameTask, v
<1>5. tm.safety = "NORMAL" => ~tm.goalInProgress
  BY DEF Flow, Matched
<1>6. Flow(tm')
  BY <1>2, <1>3, <1>4, <1>5 DEF Flow, AnswersWanted, Stopped, Matched, Carrying
<1>7. Prompt(tm, tm')
  BY <1>2, <1>4 DEF Prompt, SameBooks
<1>8. "set_mode" \in up => Dark(tm')
  BY <1>2 DEF Asked, Dark, v
<1>9. Kept(tm, tm')
  BY <1>6, <1>7, <1>8 DEF Kept, Staged, Served, Looking, Carries, ContinueStates
<1>10. UNCHANGED Supervisor!vars
  BY <1>3, <1>4, SupervisorStutters
<1>. QED
  BY <1>9, <1>10, KeptStep DEF Obeys

LEMMA DetectTrackTimeoutStep ==
  ASSUME Inv(tm), Flow(tm), OnDetectTrackTimeout
  PROVE  Step
<1> DEFINE s == [tm EXCEPT !.detectTimer = FALSE]
           v == SetVisionMode(s, "OFF", None)
           u == [v EXCEPT !.tool = None, !.spec = None, !.state = "IDLE"]
<1>1. tm' = (IF tm.state # "DETECT_TRACK" THEN s ELSE u) /\ UNCHANGED gripper
  BY DEF OnDetectTrackTimeout, Becomes
<1>2. tm \in TaskState
  BY DEF Inv, Book, Base
<1>3. /\ s \in TaskState /\ SameBooks(tm, s) /\ s.state = tm.state /\ s.asked = tm.asked
      /\ Held(tm, s)
  BY <1>2 DEF TaskState, SameBooks, Held
<1> HIDE DEF s
<1>4. CASE tm.state # "DETECT_TRACK"
  <2>1. Quiet(tm, s)
    BY <1>3 DEF SameBooks, Quiet
  <2>. QED
    BY <1>1, <1>4, <2>1, QuietStep, KeptStep
<1>5. CASE tm.state = "DETECT_TRACK"
  <2>1. v \in TaskState
    BY <1>3, SetVisionModeType, RequestTypes
  <2> HIDE DEF v
  <2>2. SameBooks(v, u) /\ u.state = "IDLE" /\ u.spec = None /\ u.asked = v.asked
    BY <2>1 DEF TaskState, SameBooks
  <2>. QED
    BY <1>1, <1>3, <1>5, <2>2, GivenUpStep DEF v
<1>. QED
  BY <1>4, <1>5

LEMMA WaitPullTimerStep ==
  ASSUME Inv(tm), Flow(tm), OnWaitPullTimer
  PROVE  Step
<1>1. UNCHANGED gripper /\ \E timer \in {"off", "reminder"} : tm' = [tm EXCEPT !.waitPullTimer = timer]
  BY DEF OnWaitPullTimer, Becomes
<1>2. PICK timer \in {"off", "reminder"} : tm' = [tm EXCEPT !.waitPullTimer = timer]
  BY <1>1
<1>3. tm \in TaskState
  BY DEF Inv, Book, Base
<1>4. Quiet(tm, [tm EXCEPT !.waitPullTimer = timer])
  BY <1>3 DEF TaskState, Quiet, Held
<1>. QED
  BY <1>1, <1>2, <1>4, QuietStep, KeptStep

LEMMA VisionModeTimeoutStep ==
  ASSUME Inv(tm), Flow(tm), NEW c, OnVisionModeTimeout(c)
  PROVE  Step
<1> DEFINE old == Retire(tm.calls, {"set_mode"})
           calls == Untime(old, {"set_mode"})
           s == [tm EXCEPT !.calls = Untime(Retire(@, {"set_mode"}), {"set_mode"})]
<1>1. tm' = EnterFault(s, "FAULT") /\ UNCHANGED gripper /\ "FAULT" \in FaultLevel
  BY DEF OnVisionModeTimeout, Becomes, FaultLevel
<1>2. tm \in TaskState /\ tm.calls \in SUBSET Call /\ Book(tm) /\ Waits(tm)
  BY DEF Inv, Book, Base, TaskState
<1>3. old \in SUBSET Call
  BY <1>2, RetireType
<1>4. calls \in SUBSET Call
  BY <1>3, UntimeType
<1>5. s \in TaskState /\ s.calls = calls /\ SameTask(tm, s)
  BY <1>2, <1>4 DEF TaskState, SameTask
<1> HIDE DEF s
<1>6. /\ {"set_mode"} \cap GoalKinds = {} /\ {"set_mode"} \cap {"get_result"} = {}
      /\ {"set_mode"} \cap {"recover"} = {}
  BY DEF GoalKinds
<1>7. /\ Current(old, GoalKinds) = Current(tm.calls, GoalKinds)
      /\ Current(old, {"get_result"}) = Current(tm.calls, {"get_result"})
      /\ Current(old, {"recover"}) = Current(tm.calls, {"recover"})
      /\ NothingLate(tm.calls) => NothingLate(old)
      /\ \A d \in old : d.kind = "set_mode" => d.what \in {"MOVE_TO_WATCH", "APPROACH_HAND"}
  BY <1>2, <1>6, CurrentRetire, LateKept, WaitsKept DEF Waits
<1> HIDE DEF old
<1>8. /\ Current(calls, GoalKinds) = Current(old, GoalKinds)
      /\ Current(calls, {"get_result"}) = Current(old, {"get_result"})
      /\ Current(calls, {"recover"}) = Current(old, {"recover"})
      /\ NothingLate(old) => NothingLate(calls)
      /\ \A d \in calls : d.kind = "set_mode" => d.what \in {"MOVE_TO_WATCH", "APPROACH_HAND"}
  <2>1. \A d \in calls : d.kind = "set_mode" => d.what \in {"MOVE_TO_WATCH", "APPROACH_HAND"}
    BY <1>3, <1>7, WaitsKept
  <2>2. NothingLate(old) => NothingLate(calls)
    BY <1>3, LateKept
  <2>. QED
    BY <1>3, <1>6, <2>1, <2>2, CurrentUntime
<1> HIDE DEF calls
<1>9. SameCalls(tm, s) /\ Waits(s)
  BY <1>5, <1>7, <1>8 DEF SameCalls, Waits
<1>10. Base(s)
  BY <1>2, <1>5, <1>9, BookKept DEF Book
<1>. QED
  BY <1>1, <1>5, <1>7, <1>8, <1>10, FaultStep, KeptStep DEF SameTask

LEMMA RecoveryTimeoutStep ==
  ASSUME Inv(tm), Flow(tm), NEW c \in Waiting("recover"), OnRecoveryTimeout(c)
  PROVE  Step
<1> DEFINE old == Untime(tm.calls, {"recover"})
           calls == Retire(old, {"recover"})
           s == [tm EXCEPT !.calls = Untime(@, {"recover"})]
           u == [s EXCEPT !.calls = Retire(@, {"recover"}), !.recoveryInProgress = FALSE]
<1>1. /\ tm \in TaskState /\ tm.calls \in SUBSET Call /\ Recovers(tm)
      /\ c \in Current(tm.calls, {"recover"}) /\ UNCHANGED gripper
  BY DEF Inv, Book, Base, TaskState, OnRecoveryTimeout, Waiting, Current
<1>2. tm.recoveryInProgress /\ tm.safety = "RECOVERY_REQUIRED"
  BY <1>1 DEF Recovers
<1>3. tm' = u
  BY <1>2 DEF OnRecoveryTimeout, Becomes
<1>4. old \in SUBSET Call
  BY <1>1, UntimeType
<1>5. /\ s \in TaskState /\ s.calls = old /\ SameTask(tm, s) /\ s.asked = tm.asked
  BY <1>1, <1>4 DEF TaskState, SameTask
<1> HIDE DEF s
<1>6. {"recover"} \cap GoalKinds = {} /\ {"recover"} \cap {"set_mode"} = {}
  BY DEF GoalKinds
<1>7. /\ Current(old, GoalKinds) = Current(tm.calls, GoalKinds)
      /\ Current(old, {"set_mode"}) = Current(tm.calls, {"set_mode"})
      /\ NothingLate(tm.calls) => NothingLate(old)
  BY <1>1, <1>6, CurrentUntime, LateKept
<1> HIDE DEF old
<1>8. /\ Current(calls, GoalKinds) = Current(old, GoalKinds)
      /\ Current(calls, {"set_mode"}) = Current(old, {"set_mode"})
      /\ NothingLate(old) => NothingLate(calls)
  BY <1>4, <1>6, CurrentRetire, LateKept
<1>9. /\ u.calls = calls /\ ~u.recoveryInProgress /\ u.asked = s.asked
      /\ u.state = s.state /\ u.safety = s.safety
      /\ u.goalInProgress = s.goalInProgress /\ u.goalHandle = s.goalHandle
      /\ u.resultState = s.resultState /\ u.cancelPending = s.cancelPending
  BY <1>5 DEF TaskState
<1> HIDE DEF u, calls
<1>10. Flow(u)
  BY <1>5, <1>7, <1>8, <1>9 DEF Flow, AnswersWanted, Stopped, Matched, Carrying, SameTask
<1>11. Kept(tm, u)
  BY <1>2, <1>5, <1>7, <1>8, <1>9, <1>10 DEF Kept, Prompt, Dark, Staged, Carries, SameTask
<1>12. Supervisor!RecoveryEnds
  BY <1>1, <1>2, <1>3, <1>5, <1>9 DEF Supervisor!RecoveryEnds, SameTask
<1>. QED
  BY <1>1, <1>3, <1>11, <1>12, KeptStep DEF Obeys, Supervisor!Next

LEMMA TimersStep ==
  ASSUME Inv(tm), Flow(tm), TimersFiring
  PROVE  Step
BY CancelTimeoutStep, DetectTrackTimeoutStep, WaitPullTimerStep, VisionModeTimeoutStep,
   RecoveryTimeoutStep DEF TimersFiring

LEMMA FaultMessageStep ==
  ASSUME Inv(tm), Flow(tm), NEW level \in FaultLevels, NEW text \in FaultTexts,
         OnFault(level, text)
  PROVE  Step
<1> DEFINE s == [tm EXCEPT !.lastFault = <<level, text>>]
<1>1. tm' = EnterFault(s, level) /\ UNCHANGED gripper /\ level \in FaultLevel
  BY ConstantsAssumption DEF OnFault, Becomes
<1>2. tm \in TaskState /\ Base(tm)
  BY DEF Inv, Book, Base
<1>3. s \in TaskState /\ SameBooks(tm, s)
  BY <1>1, <1>2 DEF TaskState, SameBooks
<1> HIDE DEF s
<1>4. Base(s)
  BY <1>2, <1>3, BooksKept
<1>. QED
  BY <1>1, <1>3, <1>4, FaultStep, KeptStep DEF SameBooks

\* A track that starts a pick while the task is stopped.
StrayPick == tm.safety # "NORMAL" /\ \E tool \in ConfiguredTools : OnToolTrack(tool)

LEMMA ToolTrackStep ==
  ASSUME Inv(tm), Flow(tm), ~StrayPick, NEW tool \in Tools, OnToolTrack(tool)
  PROVE  Step
<1> DEFINE s == [tm EXCEPT !.detectTimer = FALSE]
           w == [s EXCEPT !.spec = None]
           v == SetVisionMode(w, "OFF", None)
           u == [v EXCEPT !.tool = None, !.state = "IDLE"]
           p == [s EXCEPT !.spec = tool, !.state = "SERVO_PICK"]
<1>1. /\ tm.state = "DETECT_TRACK" /\ tool = tm.tool /\ UNCHANGED gripper
      /\ tm' = IF tool \notin ConfiguredTools THEN u ELSE SendRobotGoal(p, "servo_pick")
  BY DEF OnToolTrack, Becomes
<1>2. tm \in TaskState
  BY DEF Inv, Book, Base
<1>3. /\ s \in TaskState /\ SameBooks(tm, s) /\ s.asked = tm.asked /\ s.tool = tm.tool
  BY <1>2 DEF TaskState, SameBooks
<1> HIDE DEF s
<1>4. CASE tool \notin ConfiguredTools
  <2>1. w \in TaskState /\ SameBooks(s, w) /\ w.spec = None
    BY <1>3 DEF TaskState, ToolOrNone, SameBooks
  <2> HIDE DEF w
  <2>2. v \in TaskState /\ Held(w, v)
    BY <2>1, SetVisionModeType, SetVisionModeAsks, RequestTypes
  <2>3. SameBooks(tm, w)
    BY <1>3, <2>1 DEF SameBooks
  <2> HIDE DEF v
  <2>4. SameBooks(v, u) /\ u.state = "IDLE" /\ u.spec = v.spec /\ u.asked = v.asked
    BY <2>2 DEF TaskState, SameBooks
  <2> HIDE DEF u
  <2>5. u.spec = None /\ tm' = u
    BY <1>1, <1>4, <2>1, <2>2, <2>4 DEF Held
  <2>. QED
    BY <1>1, <2>1, <2>3, <2>4, <2>5, GivenUpStep DEF v
<1>5. CASE tool \in ConfiguredTools
  <2>1. tm.safety = "NORMAL"
    BY <1>5 DEF StrayPick
  <2>2. Ready(tm) /\ tm.cancelPending = None
    BY <1>1, <2>1, RestIsReady
  <2>3. p \in TaskState
    BY ZenonT(60), <1>3 DEF TaskState, State, ToolOrNone
  <2>4. /\ SameBooks(s, p) /\ p.state = "SERVO_PICK" /\ p.asked = s.asked
        /\ p.tool = s.tool /\ p.spec = tool
    BY <1>3 DEF TaskState, SameBooks
  <2> HIDE DEF p
  <2>5. SameBooks(tm, p)
    BY <1>3, <2>4 DEF SameBooks
  <2>6. Ready(p)
    BY <2>2, <2>3, <2>5, ReadyKept
  <2>7. Enters(p, tm', "SERVO_PICK", tm.asked)
    BY <1>1, <1>3, <1>5, <2>4, <2>6, SendFresh DEF Goal
  <2>8. Staged(tm) => Served("SERVO_PICK", tm.asked, p.tool) /\ p.spec = p.tool
    BY <1>1, <1>3, <2>1, <2>4 DEF Staged, Served, Looking
  <2>. QED
    BY <1>1, <2>1, <2>2, <2>5, <2>7, <2>8, EntersStep DEF SameBooks, ContinueStates
<1>. QED
  BY <1>4, <1>5

LEMMA FlowStep ==
  ASSUME Inv(tm), Flow(tm), [Next]_vars, ~StrayPick
  PROVE  Step
<1>1. ASSUME UNCHANGED <<tm, gripper>> PROVE Step
  <2>1. Quiet(tm, tm')
    BY <1>1 DEF Quiet, Held
  <2>. QED
    BY <1>1, <2>1, QuietStep, KeptStep
<1>2. CASE EndpointsChange
  BY <1>1, <1>2 DEF EndpointsChange
<1>3. ASSUME NEW tool \in Tools, TracksDrain(tool) PROVE Step
  BY <1>1, <1>3 DEF TracksDrain
<1>4. CASE UNCHANGED vars
  BY <1>1, <1>4 DEF vars
<1>. QED
  BY <1>2, <1>3, <1>4, CommandingStep, ReplyingStep, TimersStep, FaultMessageStep, ToolTrackStep
     DEF Next

(***************************************************************************)
(* The behaviours.                                                         *)
(***************************************************************************)
LEMMA FlowInit ==
  Init => /\ Inv(tm) /\ Flow(tm) /\ Dark(tm) /\ Staged(tm)
          /\ NothingLate(tm.calls) /\ Gripped(tm, gripper) /\ up = Endpoint
          /\ Supervisor!Init
<1> SUFFICES ASSUME Init
             PROVE  /\ Inv(tm) /\ Flow(tm) /\ Dark(tm) /\ Staged(tm)
                    /\ NothingLate(tm.calls) /\ Gripped(tm, gripper) /\ up = Endpoint
                    /\ Supervisor!Init
  OBVIOUS
<1>1. /\ tm.calls = {} /\ tm.state = "IDLE" /\ tm.safety = "NORMAL"
      /\ ~tm.goalInProgress /\ tm.resultState = None /\ tm.cancelPending = None
      /\ ~tm.recoveryInProgress /\ tm.asked.mode = "OFF" /\ tm.spec = None
  BY DEF Init, InitialTask
<1>2. Current(tm.calls, {"set_mode"}) = {}
  BY <1>1 DEF Current
<1>3. Flow(tm)
  BY <1>1, <1>2 DEF Flow, AnswersWanted, Stopped, Matched, Carrying, None
<1>4. Dark(tm) /\ Staged(tm) /\ NothingLate(tm.calls)
  BY <1>1 DEF Dark, Staged, Served, Looking, NothingLate
<1>5. Gripped(tm, gripper)
  BY <1>1 DEF Gripped, Carries, ContinueStates
<1>6. Supervisor!Init
  BY <1>1 DEF Supervisor!Init
<1>. QED
  BY <1>3, <1>4, <1>5, <1>6, InvInit DEF Init

LEMMA FlowPrimed ==
  /\ Flow(tm)' <=> Flow(tm')
  /\ Dark(tm)' <=> Dark(tm')
  /\ Staged(tm)' <=> Staged(tm')
  /\ NothingLate(tm.calls)' <=> NothingLate(tm'.calls)
  /\ Gripped(tm, gripper)' <=> Gripped(tm', gripper')
BY DEF Flow, AnswersWanted, Stopped, Matched, Carrying, Dark, Staged, Served, Looking,
       NothingLate, Gripped, Carries

LEMMA FlowShows == Inv(tm) /\ Flow(tm) => IdleMeansStill /\ GoalMatchesState
<1> SUFFICES ASSUME Inv(tm), Flow(tm) PROVE IdleMeansStill /\ GoalMatchesState
  OBVIOUS
<1>1. Matched(tm)
  BY DEF Flow
<1>2. Goals(tm)
  BY DEF Inv, Book, Base
<1>. QED
  BY <1>1, <1>2 DEF IdleMeansStill, GoalMatchesState, Matched, Goals

(***************************************************************************)
(* The robot sees of task_manager only steps the supervisor may take, in   *)
(* every behaviour in which no ToolTrack that arrives away from NORMAL     *)
(* starts a pick.                                                          *)
(***************************************************************************)
THEOREM SupervisedButForStrayPicks == Spec /\ [][~StrayPick]_vars => Supervised
<1>1. Init => Inv(tm) /\ Flow(tm) /\ Supervisor!Init
  BY FlowInit
<1>2. Inv(tm) /\ Flow(tm) /\ [Next]_vars /\ [~StrayPick]_vars => Inv(tm)' /\ Flow(tm)' /\ Obeys
  <2> SUFFICES ASSUME Inv(tm), Flow(tm), [Next]_vars, [~StrayPick]_vars
               PROVE  Inv(tm)' /\ Flow(tm)' /\ Obeys
    OBVIOUS
  <2>1. CASE ~StrayPick
    BY <2>1, FlowStep, InvStep, FlowPrimed DEF Step
  <2>2. CASE UNCHANGED vars
    <3>1. Obeys
      BY <2>2 DEF vars, Obeys, Supervisor!vars
    <3>2. Inv(tm)' /\ tm' = tm
      BY <2>2, InvStep DEF vars
    <3>. QED
      BY <3>1, <3>2, FlowPrimed
  <2>. QED
    BY <2>1, <2>2
<1>. QED
  BY <1>1, <1>2, PTL DEF Spec, Supervised, Supervisor!Spec, Obeys

\* And in those behaviours IDLE at NORMAL is rest, and at NORMAL the state is the one
\* whose goal runs.
THEOREM FlowButForStrayPicks ==
  Spec /\ [][~StrayPick]_vars => [](IdleMeansStill /\ GoalMatchesState)
<1>1. Init => Inv(tm) /\ Flow(tm)
  BY FlowInit
<1>2. Inv(tm) /\ Flow(tm) /\ [Next]_vars /\ [~StrayPick]_vars => Inv(tm)' /\ Flow(tm)'
  <2> SUFFICES ASSUME Inv(tm), Flow(tm), [Next]_vars, [~StrayPick]_vars
               PROVE  Inv(tm)' /\ Flow(tm)'
    OBVIOUS
  <2>1. CASE ~StrayPick
    BY <2>1, FlowStep, InvStep, FlowPrimed DEF Step
  <2>2. CASE UNCHANGED vars
    <3>1. Inv(tm)' /\ tm' = tm
      BY <2>2, InvStep DEF vars
    <3>. QED
      BY <3>1, FlowPrimed
  <2>. QED
    BY <2>1, <2>2
<1>3. Inv(tm) /\ Flow(tm) => IdleMeansStill /\ GoalMatchesState
  BY FlowShows
<1>. QED
  BY <1>1, <1>2, <1>3, PTL DEF Spec

(***************************************************************************)
(* vision_node can always be asked, and publishes no track of a mode that  *)
(* was switched off: then a stopped task has the camera off, so no track   *)
(* can start a pick, so the flow is kept, so a task that stops has the     *)
(* camera off.                                                             *)
(***************************************************************************)
Safe == Inv(tm) /\ Flow(tm) /\ Dark(tm) /\ "set_mode" \in up

LEMMA UpKept ==
  ASSUME NEW endpoint \in Endpoint, endpoint \notin Flaky, endpoint \in up, [Next]_vars
  PROVE  endpoint \in up'
<1>1. CASE EndpointsChange
  BY <1>1 DEF EndpointsChange
<1>2. CASE UNCHANGED up
  BY <1>2
<1>3. \A s : Becomes(s) => UNCHANGED up
  BY DEF Becomes
<1>4. Commanding => UNCHANGED up
  BY <1>3, Zenon DEF Commanding, ResetTask, ResetSafety, Stop, Resume, ModeSwitch, ManualMove,
                     FetchTool
<1>5. Replying => UNCHANGED up
  BY <1>3, Zenon DEF Replying, OnGoalResponse, OnRobotResult, OnActionFutureException,
                     OnVisionModeResponse, OnRecoverResponse
<1>6. TimersFiring => UNCHANGED up
  BY <1>3, Zenon DEF TimersFiring, OnCancelTimeout, OnDetectTrackTimeout, OnWaitPullTimer,
                     OnVisionModeTimeout, OnRecoveryTimeout
<1>7. \A level, text : OnFault(level, text) => UNCHANGED up
  BY <1>3, Zenon DEF OnFault
<1>8. \A tool : OnToolTrack(tool) \/ TracksDrain(tool) => UNCHANGED up
  BY <1>3, Zenon DEF OnToolTrack, TracksDrain
<1>. QED
  BY <1>1, <1>2, <1>4, <1>5, <1>6, <1>7, <1>8 DEF Next, vars

LEMMA NoStrayPick == Dark(tm) /\ ~LateTracks => ~StrayPick
<1> SUFFICES ASSUME Dark(tm), ~LateTracks, tm.safety # "NORMAL",
                    NEW tool \in ConfiguredTools, OnToolTrack(tool)
             PROVE  FALSE
  BY DEF StrayPick
<1>1. tm.asked.mode = "OFF"
  BY DEF Dark
<1>2. tm.asked = [mode |-> "TRACK_TOOL", tool |-> tool]
  BY DEF OnToolTrack
<1>. QED
  BY <1>1, <1>2

LEMMA SafeStep ==
  ASSUME ~LateTracks, "set_mode" \notin Flaky, Safe, [Next]_vars
  PROVE  Safe' /\ Step
<1>1. ~StrayPick
  BY NoStrayPick DEF Safe
<1>2. Step
  BY <1>1, FlowStep DEF Safe
<1>3. Inv(tm)' /\ Flow(tm)' /\ Dark(tm)'
  BY <1>2, InvStep, FlowPrimed DEF Safe, Step
<1>4. "set_mode" \in up'
  BY UpKept DEF Safe, Endpoint
<1>. QED
  BY <1>2, <1>3, <1>4 DEF Safe

LEMMA SafeInit == Init => Safe /\ Supervisor!Init
BY FlowInit DEF Safe, Endpoint

(***************************************************************************)
(* task_manager implements the supervisor wherever vision_node can be      *)
(* asked and no track is read after its mode was switched off.             *)
(***************************************************************************)
THEOREM TaskManagerSupervised ==
  ASSUME ~LateTracks, "set_mode" \notin Flaky
  PROVE  Spec => Supervised
<1>1. Safe /\ [Next]_vars => Safe' /\ Obeys
  BY SafeStep DEF Step
<1>. QED
  BY <1>1, SafeInit, PTL DEF Spec, Supervised, Supervisor!Spec, Obeys

\* IDLE at NORMAL is rest: no goal runs or is on its way.
THEOREM IdleStill ==
  ASSUME ~LateTracks, "set_mode" \notin Flaky
  PROVE  Spec => []IdleMeansStill
<1>1. Safe /\ [Next]_vars => Safe'
  BY SafeStep
<1>2. Safe => IdleMeansStill
  BY FlowShows DEF Safe
<1>. QED
  BY <1>1, <1>2, SafeInit, PTL DEF Spec

\* At NORMAL the state an operator sees is the state whose goal runs, or CANCELLING.
THEOREM StateShowsGoal ==
  ASSUME ~LateTracks, "set_mode" \notin Flaky
  PROVE  Spec => []GoalMatchesState
<1>1. Safe /\ [Next]_vars => Safe'
  BY SafeStep
<1>2. Safe => GoalMatchesState
  BY FlowShows DEF Safe
<1>. QED
  BY <1>1, <1>2, SafeInit, PTL DEF Spec

(***************************************************************************)
(* Without resume, a task always starts at its first stage, so the camera  *)
(* request and the tool of a stage are those its predecessors set.         *)
(***************************************************************************)
\* At NORMAL the camera looks for what the task waits for, and the grasp is verified
\* against the widths of the tool the task is about.
THEOREM VisionServes ==
  ASSUME ~LateTracks, "set_mode" \notin Flaky, "resume" \notin Commands
  PROVE  Spec => []VisionServesTask
<1>1. Init => Safe /\ Staged(tm)
  BY FlowInit, SafeInit
<1>2. Safe /\ Staged(tm) /\ [Next]_vars => Safe' /\ Staged(tm)'
  BY SafeStep, FlowPrimed DEF Step
<1>3. Safe /\ Staged(tm) => VisionServesTask
  BY DEF Staged, Served, Looking, VisionServesTask
<1>. QED
  BY <1>1, <1>2, <1>3, PTL DEF Spec

\* The stages that carry the tool to the person and hold it there run with the tool in the
\* gripper.  The action client must not break: when it does, a reply of the lost goal can
\* move the gripper under a later task.
THEOREM GraspBacks ==
  ASSUME ~LateTracks, "set_mode" \notin Flaky, "robot_task" \notin Flaky, "resume" \notin Commands
  PROVE  Spec => []GraspBacksHandover
<1> DEFINE Backed == /\ Safe /\ Staged(tm) /\ "robot_task" \in up
                    /\ NothingLate(tm.calls) /\ Gripped(tm, gripper)
<1>1. Init => Backed
  BY FlowInit, SafeInit DEF Endpoint
<1>2. ASSUME Backed, [Next]_vars PROVE Backed'
  <2>1. Safe' /\ Step
    BY <1>2, SafeStep
  <2>2. "robot_task" \in up'
    BY <1>2, UpKept DEF Endpoint
  <2>3. Staged(tm)' /\ NothingLate(tm.calls)' /\ Gripped(tm, gripper)'
    BY <1>2, <2>1, FlowPrimed DEF Step, Prompt
  <2>. QED
    BY <2>1, <2>2, <2>3
<1>3. Backed => GraspBacksHandover
  BY DEF Staged, Served, Looking, Gripped, Carries, ContinueStates, GraspBacksHandover
<1>. QED
  BY <1>1, <1>2, <1>3, PTL DEF Spec

(***************************************************************************)
(* What the supervisor's steps guarantee by themselves.                    *)
(***************************************************************************)
USE DEF Supervisor!Fault, Supervisor!Level

\* Every variable of the supervisor keeps its type.
THEOREM SupervisorTypeCorrect == Supervisor!Spec => []Supervisor!TypeOK
<1>1. Supervisor!Init => Supervisor!TypeOK
  BY DEF Supervisor!Init, Supervisor!TypeOK
<1>2. Supervisor!TypeOK /\ [Supervisor!Next]_(Supervisor!vars) => Supervisor!TypeOK'
  <2> SUFFICES ASSUME Supervisor!TypeOK, [Supervisor!Next]_(Supervisor!vars)
               PROVE  Supervisor!TypeOK'
    OBVIOUS
  <2> USE DEF Supervisor!TypeOK
  <2>1. CASE Supervisor!Start \/ Supervisor!Accept
    BY <2>1 DEF Supervisor!Start, Supervisor!Accept
  <2>2. CASE Supervisor!Finish
    BY <2>2 DEF Supervisor!Finish
  <2>3. CASE Supervisor!Cancel \/ Supervisor!CancelConfirmed \/ Supervisor!CancelTimeout
    BY <2>3 DEF Supervisor!Cancel, Supervisor!CancelConfirmed, Supervisor!CancelTimeout
  <2>4. CASE Supervisor!RaiseFault \/ Supervisor!LoseGoal
    BY <2>4 DEF Supervisor!RaiseFault, Supervisor!LoseGoal
  <2>5. CASE Supervisor!Reset \/ Supervisor!RecoveryEnds
    BY <2>5 DEF Supervisor!Reset, Supervisor!RecoveryEnds
  <2>6. CASE UNCHANGED Supervisor!vars
    BY <2>6 DEF Supervisor!vars
  <2>. QED
    BY <2>1, <2>2, <2>3, <2>4, <2>5, <2>6 DEF Supervisor!Next
<1>. QED
  BY <1>1, <1>2, PTL DEF Supervisor!Spec

\* The two promises need each other: a goal left by a fault is being cancelled, so a
\* recovery either waits for that cancellation or finds no goal at all.
Promised ==
  Supervisor!TypeOK /\ Supervisor!RecoversOnlyAtRest /\ Supervisor!StoppedMeansCancelling

\* Recovery is asked of the robot only at rest, and a robot that moves away from NORMAL
\* is a robot being stopped.
THEOREM SupervisorKeepsPromises ==
  Supervisor!Spec => [](Supervisor!RecoversOnlyAtRest /\ Supervisor!StoppedMeansCancelling)
<1>1. Supervisor!Init => Promised
  BY DEF Supervisor!Init, Promised, Supervisor!TypeOK, Supervisor!RecoversOnlyAtRest,
         Supervisor!StoppedMeansCancelling
<1>2. Promised /\ Supervisor!TypeOK' /\ [Supervisor!Next]_(Supervisor!vars) => Promised'
  <2> SUFFICES ASSUME Promised, Supervisor!TypeOK', [Supervisor!Next]_(Supervisor!vars)
               PROVE  Promised'
    OBVIOUS
  <2> USE DEF Promised, Supervisor!TypeOK, Supervisor!RecoversOnlyAtRest,
              Supervisor!StoppedMeansCancelling
  <2>1. CASE Supervisor!Start \/ Supervisor!Accept
    BY <2>1 DEF Supervisor!Start, Supervisor!Accept
  <2>2. CASE Supervisor!Finish
    BY <2>2 DEF Supervisor!Finish
  <2>3. CASE Supervisor!Cancel
    BY <2>3 DEF Supervisor!Cancel
  <2>4. CASE Supervisor!CancelConfirmed
    BY <2>4 DEF Supervisor!CancelConfirmed
  <2>5. CASE Supervisor!CancelTimeout
    BY <2>5 DEF Supervisor!CancelTimeout
  <2>6. CASE Supervisor!RaiseFault \/ Supervisor!LoseGoal
    BY <2>6 DEF Supervisor!RaiseFault, Supervisor!LoseGoal
  <2>7. CASE Supervisor!Reset
    BY <2>7 DEF Supervisor!Reset
  <2>8. CASE Supervisor!RecoveryEnds
    BY <2>8 DEF Supervisor!RecoveryEnds
  <2>9. CASE UNCHANGED Supervisor!vars
    BY <2>9 DEF Supervisor!vars
  <2>. QED
    BY <2>1, <2>2, <2>3, <2>4, <2>5, <2>6, <2>7, <2>8, <2>9 DEF Supervisor!Next
<1>3. Promised => Supervisor!RecoversOnlyAtRest /\ Supervisor!StoppedMeansCancelling
  BY DEF Promised
<1>. QED
  BY <1>1, <1>2, <1>3, SupervisorTypeCorrect, PTL DEF Supervisor!Spec

\* So does task_manager, where it implements the supervisor: /robot/recover is called only
\* with no goal at the robot, and away from NORMAL a goal the robot has is being cancelled.
COROLLARY NodeKeepsPromises ==
  ASSUME ~LateTracks, "set_mode" \notin Flaky
  PROVE  Spec => [](Supervisor!RecoversOnlyAtRest /\ Supervisor!StoppedMeansCancelling)
BY TaskManagerSupervised, SupervisorKeepsPromises, PTL DEF Supervised

=============================================================================

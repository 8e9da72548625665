---------------------------- MODULE RobotSafety ----------------------------
(***************************************************************************)
(* The safety state of robot_control (SafetyMonitor and the callbacks of   *)
(* RobotControlNode that use it) with hardware_enabled.                    *)
(*                                                                         *)
(* The node runs on a pool of threads: the poll timer and the recover      *)
(* service are reentrant, a goal executes in a thread of its own, and the  *)
(* DRFL monitor calls in from outside the pool.  None of them locks the    *)
(* safety state, so declare_fault is a procedure every thread executes     *)
(* step by step: look at the priority, assign state and text, stop the arm *)
(* and publish.  Reads, or assignments, that follow each other are one     *)
(* step.                                                                   *)
(***************************************************************************)
EXTENDS Naturals, Sequences

CONSTANTS
  Pollers,      \* executor threads that run _on_state_poll_timer
  Recoverers,   \* executor threads that run the /robot/recover service
  Goals,        \* RobotTask goals that exist at the same time
  RobotStates,  \* the controller states that occur
  MaxFaults     \* bound: published faults not read yet

None == "none"

SafetyState == {"NORMAL", "PROTECTIVE_STOP", "FAULT", "EMERGENCY_STOP"}
FaultState == SafetyState \ {"NORMAL"}

SafetyStatePriority ==
  [NORMAL |-> 0, PROTECTIVE_STOP |-> 1, FAULT |-> 2, EMERGENCY_STOP |-> 3]

\* SAFE_STOP and SAFE_OFF stand for the pairs of stops recovered in the same way;
\* RECOVERY for every state recover has no command for.
RobotState == {"STANDBY", "MOVING", "SAFE_STOP", "SAFE_OFF", "EMERGENCY_STOP", "RECOVERY"}
SafeStops == {"SAFE_STOP", "SAFE_OFF"}

\* Threads that may declare a fault; Handler is the one that executes the goal.
Drfl == "drfl"
Handler == "handler"
Thread == Pollers \cup {Drfl, Handler}

\* The texts of a poll are told apart by the controller state they quote; those of the
\* others are never compared.
Reason == RobotState \cup {"other"}

ASSUME ThreadsAssumption ==
  /\ {Drfl, Handler} \cap Pollers = {}
  /\ None \notin Goals \cup Recoverers
  /\ RobotStates \subseteq RobotState
  /\ MaxFaults \in Nat

VARIABLES
  robot,      \* environment: state of the Doosan controller
  safety,     \* SafetyMonitor.state
  lastReason, \* SafetyMonitor.last_fault_reason
  declaring,  \* per thread: where it is in declare_fault, and with what
  polled,     \* per poller: the sample it has read and not yet judged
  recover,    \* per recoverer: where it is in the service
  reserved,   \* _goal_reserved
  goal,       \* per goal: how far it has come
  faults      \* /robot/fault: published and not yet read

safetyVars == <<robot, safety, lastReason, declaring, polled, recover, reserved, goal, faults>>

Idle == [step |-> "no", level |-> "FAULT", reason |-> "other"]
Declaring == [step : {"no", "assign", "publish"},
              level : FaultState, reason : Reason]

\* "yes" and "no" are answers on their way to the caller.
RecoverStep == {"idle", "asked", "read", "control", "grant", "yes", "no"}

\* "checked": the safety state was NORMAL, the reservation comes next.
GoalStep == {"free", "sent", "checked", "running", "refused", "done"}

RobotTypeOK ==
  /\ robot \in RobotState
  /\ safety \in SafetyState
  /\ lastReason \in Reason \cup {None}
  /\ declaring \in [Thread -> Declaring]
  /\ polled \in [Pollers -> RobotState \cup {None}]
  /\ recover \in [Recoverers -> RecoverStep]
  /\ reserved \in BOOLEAN
  /\ goal \in [Goals -> GoalStep]
  /\ faults \in Seq(FaultState)

RobotInit ==
  /\ robot = "STANDBY"
  /\ safety = "NORMAL"
  /\ lastReason = None
  /\ declaring = [t \in Thread |-> Idle]
  /\ polled = [p \in Pollers |-> None]
  /\ recover = [r \in Recoverers |-> "idle"]
  /\ reserved = FALSE
  /\ goal = [g \in Goals |-> "free"]
  /\ faults = <<>>

(***************************************************************************)
(* declare_fault, for a thread t that is not inside it already.            *)
(***************************************************************************)
Free(t) == declaring[t].step = "no"

\* A lower level than the present one is dropped without a word.
Declare(t, level, reason) ==
  declaring' =
    IF SafetyStatePriority[level] < SafetyStatePriority[safety] THEN declaring
    ELSE [declaring EXCEPT ![t] = [step |-> "assign", level |-> level, reason |-> reason]]

AssignFault(t) ==
  /\ declaring[t].step = "assign"
  /\ safety' = declaring[t].level
  /\ lastReason' = declaring[t].reason
  /\ declaring' = [declaring EXCEPT ![t].step = "publish"]
  /\ UNCHANGED <<robot, polled, recover, reserved, goal, faults>>

\* Faulty variant, for the mutation runs: a fault recovered in the meantime is not published.
PublishFaultIfStill(t) ==
  /\ declaring[t].step = "publish"
  /\ Len(faults) < MaxFaults
  /\ faults' = IF safety = "NORMAL" THEN faults ELSE Append(faults, declaring[t].level)
  /\ declaring' = [declaring EXCEPT ![t] = Idle]
  /\ UNCHANGED <<robot, safety, lastReason, polled, recover, reserved, goal>>

\* After _cleanup_stop_motion, which takes time, may fail, and never raises.
PublishFault(t) ==
  /\ declaring[t].step = "publish"
  /\ Len(faults) < MaxFaults
  /\ faults' = Append(faults, declaring[t].level)
  /\ declaring' = [declaring EXCEPT ![t] = Idle]
  /\ UNCHANGED <<robot, safety, lastReason, polled, recover, reserved, goal>>

(***************************************************************************)
(* Who declares: the poll timer, the DRFL thread, a running goal.          *)
(***************************************************************************)
\* check_fault
FaultOf(state) ==
  CASE state = "EMERGENCY_STOP" -> {"EMERGENCY_STOP"}
    [] state \in SafeStops -> {"PROTECTIVE_STOP"}
    [] OTHER -> {}

\* The state is read by a service call; when that fails the poll is skipped.
PollReads(p) ==
  /\ polled[p] = None /\ Free(p)
  /\ polled' = [polled EXCEPT ![p] = robot]
  /\ UNCHANGED <<robot, safety, lastReason, declaring, recover, reserved, goal, faults>>

\* A fault with the text of the last one is not declared again.
PollJudges(p) ==
  /\ polled[p] # None /\ Free(p)
  /\ polled' = [polled EXCEPT ![p] = None]
  /\ IF FaultOf(polled[p]) = {} \/ polled[p] = lastReason
     THEN UNCHANGED declaring
     ELSE \E level \in FaultOf(polled[p]) : Declare(p, level, polled[p])
  /\ UNCHANGED <<robot, safety, lastReason, recover, reserved, goal, faults>>

\* _on_drfl_force_triggered: a contact above the threshold.
DrflTriggers ==
  /\ Free(Drfl)
  /\ Declare(Drfl, "FAULT", "other")
  /\ UNCHANGED <<robot, safety, lastReason, polled, recover, reserved, goal, faults>>

\* A handler finds that the gripper, the arm or the compliance did not obey.
GoalFails(g) ==
  /\ goal[g] = "running" /\ Free(Handler)
  /\ Declare(Handler, "FAULT", "other")
  /\ UNCHANGED <<robot, safety, lastReason, polled, recover, reserved, goal, faults>>

(***************************************************************************)
(* Goals: _goal_callback runs in a mutually exclusive callback group, the  *)
(* handlers beside it.                                                     *)
(***************************************************************************)
\* A goal can also be refused because its kind is unknown or not ready on this hardware.
AdmitGoal(g) ==
  /\ goal[g] = "sent"
  /\ \A h \in Goals : goal[h] # "checked"
  /\ \E next \in {"refused", IF safety = "NORMAL" THEN "checked" ELSE "refused"} :
       goal' = [goal EXCEPT ![g] = next]
  /\ UNCHANGED <<robot, safety, lastReason, declaring, polled, recover, reserved, faults>>

\* Faulty variant, for the mutation runs: the safety state is all that is looked at.
ReserveGoalUnasked(g) ==
  /\ goal[g] = "checked"
  /\ goal' = [goal EXCEPT ![g] = "running"]
  /\ reserved' = TRUE
  /\ UNCHANGED <<robot, safety, lastReason, declaring, polled, recover, faults>>

\* Under _goal_lock; an accepted goal executes at once.
ReserveGoal(g) ==
  /\ goal[g] = "checked"
  /\ goal' = [goal EXCEPT ![g] = IF reserved THEN "refused" ELSE "running"]
  /\ reserved' = TRUE
  /\ UNCHANGED <<robot, safety, lastReason, declaring, polled, recover, faults>>

\* Faulty variant, for the mutation runs: the result is sent before the reservation ends.
FinishGoalReserved(g) ==
  /\ goal[g] = "running" /\ Free(Handler)
  /\ goal' = [goal EXCEPT ![g] = "done"]
  /\ UNCHANGED <<robot, safety, lastReason, declaring, polled, recover, reserved, faults>>

\* The handler returns; the reservation ends before the result is sent.
FinishGoal(g) ==
  /\ goal[g] = "running" /\ Free(Handler)
  /\ goal' = [goal EXCEPT ![g] = "done"]
  /\ reserved' = FALSE
  /\ UNCHANGED <<robot, safety, lastReason, declaring, polled, recover, faults>>

(***************************************************************************)
(* /robot/recover.                                                         *)
(***************************************************************************)
RecoverMoves(r, from, to) ==
  /\ recover[r] = from
  /\ recover' = [recover EXCEPT ![r] = to]

RecoverBegins(r) ==
  /\ RecoverMoves(r, "asked", IF safety = "NORMAL" THEN "yes" ELSE "read")
  /\ UNCHANGED <<robot, safety, lastReason, declaring, polled, reserved, goal, faults>>

\* In STANDBY the external torque has to be low, too.  A failed read recovers nothing.
RecoverReads(r) ==
  /\ \E next \in {"no", CASE robot = "STANDBY" -> "grant"
                          [] robot \in SafeStops -> "control"
                          [] OTHER -> "no"} : RecoverMoves(r, "read", next)
  /\ UNCHANGED <<robot, safety, lastReason, declaring, polled, reserved, goal, faults>>

\* set_robot_control, and a second look at the robot: only STANDBY will do.
RecoverControls(r) ==
  /\ robot' \in {robot, "STANDBY", "RECOVERY"} \cap RobotStates
  /\ \E next \in {"no", IF robot' = "STANDBY" THEN "grant" ELSE "no"} :
       RecoverMoves(r, "control", next)
  /\ UNCHANGED <<safety, lastReason, declaring, polled, reserved, goal, faults>>

RecoverGrants(r) ==
  /\ RecoverMoves(r, "grant", "yes")
  /\ safety' = "NORMAL"
  /\ UNCHANGED <<robot, lastReason, declaring, polled, reserved, goal, faults>>

\* The controller and the person at its buttons.
RobotChanges ==
  /\ robot' \in RobotStates \ {robot}
  /\ UNCHANGED <<safety, lastReason, declaring, polled, recover, reserved, goal, faults>>

\* Everything robot_control does by itself.
DeclareStep(t) == AssignFault(t) \/ PublishFault(t)
GoalSteps(g) ==
  AdmitGoal(g) \/ ReserveGoal(g) \/ GoalFails(g) \/ FinishGoal(g)
RecoverSteps(r) ==
  RecoverBegins(r) \/ RecoverReads(r) \/ RecoverControls(r) \/ RecoverGrants(r)

RobotNext ==
  \/ \E t \in Thread : DeclareStep(t)
  \/ \E p \in Pollers : PollReads(p) \/ PollJudges(p)
  \/ DrflTriggers
  \/ \E g \in Goals : GoalSteps(g)
  \/ \E r \in Recoverers : RecoverSteps(r)
  \/ RobotChanges

=============================================================================

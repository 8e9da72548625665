------------------------------ MODULE OpenGoals ------------------------------
(***************************************************************************)
(* The goals of TaskExecutor that open the gripper: move_named and         *)
(* release_and_retry, which then move to a fixed pose, and handover_hold,  *)
(* which waits for a pull with the arm compliant; and the DrflForceMonitor,*)
(* which handover_hold suspends.  Hardware is enabled.                     *)
(***************************************************************************)
EXTENDS Naturals

CONSTANTS
  PullSamples,   \* handover_hold.pull_confirm_samples
  ResetBelow     \* direct_reset_below_count

ASSUME SamplesAssumption == PullSamples \in Nat \ {0} /\ ResetBelow \in Nat \ {0}

Status == {"SUCCESS", "CANCELED", "FAULT", "COMMUNICATION_ERROR"}

VARIABLES
  goal,       \* "home" (or watch), "pose" (any other name), "release", "hold"
  at,         \* where its thread is
  outcome,    \* what it will answer
  quiet,      \* history: nothing has left the goal without its stops or its cleanup
  cancel, normal, gripper, call,   \* see GripperCommand
  declaring,  \* another thread is in declare_fault, before its MoveStop
  arm,        \* "still" or "moving"
  compliance, \* the controller's compliance mode is on
  owed,       \* compliance_on
  sample,     \* latest_robot_state: not counted yet, still fresh, a pull
  count,      \* wait_for_pull's count
  pulls,      \* history: pull samples taken since the hold waits, up to PullSamples
  suspended,  \* DrflForceMonitor._suspended
  triggered,  \* ._triggered
  below,      \* ._below_count
  contact     \* environment: some joint torque is above its threshold

goalVars == <<goal, at, outcome>>
safetyVars == <<cancel, normal, declaring>>
gripperVars == <<gripper, call>>
motionVars == <<arm, quiet>>
holdVars == <<compliance, owed, count>>
sampleVars == <<sample, pulls>>
monitorVars == <<suspended, triggered, below, contact>>
vars == <<goalVars, safetyVars, gripperVars, motionVars, holdVars, sampleVars, monitorVars>>

Open == INSTANCE GripperCommand

Places == {"idle", "open", "opening", "move", "moving", "moved",
           "enable", "suspend", "waiting", "pulled", "cleanup", "over"}

TypeOK ==
  /\ goal \in {"home", "pose", "release", "hold"} /\ at \in Places
  /\ outcome \in {"ABORT", "CANCELED", "ARRIVED", "FAULT"}
  /\ Open!CommandTypeOK /\ declaring \in BOOLEAN
  /\ arm \in {"still", "moving"} /\ quiet \in BOOLEAN
  /\ compliance \in BOOLEAN /\ owed \in BOOLEAN
  /\ sample \in [new : BOOLEAN, fresh : BOOLEAN, pull : BOOLEAN]
  /\ count \in 0..PullSamples /\ pulls \in 0..PullSamples
  /\ suspended \in BOOLEAN /\ triggered \in BOOLEAN /\ contact \in BOOLEAN
  /\ below \in 0..ResetBelow-1

NoSample == [new |-> FALSE, fresh |-> FALSE, pull |-> FALSE]

Init ==
  /\ goal = "home" /\ at = "idle" /\ outcome = "ABORT"
  /\ Open!CommandInit /\ declaring = FALSE
  /\ arm = "still" /\ quiet = TRUE
  /\ compliance = FALSE /\ owed = FALSE /\ count = 0
  /\ sample = NoSample /\ pulls = 0
  /\ suspended = FALSE /\ triggered = FALSE /\ below = 0 /\ contact = FALSE

(***************************************************************************)
(* Pieces of the steps.                                                    *)
(***************************************************************************)
\* A hold passes through its finally clause, the other goals just end.
End == IF goal = "hold" THEN "cleanup" ELSE "over"

Goto(place) == at' = place /\ UNCHANGED <<goal, outcome>>
Answer(answer) == at' = End /\ outcome' = answer /\ UNCHANGED goal

\* _cleanup_stop_motion and _cleanup_disable_compliance; the history knows if one failed.
MoveStop(ok) == arm' = IF ok THEN "still" ELSE arm
Release(ok) == compliance' = (compliance /\ ~ok)
Noting(ok) == quiet' = (quiet /\ ok)

DeclareFault ==
  /\ normal' = FALSE /\ UNCHANGED <<cancel, declaring>>
  /\ \E ok \in BOOLEAN : MoveStop(ok) /\ Noting(ok)

Calm == UNCHANGED <<safetyVars, motionVars>>

(***************************************************************************)
(* The three goals until the gripper opens.                                *)
(***************************************************************************)
StartGoal(g) ==
  /\ at \in {"idle", "over"} /\ normal
  /\ goal' = g /\ outcome' = "ABORT" /\ cancel' = FALSE
  /\ quiet' = (arm = "still" /\ ~compliance)
  /\ at' = CASE g = "hold" -> "enable" [] g = "pose" -> "move" [] OTHER -> "open"
  /\ UNCHANGED <<normal, declaring, gripperVars, arm, holdVars, sampleVars, monitorVars>>

\* "open" for a move: look, skip what is open already, else call RG2Client.open.
OpensBeforeMove ==
  /\ at = "open"
  /\ \/ cancel /\ Answer("CANCELED") /\ UNCHANGED <<safetyVars, gripperVars>>
     \/ ~cancel /\ ~normal /\ Answer("ABORT") /\ UNCHANGED <<safetyVars, gripperVars>>
     \/ ~cancel /\ normal /\ goal = "home" /\ Goto("move") /\ UNCHANGED <<safetyVars, gripperVars>>
     \/ ~cancel /\ normal /\ Open!Begin /\ Goto("opening") /\ UNCHANGED declaring
  /\ UNCHANGED <<motionVars, holdVars, sampleVars, monitorVars>>

OpenEnds ==
  /\ at = "opening" /\ call # "running"
  /\ CASE call = "SUCCESS" -> (IF goal = "hold" THEN Answer("ARRIVED") ELSE Goto("move")) /\ Calm
       [] call = "CANCELED" ->
            /\ Answer("CANCELED") /\ UNCHANGED safetyVars
            /\ IF goal = "hold" THEN \E ok \in BOOLEAN : MoveStop(ok) /\ Noting(ok)
                                ELSE UNCHANGED motionVars
       [] OTHER -> DeclareFault /\ Answer("FAULT")
  /\ UNCHANGED <<gripperVars, holdVars, sampleVars, monitorVars>>

(***************************************************************************)
(* _call_move_service and _call_move_with_cancel                           *)
(***************************************************************************)
\* The state is not looked at again before the request is sent.
SendsMove ==
  /\ at = "move"
  /\ \/ arm' = "moving" /\ Goto("moving")
     \/ UNCHANGED arm /\ Goto("moved")          \* no such pose, no service
  /\ UNCHANGED <<safetyVars, gripperVars, quiet, holdVars, sampleVars, monitorVars>>

\* Faulty variant, for the mutation runs: the move is given up without a stop.
AbandonsMove ==
  /\ at = "moving" /\ (cancel \/ ~normal)
  /\ Goto("moved") /\ Calm
  /\ UNCHANGED <<gripperVars, holdVars, sampleVars, monitorVars>>

\* Canceled, unsafe, or out of time: stop, whatever that answers.
BreaksMove ==
  /\ at = "moving"
  /\ Goto("moved")
  /\ \E ok \in BOOLEAN : MoveStop(ok) /\ Noting(ok)
  /\ UNCHANGED <<safetyVars, gripperVars, holdVars, sampleVars, monitorVars>>

\* The service answers: the robot has stopped, where it should or elsewhere.
MoveAnswered ==
  /\ at = "moving"
  /\ arm' = "still"
  /\ (normal /\ Answer("ARRIVED")) \/ Goto("moved")
  /\ UNCHANGED <<safetyVars, gripperVars, quiet, holdVars, sampleVars, monitorVars>>

MoveFailed ==
  /\ at = "moved"
  /\ Answer(IF cancel THEN "CANCELED" ELSE "ABORT")
  /\ Calm /\ UNCHANGED <<gripperVars, holdVars, sampleVars, monitorVars>>

\* An exception, or rclpy going down, while the robot moves: nothing stops it.
MoveRaises ==
  /\ at = "moving"
  /\ Answer("ABORT") /\ quiet' = FALSE
  /\ UNCHANGED <<arm, safetyVars, gripperVars, holdVars, sampleVars, monitorVars>>

(***************************************************************************)
(* _execute_handover_hold                                                  *)
(***************************************************************************)
\* A request that times out may still take effect, and nobody takes it back.
EnablesCompliance ==
  /\ at = "enable"
  /\ \/ compliance' = TRUE /\ owed' = TRUE /\ Goto("suspend") /\ UNCHANGED motionVars
     \/ /\ compliance' \in {compliance, TRUE} /\ UNCHANGED owed
        /\ Answer(IF cancel THEN "CANCELED" ELSE "ABORT")
        /\ \E ok \in BOOLEAN : MoveStop(ok)
        /\ quiet' = FALSE
  /\ UNCHANGED <<safetyVars, gripperVars, count, sampleVars, monitorVars>>

\* The wait begins: samples received before do not count.
SuspendsMonitor ==
  /\ at = "suspend"
  /\ Goto("waiting") /\ suspended' = TRUE
  /\ count' = 0 /\ pulls' = 0 /\ sample' = NoSample
  /\ Calm /\ UNCHANGED <<gripperVars, compliance, owed, triggered, below, contact>>

\* Faulty variant, for the mutation runs: a sample counts on every poll.
CountsAnySample ==
  /\ at = "waiting" /\ ~cancel /\ normal
  /\ count' = IF sample.fresh /\ sample.pull THEN count + 1 ELSE 0
  /\ Goto(IF count' = PullSamples THEN "pulled" ELSE "waiting")
  /\ Calm /\ UNCHANGED <<gripperVars, compliance, owed, sampleVars, monitorVars>>

\* wait_for_pull looks at the latest sample.
CountsSample ==
  /\ at = "waiting" /\ ~cancel /\ normal
  /\ sample.fresh => sample.new
  /\ count' = IF sample.fresh /\ sample.pull THEN count + 1 ELSE 0
  /\ sample' = [sample EXCEPT !.new = FALSE]
  /\ Goto(IF count' = PullSamples THEN "pulled" ELSE "waiting")
  /\ Calm /\ UNCHANGED <<gripperVars, compliance, owed, pulls, monitorVars>>

\* Faulty variant, for the mutation runs: the wait does not look for a cancellation.
WaitDeaf ==
  /\ at = "waiting" /\ ~normal
  /\ Answer("ABORT") /\ Calm
  /\ UNCHANGED <<gripperVars, holdVars, sampleVars, monitorVars>>

WaitInterrupted ==
  /\ at = "waiting"
  /\ \/ /\ cancel /\ owed' = FALSE
        /\ \E stopped, released \in BOOLEAN :
             /\ MoveStop(stopped) /\ Release(released)
             /\ IF stopped /\ released
                  THEN Answer("CANCELED") /\ UNCHANGED <<normal, quiet>>
                  ELSE Answer("FAULT") /\ normal' = FALSE /\ quiet' = FALSE
     \/ /\ ~cancel /\ Answer("ABORT")           \* not NORMAL, or rclpy goes down
        /\ UNCHANGED <<normal, motionVars, compliance, owed>>
     \/ /\ Answer(IF cancel THEN "CANCELED" ELSE "ABORT")   \* an exception
        /\ \E ok \in BOOLEAN : MoveStop(ok) /\ Noting(ok)
        /\ UNCHANGED <<normal, compliance, owed>>
  /\ UNCHANGED <<cancel, declaring, gripperVars, count, sampleVars, monitorVars>>

\* After the pull: compliance off first, one more look, then the gripper opens.
Pulled ==
  /\ at = "pulled" /\ owed' = FALSE
  /\ \/ /\ Release(FALSE) /\ quiet' = FALSE
        /\ normal' = FALSE /\ (\E ok \in BOOLEAN : MoveStop(ok)) /\ UNCHANGED <<cancel, declaring>>
        /\ Answer("FAULT") /\ UNCHANGED gripperVars
     \/ /\ Release(TRUE)
        /\ \/ /\ cancel /\ Answer("CANCELED") /\ UNCHANGED <<safetyVars, gripperVars>>
              /\ \E ok \in BOOLEAN : MoveStop(ok) /\ Noting(ok)
           \/ ~cancel /\ ~normal /\ Answer("ABORT") /\ Calm /\ UNCHANGED gripperVars
           \/ ~cancel /\ normal /\ Open!Begin /\ Goto("opening") /\ UNCHANGED <<declaring, motionVars>>
  /\ UNCHANGED <<count, sampleVars, monitorVars>>

\* finally: resume, and release what is still owed, whatever that answers.
CleansUp ==
  /\ at = "cleanup"
  /\ at' = "over" /\ suspended' = FALSE
  /\ IF owed THEN \E ok \in BOOLEAN : Release(ok) /\ Noting(ok) ELSE UNCHANGED <<compliance, quiet>>
  /\ owed' = FALSE /\ count' = 0 /\ sample' = NoSample /\ pulls' = 0
  /\ UNCHANGED <<goal, outcome, safetyVars, gripperVars, arm>>
  /\ UNCHANGED <<triggered, below, contact>>

GoalStep ==
  \/ OpensBeforeMove \/ OpenEnds \/ SendsMove \/ MoveAnswered \/ BreaksMove \/ MoveFailed
  \/ MoveRaises \/ EnablesCompliance \/ SuspendsMonitor \/ CountsSample \/ WaitInterrupted
  \/ Pulled \/ CleansUp

(***************************************************************************)
(* The other threads.                                                      *)
(***************************************************************************)
OpenStep ==
  /\ Open!Drive \/ Open!Settle \/ Open!End
  /\ UNCHANGED <<goalVars, declaring, motionVars, holdVars, sampleVars, monitorVars>>

\* The state poll stores a sample; samples are compared by their number only.
SampleTaken ==
  /\ at = "waiting"
  /\ \E pull \in BOOLEAN :
       /\ sample' = [new |-> TRUE, fresh |-> TRUE, pull |-> pull]
       /\ pulls' = IF pull /\ pulls < PullSamples THEN pulls + 1 ELSE pulls
  /\ UNCHANGED <<goalVars, safetyVars, gripperVars, motionVars, holdVars, monitorVars>>

SampleAges ==
  /\ at = "waiting" /\ sample.fresh /\ sample' = [sample EXCEPT !.fresh = FALSE]
  /\ UNCHANGED <<goalVars, safetyVars, gripperVars, motionVars, holdVars, pulls, monitorVars>>

\* Faulty variant, for the mutation runs: the monitor never arms again.
MonitorReadsOnce ==
  /\ triggered' = (triggered \/ contact)
  /\ IF contact /\ ~triggered /\ ~suspended
       THEN normal' = FALSE /\ declaring' = TRUE ELSE UNCHANGED <<normal, declaring>>
  /\ UNCHANGED <<goalVars, cancel, gripperVars, motionVars, holdVars, sampleVars, suspended, below, contact>>

\* process_sample: an edge, with hysteresis; suspended, the edge passes unreported.
MonitorReads ==
  /\ ~declaring
  /\ CASE contact -> triggered' = TRUE /\ below' = 0
       [] ~contact /\ triggered ->
            /\ below' = (below + 1) % ResetBelow
            /\ triggered' = (below' # 0)
       [] OTHER -> UNCHANGED <<triggered, below>>
  /\ IF contact /\ ~triggered /\ ~suspended
       THEN normal' = FALSE /\ declaring' = TRUE ELSE UNCHANGED <<normal, declaring>>
  /\ UNCHANGED <<goalVars, cancel, gripperVars, motionVars, holdVars, sampleVars, suspended, contact>>

FaultStops ==
  /\ declaring /\ declaring' = FALSE
  /\ \E ok \in BOOLEAN : MoveStop(ok) /\ Noting(ok)
  /\ UNCHANGED <<goalVars, cancel, normal, gripperVars, holdVars, sampleVars, monitorVars>>

ContactChanges ==
  /\ contact' = ~contact
  /\ UNCHANGED <<goalVars, safetyVars, gripperVars, motionVars, holdVars, sampleVars>>
  /\ UNCHANGED <<suspended, triggered, below>>

CancelRequested ==
  /\ at \notin {"idle", "over"} /\ ~cancel
  /\ cancel' = TRUE
  /\ UNCHANGED <<goalVars, normal, declaring, gripperVars, motionVars, holdVars, sampleVars, monitorVars>>

\* task_manager asks for a recovery when no goal executes; it needs the contact gone.
Recovered ==
  /\ at \in {"idle", "over"} /\ ~normal /\ ~declaring /\ ~contact
  /\ normal' = TRUE
  /\ UNCHANGED <<goalVars, cancel, declaring, gripperVars, motionVars, holdVars, sampleVars, monitorVars>>

Next ==
  \/ \E g \in {"home", "pose", "release", "hold"} : StartGoal(g)
  \/ GoalStep \/ OpenStep \/ SampleTaken \/ SampleAges
  \/ MonitorReads \/ FaultStops \/ ContactChanges \/ CancelRequested \/ Recovered

(***************************************************************************)
(* The monitor keeps polling, the goal's thread runs on, a move ends or    *)
(* runs into its timeout, and an open call ends (RG2Client!CallEnds).      *)
(***************************************************************************)
Fairness ==
  /\ WF_vars(GoalStep) /\ WF_vars(MonitorReads) /\ WF_vars(FaultStops)
  /\ SF_vars(OpenStep /\ call' # "running")

Spec == Init /\ [][Next]_vars /\ Fairness

-----------------------------------------------------------------------------
(***************************************************************************)
(* When a goal is over, nothing moves and the arm is stiff: the move was   *)
(* stopped, compliance released, if every stop and release that was asked  *)
(* for answered and enabling compliance or the move did not raise.  And    *)
(* the force monitor, suspended for a hold, watches again.                 *)
(***************************************************************************)
GoalLeavesArmSafe ==
  /\ at = "over" /\ quiet => arm = "still" /\ ~compliance
  /\ at \in {"idle", "over", "moving"} => ~suspended

(***************************************************************************)
(* The gripper opens when it may, and has opened when it had to.  A hold   *)
(* lets the tool go only after as many pull samples as required, each      *)
(* taken while it was waiting, and not while the arm is compliant; no move *)
(* of a release, and no handed-over tool, after an opening that failed.    *)
(***************************************************************************)
OpensAsPromised ==
  /\ goal = "hold" /\ call = "running" => pulls = PullSamples /\ ~compliance
  /\ at \in {"move", "moving"} /\ goal = "release" => call = "SUCCESS"
  /\ at \in {"cleanup", "over"} /\ goal = "hold" /\ outcome = "ARRIVED" => call = "SUCCESS"

(***************************************************************************)
(* A contact outside of a hold is reported, unless it ends: also when the  *)
(* contact before it was swallowed, once that has been gone long enough,   *)
(* for the hysteresis ends with the contact.                               *)
(***************************************************************************)
ContactReported ==
  /\ contact /\ ~triggered ~> ~contact \/ ~normal \/ suspended
  /\ []<>(contact \/ ~triggered)

(***************************************************************************)
(* A canceled goal ends, in whatever wait the cancellation finds it.       *)
(***************************************************************************)
CancelEndsGoal == cancel ~> at \in {"idle", "over"}

=============================================================================

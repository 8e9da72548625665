----------------------------- MODULE VisualServo -----------------------------
(***************************************************************************)
(* vision_node and the servo loops of robot_control together.  A goal      *)
(* subscribes when it starts and gets what is published from then on; a    *)
(* track may be late, or dropped (wrong frame, or no number).              *)
(*                                                                         *)
(* What an approach does follows from the tracks of the hand.  Of the      *)
(* track of a tool the decisions of a pick see only that it came, and      *)
(* whether it has a yaw, which any frame may give: so while a pick runs    *)
(* its tracks are free and vision_node's memory stands still, and a goal   *)
(* starts from one state of a memory that it does not read.                *)
(***************************************************************************)
EXTENDS VisionNode, ServoLoops

vars == <<visionVars, servoVars>>

Init == VisionInit /\ ServoInit

Running == at \in {"tick", "step"}

\* task_manager starts a mode when no goal executes, and may switch it off at any time.
SetsMode ==
  /\ at # "over"
  /\ \/ SetMode("OFF", NoTool)
     \/ ~Running /\ SetMode("TRACK_HAND", NoTool)
     \/ ~Running /\ \E t \in Tool : SetMode("TRACK_TOOL", t)
  /\ UNCHANGED servoVars

StartsPick ==
  /\ mode = "TRACK_TOOL" /\ tracker = NoMemory /\ hand = NoHand /\ wire = NoTrack
  /\ Start("pick") /\ UNCHANGED visionVars

StartsApproach ==
  /\ mode = "TRACK_HAND" /\ tracker = NoMemory
  /\ Start("approach") /\ wire' = NoTrack
  /\ UNCHANGED <<mode, tool, tracker, hand, fists, shown>>

Delivered ==
  /\ Running
  /\ \/ /\ goal = "pick" /\ UNCHANGED visionVars
        /\ \E yaw \in BOOLEAN : OnToolTrack(yaw)
     \/ /\ goal = "approach" /\ wire # NoTrack /\ wire' = NoTrack
        /\ OnHandTrack(wire) /\ UNCHANGED <<mode, tool, tracker, hand, fists, shown>>

Dropped ==
  /\ wire # NoTrack /\ wire' = NoTrack
  /\ UNCHANGED <<mode, tool, tracker, hand, fists, shown, servoVars>>

VisionSees == VisionStep /\ ~(Running /\ goal = "pick") /\ at # "over" /\ UNCHANGED servoVars

TimesOut == Elapse(FALSE, FALSE, TRUE) /\ UNCHANGED visionVars

Next ==
  \/ SetsMode \/ StartsPick \/ StartsApproach \/ Delivered \/ Dropped \/ VisionSees
  \/ (LoopStep \/ Closes \/ Leaves \/ GoalGone) /\ UNCHANGED visionVars
  \/ \E quiet, handless \in BOOLEAN : Elapse(quiet, handless, FALSE) /\ UNCHANGED visionVars
  \/ TimesOut

(***************************************************************************)
(* The loop turns, its timeout comes, and a close ends (RG2Client!CallEnds)*)
(***************************************************************************)
Fairness ==
  /\ WF_vars(LoopStep /\ UNCHANGED visionVars)
  /\ WF_vars(TimesOut /\ late' # late) /\ WF_vars(Closes /\ UNCHANGED visionVars)

Spec == Init /\ [][Next]_vars /\ Fairness

-----------------------------------------------------------------------------
TypeOK == VisionTypeOK /\ ServoTypeOK

(***************************************************************************)
(* The z of a track is a mean of heights of the tool it is sent for: what *)
(* a tracker remembers never outlives the mode it was measured in.  Once a *)
(* height was measured at the grasp point, none that was measured at an    *)
(* end or at the box is mixed in any more, whatever detection and depth    *)
(* the frames have; and a z that is called valid has one of the grasp      *)
(* point in it.  (Heights of the box mixed in before stay in the mean.)    *)
(***************************************************************************)
HeightOfTheGrasp ==
  "tool" \in DOMAIN wire =>
    /\ \A m \in wire.z : m.height.of = wire.tool /\ (m.known => m.height.by = "mid")
    /\ wire.depthValid => \E m \in wire.z : m.height.by = "mid"

(***************************************************************************)
(* An approach stops only for a fist that was confirmed in this handover:  *)
(* enough frames saw one since TRACK_HAND was set.                         *)
(***************************************************************************)
FistOfThisHandover ==
  [][ending # "fist" /\ ending' = "fist" => shown = FistFrames]_vars

(***************************************************************************)
(* Having passed the height test NStableZ steps in a row, a pick does not *)
(* descend again, whatever heights come later, also while it closes.       *)
(***************************************************************************)
NoDescentOnceReached == reached => ~sinking

(***************************************************************************)
(* The gripper starts to close only when every test has been passed in as  *)
(* many of the last steps as that test needs, of this goal, without a gap  *)
(* (the yaw test only when there is a yaw to turn to), while the tool is   *)
(* not lost and the time not over.                                         *)
(***************************************************************************)
ClosesOnlySteady ==
  [][closing = "no" /\ closing' = "yes" =>
       /\ \A t \in Test : InARow(recent, t) \/ (t = "yaw" /\ ~aim)
       /\ ~Lost /\ ~late]_vars

(***************************************************************************)
(* Either loop ends, also when no track ever comes in.                     *)
(***************************************************************************)
LoopEnds == Running ~> ~Running

(***************************************************************************)
(* Where the depth at the grasp point is not valid any more, the z of a    *)
(* track is the one last measured there (test_tracking.py: in any mode but *)
(* mid, z has to be "frozen at the last mid z").                           *)
(***************************************************************************)
FrozenAtMid ==
  "tool" \in DOMAIN wire /\ ~wire.depthValid /\ tracker.midZ = wire.tool =>
    \A m \in wire.z : m.height.by = "mid"

(***************************************************************************)
(* A hand that was seen and is lost for t_lost_s ends the approach         *)
(* (the task plan: "hand lost (t_lost_s exceeded) or timeout: ABORT").     *)
(***************************************************************************)
LostHandAborts ==
  [][goal = "approach" /\ at = "tick" /\ sight = "gone" => at' # "step"]_vars

=============================================================================

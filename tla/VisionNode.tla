----------------------------- MODULE VisionNode -----------------------------
(***************************************************************************)
(* vision_node: the mode task_manager sets, ToolTracker's memory, the hand *)
(* detection cached from the container, and the track that a synchronized  *)
(* frame publishes.  The node has a single-threaded executor: a callback   *)
(* is one step.  Coordinates are not kept; of a height the model knows     *)
(* which tool it was measured on, and whether at the grasp point ("mid").  *)
(* The z of a track is a mean over all heights that went into the alpha    *)
(* filter since its reset: the set of them stands for it, no weights.      *)
(***************************************************************************)
EXTENDS Naturals

CONSTANTS
  Tool,         \* tool classes
  NoTool,
  FistFrames    \* vision.fist_confirm_frames

ASSUME VisionAssumption == NoTool \notin Tool /\ FistFrames \in Nat \ {0}

VARIABLES
  mode, tool,   \* set by the last /vision/set_mode
  tracker,      \* ToolTracker: last_valid_z, last_mid_z, kpt_offset known, and what its
                \* position[2] is a mean of (none: no position yet)
  hand,         \* _hand_detection, and whether it is still young enough
  fists,        \* _fist_counter, counted up to FistFrames
  shown,        \* history: frames that saw a fist since TRACK_HAND was set, up to FistFrames
  wire          \* the track on its way to robot_control

visionVars == <<mode, tool, tracker, hand, fists, shown, wire>>

Mode == {"OFF", "TRACK_TOOL", "TRACK_HAND"}
Height == [of : Tool, by : {"mid", "other"}]
NoHeight == [of |-> NoTool, by |-> "other"]
\* Whether a height at the grasp point was known when this one went in is a history.
Mixed == [height : Height, known : BOOLEAN]
NoMemory == [validZ |-> NoHeight, midZ |-> NoTool, offset |-> FALSE, position |-> {}]
NoHand == [detected |-> FALSE, fist |-> FALSE, fresh |-> FALSE]
ToolTrack == [tool : Tool, z : SUBSET Mixed, depthValid : BOOLEAN, yawValid : BOOLEAN]
HandTrack == [detected : BOOLEAN, fist : BOOLEAN]
NoTrack == [none |-> TRUE]

VisionTypeOK ==
  /\ mode \in Mode /\ tool \in Tool \cup {NoTool}
  /\ tracker \in [validZ : Height \cup {NoHeight}, midZ : Tool \cup {NoTool}, offset : BOOLEAN,
                  position : SUBSET Mixed]
  /\ hand \in [detected : BOOLEAN, fist : BOOLEAN, fresh : BOOLEAN]
  /\ fists \in 0..FistFrames /\ shown \in 0..FistFrames
  /\ wire \in ToolTrack \cup HandTrack \cup {NoTrack}

VisionInit ==
  /\ mode = "OFF" /\ tool = NoTool
  /\ tracker = NoMemory /\ hand = NoHand
  /\ fists = 0 /\ shown = 0
  /\ wire = NoTrack

\* Faulty variant, for the mutation runs: the fists of the last handover are kept.
SetModeFists(m, t) ==
  /\ mode' = m /\ tool' = t
  /\ tracker' = IF m = "TRACK_TOOL" THEN NoMemory ELSE tracker
  /\ IF m = "TRACK_HAND" THEN shown' = 0 /\ hand' = NoHand ELSE UNCHANGED <<shown, hand>>
  /\ UNCHANGED <<fists, wire>>

\* _on_set_mode: each mode forgets what the last time it was on has left behind.
SetMode(m, t) ==
  /\ mode' = m /\ tool' = t
  /\ tracker' = IF m = "TRACK_TOOL" THEN NoMemory ELSE tracker
  /\ IF m = "TRACK_HAND" THEN fists' = 0 /\ shown' = 0 /\ hand' = NoHand
                         ELSE UNCHANGED <<fists, shown, hand>>
  /\ UNCHANGED wire

\* _on_hand_track_docker: cached in every mode; a late result counts from its arrival.
HandDetected(detected, fist) ==
  /\ hand' = [detected |-> detected, fist |-> fist, fresh |-> TRUE]
  /\ UNCHANGED <<mode, tool, tracker, fists, shown, wire>>

HandAges ==
  /\ hand.fresh /\ hand' = [hand EXCEPT !.fresh = FALSE]
  /\ UNCHANGED <<mode, tool, tracker, fists, shown, wire>>

(***************************************************************************)
(* A frame: the anchor of the detection that is chosen ("mid" of both      *)
(* keypoints, one "end", or the "box"), the depth there ("valid", "thin":  *)
(* too few pixels, or a "hole"), whether the other end could be measured   *)
(* too, and whether a yaw was found.                                       *)
(***************************************************************************)
\* One end is of use only with the offset learned from a frame that showed both.
Anchor(seen) == IF seen = "end" /\ ~tracker.offset THEN "box" ELSE seen

Measured(seen) == [of |-> tool, by |-> IF Anchor(seen) = "mid" THEN "mid" ELSE "other"]

\* Faulty variant, for the mutation runs: the last valid height has the last word.
TrackedLastValid(seen, depth) ==
  IF seen = "mid" /\ depth = "valid" THEN Measured(seen)
  ELSE IF depth # "valid" /\ tracker.validZ # NoHeight THEN tracker.validZ
  ELSE Measured(seen)

\* ToolTracker.update: the height it feeds to its filter, unless measured at the grasp point right now.
Tracked(seen, depth) ==
  IF seen = "mid" /\ depth = "valid" THEN Measured(seen)
  ELSE IF tracker.midZ # NoTool THEN [of |-> tracker.midZ, by |-> "mid"]
  ELSE IF depth # "valid" /\ tracker.validZ # NoHeight THEN tracker.validZ
  ELSE Measured(seen)

\* _filter_update: the first height is taken as it is, the next ones pull the mean their way
\* (tracker_alpha and tracker_alpha_z_offset_mode are between 0 and 1).
Filtered(height, known) == tracker.position \cup {[height |-> height, known |-> known]}

\* _track_tool and ToolTracker.update
ToolFrame(seen, depth, otherEnd, yaw) ==
  LET atGrasp == seen = "mid" /\ depth = "valid"
  IN /\ mode = "TRACK_TOOL" /\ wire = NoTrack
     /\ depth = "hole" => tracker.validZ # NoHeight     \* no height: the detection is dropped
     /\ tracker' = [validZ |-> IF depth = "valid" THEN Measured(seen) ELSE tracker.validZ,
                    midZ |-> IF atGrasp THEN tool ELSE tracker.midZ,
                    offset |-> tracker.offset \/ (atGrasp /\ otherEnd),
                    position |-> Filtered(Tracked(seen, depth), atGrasp \/ tracker.midZ # NoTool)]
     /\ wire' = [tool |-> tool, z |-> tracker'.position,
                 depthValid |-> atGrasp, yawValid |-> yaw]
     /\ UNCHANGED <<mode, tool, hand, fists, shown>>

Sees == hand.fresh /\ hand.detected

\* _track_hand, which publishes in every case; "placed" if the palm has a depth.
HandFrame(placed) ==
  /\ mode = "TRACK_HAND" /\ wire = NoTrack
  /\ LET fist == Sees /\ hand.fist
         Up(n) == IF n < FistFrames THEN n + 1 ELSE n
     IN /\ fists' = IF fist THEN Up(fists) ELSE 0
        /\ shown' = IF fist THEN Up(shown) ELSE shown
        /\ wire' = [detected |-> Sees /\ placed, fist |-> fist /\ fists' = FistFrames]
  /\ UNCHANGED <<mode, tool, tracker, hand>>

\* _on_synced_images, in the modes that track
Frame ==
  \/ \E seen \in {"mid", "end", "box"}, depth \in {"valid", "thin", "hole"} :
       \E otherEnd, yaw \in BOOLEAN : ToolFrame(seen, depth, otherEnd, yaw)
  \/ \E placed \in BOOLEAN : HandFrame(placed)

VisionStep ==
  Frame \/ HandAges \/ \E detected, fist \in BOOLEAN : HandDetected(detected, fist)

=============================================================================

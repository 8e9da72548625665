------------------------- MODULE VisualServoProofs --------------------------
(***************************************************************************)
(* For any set of tools, any number of frames that confirm a fist and any  *)
(* numbers of steps that the tests of a pick need: the heights vision_node *)
(* publishes and the height lock of a pick are what the pick takes them    *)
(* for, a fist that ends an approach was shown in this handover, and the   *)
(* gripper only closes after as many passed steps as each test needs.      *)
(***************************************************************************)
EXTENDS VisualServo, TLAPS

\* What ToolTracker remembers while it tracks is of the tool it tracks.
Remembered ==
  mode = "TRACK_TOOL" =>
    /\ tool \in Tool
    /\ tracker.midZ \in {tool, NoTool}
    /\ tracker.validZ = NoHeight \/ tracker.validZ.of = tool
    /\ \A m \in tracker.position : m.height.of = tool /\ (m.known => m.height.by = "mid")

Seeing == VisionTypeOK /\ Remembered /\ HeightOfTheGrasp

\* A counter counts the last steps that passed its test, all of them up to what the test needs.
Counting ==
  \A t \in Test :
    /\ \A i \in 1..count[t] : t \in recent[i]
    /\ count[t] < Need[t] => t \notin recent[count[t] + 1]

\* The height lock is set with the first full count and holds the descent back.
Locked == (reached => zLocked) /\ (zLocked => ~sinking)

Servoing == ServoTypeOK /\ Counting /\ Locked

LEMMA Needs ==
  /\ \A t \in Test : Need[t] \in Nat \ {0}
  /\ \A t \in Test : \A i \in 1..Need[t] : i \in Back
  BY StableAssumption DEF Need, Test, Back

LEMMA FromNothing ==
  /\ NoneYet \in [Back -> SUBSET Test]
  /\ \A t \in Test : t \notin NoneYet[1]
<1>1. 1 \in Back
  BY Needs DEF Test
<1>. QED
  BY <1>1 DEF NoneYet

\* An approach is given tracks of the hand only.
Facing ==
  Running /\ goal = "approach" => mode # "TRACK_TOOL" /\ wire \in HandTrack \cup {NoTrack}

LEMMA SeeingInit == Init => Seeing /\ Servoing /\ Facing
<1> SUFFICES ASSUME Init PROVE Seeing /\ Servoing /\ Facing
  OBVIOUS
<1>1. VisionTypeOK
  BY VisionAssumption DEF Init, VisionInit, VisionTypeOK, Mode, NoMemory, NoHand, NoTrack
<1>2. Remembered /\ HeightOfTheGrasp
  BY DEF Init, VisionInit, Remembered, HeightOfTheGrasp, NoTrack
<1>3. ServoTypeOK
  <2>1. DOMAIN count = Test /\ (\A t \in Test : count[t] \in 0..Need[t])
    BY Needs DEF Init, ServoInit
  <2>2. recent \in [Back -> SUBSET Test]
    BY FromNothing DEF Init, ServoInit
  <2>. QED
    BY <2>1, <2>2 DEF Init, ServoInit, ServoTypeOK
<1>4. Locked /\ Counting
  BY FromNothing DEF Init, ServoInit, Locked, Counting
<1>5. Facing
  BY DEF Init, ServoInit, Facing, Running
<1>. QED
  BY <1>1, <1>2, <1>3, <1>4, <1>5 DEF Seeing, Servoing

(***************************************************************************)
(* vision_node.                                                            *)
(***************************************************************************)
LEMMA ModeSeeing ==
  ASSUME Seeing, NEW m \in Mode, NEW t \in Tool \cup {NoTool}, m = "TRACK_TOOL" => t \in Tool,
         SetMode(m, t)
  PROVE  Seeing'
<1> USE VisionAssumption DEF Seeing
<1>1. tracker' \in {tracker, NoMemory} /\ (m = "TRACK_TOOL" => tracker' = NoMemory)
  BY DEF SetMode
<1>2. VisionTypeOK'
  <2>1. tracker' \in [validZ : Height \cup {NoHeight}, midZ : Tool \cup {NoTool}, offset : BOOLEAN,
                          position : SUBSET Mixed]
    <3>1. NoMemory \in [validZ : Height \cup {NoHeight}, midZ : Tool \cup {NoTool}, offset : BOOLEAN,
                          position : SUBSET Mixed]
      BY DEF NoMemory
    <3>. QED
      BY <1>1, <3>1 DEF VisionTypeOK
  <2>2. fists' \in 0..FistFrames /\ shown' \in 0..FistFrames
    BY DEF SetMode, VisionTypeOK
  <2>3. hand' \in [detected : BOOLEAN, fist : BOOLEAN, fresh : BOOLEAN]
    <3>1. NoHand \in [detected : BOOLEAN, fist : BOOLEAN, fresh : BOOLEAN]
      BY DEF NoHand
    <3>2. hand' \in {hand, NoHand}
      BY DEF SetMode
    <3>. QED
      BY <3>1, <3>2 DEF VisionTypeOK
  <2>4. mode' \in Mode /\ tool' \in Tool \cup {NoTool} /\ wire' = wire
    BY DEF SetMode
  <2>. QED
    BY <2>1, <2>2, <2>3, <2>4 DEF VisionTypeOK
<1>3. Remembered'
  BY <1>1 DEF SetMode, Remembered, NoMemory
<1>4. HeightOfTheGrasp'
  BY <1>1 DEF SetMode, HeightOfTheGrasp, NoMemory, VisionTypeOK, ToolTrack, HandTrack, NoTrack
<1>. QED
  BY <1>2, <1>3, <1>4

LEMMA ToolFrameSeeing ==
  ASSUME Seeing, NEW seen \in {"mid", "end", "box"}, NEW depth \in {"valid", "thin", "hole"},
         NEW otherEnd \in BOOLEAN, NEW yaw \in BOOLEAN, ToolFrame(seen, depth, otherEnd, yaw)
  PROVE  Seeing'
<1> USE VisionAssumption DEF Seeing
<1> DEFINE M == Measured(seen)
           K == Tracked(seen, depth)
           atGrasp == seen = "mid" /\ depth = "valid"
           known == atGrasp \/ tracker.midZ # NoTool
           P == tracker.position \cup {[height |-> K, known |-> known]}
<1>1. /\ tool \in Tool /\ mode = "TRACK_TOOL" /\ wire = NoTrack
      /\ tracker.midZ \in {tool, NoTool}
      /\ tracker.validZ = NoHeight \/ (tracker.validZ \in Height /\ tracker.validZ.of = tool)
      /\ tracker.offset \in BOOLEAN /\ tracker.position \subseteq Mixed
      /\ \A m \in tracker.position : m.height.of = tool /\ (m.known => m.height.by = "mid")
  BY DEF ToolFrame, VisionTypeOK, Remembered
<1>2. M \in Height /\ M.of = tool
  BY <1>1 DEF Measured, Height
<1>3. seen = "mid" => M.by = "mid"
  BY DEF Measured, Anchor
<1>4. K \in Height /\ K.of = tool
  BY <1>1, <1>2 DEF Tracked, Height
<1>5. /\ known \in BOOLEAN /\ atGrasp \in BOOLEAN
      /\ known => K.by = "mid"
      /\ atGrasp => known
  BY <1>1, <1>3 DEF Tracked
<1>6. /\ tracker' = [validZ |-> IF depth = "valid" THEN M ELSE tracker.validZ,
                     midZ |-> IF atGrasp THEN tool ELSE tracker.midZ,
                     offset |-> tracker.offset \/ (atGrasp /\ otherEnd), position |-> P]
      /\ wire' = [tool |-> tool, z |-> P, depthValid |-> atGrasp, yawValid |-> yaw]
      /\ UNCHANGED <<mode, tool, hand, fists, shown>>
  BY DEF ToolFrame, Filtered
<1> HIDE DEF M, K, atGrasp, known
<1>7. /\ P \subseteq Mixed
      /\ \A m \in P : m.height.of = tool /\ (m.known => m.height.by = "mid")
      /\ atGrasp => \E m \in P : m.height.by = "mid"
  <2> DEFINE new == [height |-> K, known |-> known]
  <2>1. new \in Mixed /\ new.height.of = tool /\ (new.known => new.height.by = "mid")
    BY <1>4, <1>5 DEF Mixed
  <2>2. new \in P /\ (atGrasp => new.height.by = "mid")
    BY <1>5
  <2> HIDE DEF new
  <2>. QED
    BY <1>1, <2>1, <2>2 DEF new
<1> HIDE DEF P
<1>8. VisionTypeOK'
  <2>1. (tracker.offset \/ (atGrasp /\ otherEnd)) \in BOOLEAN
    OBVIOUS
  <2>2. tracker' \in [validZ : Height \cup {NoHeight}, midZ : Tool \cup {NoTool}, offset : BOOLEAN,
                     position : SUBSET Mixed]
    BY <1>1, <1>2, <1>6, <1>7, <2>1
  <2>3. wire' \in ToolTrack
    BY <1>1, <1>5, <1>6, <1>7 DEF ToolTrack
  <2>. QED
    BY <1>6, <2>2, <2>3 DEF VisionTypeOK
<1>9. Remembered'
  BY <1>1, <1>2, <1>6, <1>7 DEF Remembered
<1>10. HeightOfTheGrasp'
  <2>1. wire'.tool = tool /\ wire'.z = P /\ wire'.depthValid = atGrasp
    BY <1>6
  <2>. QED
    BY <1>7, <2>1 DEF HeightOfTheGrasp
<1>. QED
  BY <1>8, <1>9, <1>10

LEMMA HandSeeing ==
  ASSUME Seeing,
         HandAges \/ (\E detected, fist \in BOOLEAN : HandDetected(detected, fist))
           \/ (\E placed \in BOOLEAN : HandFrame(placed))
  PROVE  Seeing'
<1> USE VisionAssumption DEF Seeing
<1>1. CASE HandAges
  BY <1>1 DEF HandAges, VisionTypeOK, Remembered, HeightOfTheGrasp
<1>2. ASSUME NEW detected \in BOOLEAN, NEW fist \in BOOLEAN, HandDetected(detected, fist)
      PROVE Seeing'
  BY <1>2 DEF HandDetected, VisionTypeOK, Remembered, HeightOfTheGrasp
<1>3. ASSUME NEW placed \in BOOLEAN, HandFrame(placed) PROVE Seeing'
  <2>1. UNCHANGED <<mode, tool, tracker, hand>> /\ mode = "TRACK_HAND"
    BY <1>3 DEF HandFrame
  <2>2. fists' \in 0..FistFrames /\ shown' \in 0..FistFrames
    BY <1>3 DEF HandFrame, VisionTypeOK
  <2>3. \E d, f : wire' = [detected |-> d, fist |-> f] /\ d \in BOOLEAN /\ f \in BOOLEAN
    BY <1>3 DEF HandFrame, VisionTypeOK, Sees
  <2>4. wire' \in HandTrack /\ "tool" \notin DOMAIN wire'
    BY <2>3 DEF HandTrack
  <2>. QED
    BY <2>1, <2>2, <2>4 DEF VisionTypeOK, Remembered, HeightOfTheGrasp
<1>. QED
  BY <1>1, <1>2, <1>3

(***************************************************************************)
(* The servo loops.                                                        *)
(***************************************************************************)
\* What is known of the counters after the step of a pick.
LEMMA StepCounts ==
  ASSUME ServoTypeOK, Counting, NEW passed \in SUBSET Test, NEW near \in BOOLEAN,
         PickStep(passed, near)
  PROVE  /\ DOMAIN count' = Test /\ (\A t \in Test : count'[t] \in 0..Need[t])
         /\ recent' \in [Back -> SUBSET Test]
         /\ Counting'
<1>1. /\ count' = [t \in Test |-> IF t \in passed THEN Up(t) ELSE 0]
      /\ recent' = [i \in Back |-> LookingBack(i) \cap IF i = 1 THEN passed ELSE recent[i - 1]]
  BY DEF PickStep
<1>2. recent' \in [Back -> SUBSET Test]
  BY <1>1 DEF LookingBack
<1>3. ASSUME NEW t \in Test
      PROVE  /\ count'[t] \in 0..Need[t]
             /\ \A i \in 1..count'[t] : t \in recent'[i]
             /\ count'[t] < Need[t] => t \notin recent'[count'[t] + 1]
  <2>1. /\ Need[t] \in Nat /\ Need[t] > 0
        /\ count[t] \in Nat /\ count[t] <= Need[t]
        /\ \A i \in 1..count[t] : t \in recent[i]
        /\ count[t] < Need[t] => t \notin recent[count[t] + 1]
    BY Needs DEF ServoTypeOK, Counting
  <2>2. \A i \in 1..Need[t] : t \in recent'[i] <=> IF i = 1 THEN t \in passed ELSE t \in recent[i - 1]
    BY <1>1, Needs DEF LookingBack
  <2>3. count'[t] = IF t \in passed THEN (IF count[t] < Need[t] THEN count[t] + 1 ELSE count[t])
                                    ELSE 0
    BY <1>1 DEF Up
  <2>4. CASE t \notin passed
    BY <2>1, <2>2, <2>3, <2>4
  <2>5. CASE t \in passed /\ count[t] < Need[t]
    <3>1. count'[t] = count[t] + 1
      BY <2>3, <2>5
    <3>2. ASSUME NEW i \in 1..count'[t] PROVE t \in recent'[i]
      <4>1. i = 1 \/ i - 1 \in 1..count[t]
        BY <2>1, <3>1
      <4>2. i \in 1..Need[t]
        BY <2>1, <2>5, <3>1
      <4>. QED
        BY <2>1, <2>2, <2>5, <4>1, <4>2
    <3>3. count'[t] < Need[t] => t \notin recent'[count'[t] + 1]
      <4>1. SUFFICES ASSUME count'[t] < Need[t] PROVE t \notin recent'[count'[t] + 1]
        OBVIOUS
      <4>2. count'[t] + 1 \in 1..Need[t] /\ count'[t] + 1 # 1 /\ (count'[t] + 1) - 1 = count[t] + 1
        BY <2>1, <3>1, <4>1
      <4>. QED
        BY <2>1, <2>2, <2>5, <4>2
    <3>. QED
      BY <2>1, <2>5, <3>1, <3>2, <3>3
  <2>6. CASE t \in passed /\ ~(count[t] < Need[t])
    <3>1. count'[t] = Need[t] /\ count[t] = Need[t]
      BY <2>1, <2>3, <2>6
    <3>2. ASSUME NEW i \in 1..Need[t] PROVE t \in recent'[i]
      <4>1. i = 1 \/ i - 1 \in 1..count[t]
        BY <2>1, <3>1
      <4>. QED
        BY <2>1, <2>2, <2>6, <4>1
    <3>. QED
      BY <2>1, <3>1, <3>2
  <2>. QED
    BY <2>4, <2>5, <2>6
<1>. QED
  BY <1>1, <1>2, <1>3 DEF Counting

\* What no decision touches.
LEMMA TickServoing ==
  ASSUME Servoing, PickTick \/ HandTick \/ Leaves PROVE Servoing'
<1> USE DEF Servoing
<1>1. Keep /\ at' \in {"step", "over"}
      /\ ending' \in {ending, "closed", "fist", "timeout", "lost", "diverging", "left"}
      /\ closing' \in {closing, "yes"} /\ graspLocked' \in {graspLocked, TRUE}
  BY DEF PickTick, HandTick, Leaves, Goto, Ends, Keep
<1>2. ServoTypeOK'
  <2>1. /\ at' \in {"idle", "tick", "step", "over"} /\ closing' \in {"no", "yes", "done"}
        /\ ending' \in {"none", "closed", "fist", "timeout", "lost", "diverging", "left"}
    BY <1>1 DEF ServoTypeOK
  <2>2. graspLocked' \in BOOLEAN
    BY <1>1 DEF ServoTypeOK
  <2>. QED
    BY <1>1, <2>1, <2>2 DEF ServoTypeOK, Keep
<1>3. Locked' /\ Counting'
  BY <1>1 DEF Locked, Counting, Keep
<1>. QED
  BY <1>2, <1>3

LEMMA StepServoing ==
  ASSUME Servoing, NEW passed \in SUBSET Test, NEW near \in BOOLEAN, PickStep(passed, near)
  PROVE  Servoing'
<1> USE DEF Servoing
<1>1. reached' \in BOOLEAN /\ zLocked' \in BOOLEAN /\ sinking' \in BOOLEAN
  BY DEF PickStep
<1>2. ServoTypeOK'
  <2>1. /\ DOMAIN count' = Test /\ (\A t \in Test : count'[t] \in 0..Need[t])
        /\ recent' \in [Back -> SUBSET Test]
    BY StepCounts
  <2>2. /\ at' = "tick"
        /\ UNCHANGED <<goal, ending, silent, late, sight, tracked, aim, graspLocked, closing, lastHand>>
    BY DEF PickStep, Goto
  <2>. QED
    BY <1>1, <2>1, <2>2 DEF ServoTypeOK
<1>3. InARow(recent', "z") => count'["z"] = Need["z"]
  <2>1. /\ count'["z"] \in 0..Need["z"] /\ Need["z"] \in Nat
        /\ count'["z"] < Need["z"] => "z" \notin recent'[count'["z"] + 1]
    BY StepCounts, Needs DEF Counting, Test
  <2>. QED
    BY <2>1 DEF InARow
<1>4. Locked'
  BY <1>3 DEF PickStep, Locked
<1>. QED
  BY <1>2, <1>4, StepCounts

LEMMA OtherServoing ==
  ASSUME Servoing,
         \/ StepSkipped \/ Closes \/ GoalGone
         \/ \E quiet, handless, timeout \in BOOLEAN : Elapse(quiet, handless, timeout)
         \/ \E yaw \in BOOLEAN : OnToolTrack(yaw)
         \/ \E track \in HandTrack : OnHandTrack(track)
         \/ \E g \in {"pick", "approach"} : Start(g)
  PROVE  Servoing'
<1> USE DEF Servoing, Locked, Counting
<1>1. CASE StepSkipped \/ Closes
  BY <1>1 DEF StepSkipped, Closes, Goto, ServoTypeOK
<1>2. ASSUME NEW quiet \in BOOLEAN, NEW handless \in BOOLEAN, NEW timeout \in BOOLEAN,
             Elapse(quiet, handless, timeout)
      PROVE Servoing'
  <2>1. silent' \in BOOLEAN /\ late' \in BOOLEAN /\ sight' \in {"never", "now", "gone"}
    BY <1>2 DEF Elapse, ServoTypeOK
  <2>. QED
    BY <1>2, <2>1 DEF Elapse, ServoTypeOK
<1>3. ASSUME NEW yaw \in BOOLEAN, OnToolTrack(yaw) PROVE Servoing'
  <2>1. silent' \in BOOLEAN /\ tracked' \in BOOLEAN /\ aim' \in BOOLEAN
    BY <1>3 DEF OnToolTrack
  <2>. QED
    BY <1>3, <2>1 DEF OnToolTrack, ServoTypeOK
<1>4. ASSUME NEW track \in HandTrack, OnHandTrack(track) PROVE Servoing'
  <2>1. lastHand' \in [detected : BOOLEAN, fist : BOOLEAN] /\ sight' \in {"never", "now", "gone"}
    BY <1>4 DEF OnHandTrack, HandTrack, ServoTypeOK
  <2>2. /\ silent' \in BOOLEAN /\ tracked' \in BOOLEAN
        /\ UNCHANGED <<goal, at, ending, late, aim, count, recent, reached,
                       zLocked, graspLocked, sinking, closing>>
    BY <1>4 DEF OnHandTrack
  <2>. QED
    BY <2>1, <2>2 DEF ServoTypeOK
<1>5. ASSUME NEW g \in {"pick", "approach"}, Reset, goal' = g, at' \in {"tick", "idle"}
      PROVE Servoing'
  <2>1. /\ DOMAIN count' = Test /\ (\A t \in Test : count'[t] \in 0..Need[t])
        /\ recent' \in [Back -> SUBSET Test]
    BY <1>5, Needs, FromNothing DEF Reset
  <2>2. lastHand' \in [detected : BOOLEAN, fist : BOOLEAN]
    BY <1>5 DEF Reset
  <2>3. ServoTypeOK'
    BY <1>5, <2>1, <2>2 DEF Reset, ServoTypeOK
  <2>4. Locked' /\ Counting'
    BY <1>5, FromNothing DEF Reset
  <2>. QED
    BY <2>3, <2>4
<1>. QED
  BY <1>1, <1>2, <1>3, <1>4, <1>5 DEF GoalGone, Start

(***************************************************************************)
(* Both together.                                                          *)
(***************************************************************************)
LEMMA UnseenSeeing == ASSUME Seeing, UNCHANGED visionVars PROVE Seeing'
  BY DEF Seeing, visionVars, VisionTypeOK, Remembered, HeightOfTheGrasp

LEMMA UnservedServoing == ASSUME Servoing, UNCHANGED servoVars PROVE Servoing'
  BY DEF Servoing, servoVars, ServoTypeOK, Locked, Counting

LEMMA WireGone ==
  ASSUME Seeing, wire' = NoTrack, UNCHANGED <<mode, tool, tracker, hand, fists, shown>>
  PROVE  Seeing'
  BY DEF Seeing, VisionTypeOK, Remembered, HeightOfTheGrasp, NoTrack

LEMMA StepSeesAndServes ==
  ASSUME Seeing, Servoing, Facing, [Next]_vars PROVE Seeing' /\ Servoing'
<1>1. CASE SetsMode
  BY <1>1, ModeSeeing, UnservedServoing DEF SetsMode, Mode
<1>2. CASE StartsPick
  BY <1>2, UnseenSeeing, OtherServoing DEF StartsPick
<1>3. CASE StartsApproach
  BY <1>3, WireGone, OtherServoing DEF StartsApproach
<1>4. CASE Delivered
  <2>1. ASSUME goal = "pick", UNCHANGED visionVars, NEW yaw \in BOOLEAN, OnToolTrack(yaw)
        PROVE Seeing' /\ Servoing'
    BY <2>1, UnseenSeeing, OtherServoing
  <2>2. ASSUME goal = "approach", wire' = NoTrack, OnHandTrack(wire),
               wire # NoTrack, UNCHANGED <<mode, tool, tracker, hand, fists, shown>>
        PROVE Seeing' /\ Servoing'
    <3>1. wire \in HandTrack
      BY <1>4, <2>2 DEF Delivered, Facing
    <3>. QED
      BY <2>2, <3>1, WireGone, OtherServoing
  <2>. QED
    BY <1>4, <2>1, <2>2 DEF Delivered
<1>5. CASE Dropped
  BY <1>5, WireGone, UnservedServoing DEF Dropped
<1>6. CASE VisionSees
  BY <1>6, ToolFrameSeeing, HandSeeing, UnservedServoing DEF VisionSees, VisionStep, Frame
<1>7. CASE (LoopStep \/ Closes \/ Leaves \/ GoalGone) /\ UNCHANGED visionVars
  BY <1>7, TickServoing, StepServoing, OtherServoing, UnseenSeeing DEF LoopStep, Step
<1>8. CASE TimesOut \/ \E quiet, handless \in BOOLEAN :
             Elapse(quiet, handless, FALSE) /\ UNCHANGED visionVars
  BY <1>8, OtherServoing, UnseenSeeing DEF TimesOut
<1>9. CASE UNCHANGED vars
  BY <1>9, UnseenSeeing, UnservedServoing DEF vars
<1>. QED
  BY <1>1, <1>2, <1>3, <1>4, <1>5, <1>6, <1>7, <1>8, <1>9 DEF Next

LEMMA StepFaces == ASSUME Seeing, Servoing, Facing, [Next]_vars PROVE Facing'
<1> USE DEF Facing, Running
<1>1. CASE SetsMode
  BY <1>1 DEF SetsMode, SetMode, servoVars, Running
<1>2. CASE StartsPick
  BY <1>2 DEF StartsPick, Start
<1>3. CASE StartsApproach
  BY <1>3 DEF StartsApproach, Start
<1>4. CASE Delivered
  BY <1>4 DEF Delivered, OnToolTrack, OnHandTrack, visionVars
<1>5. CASE Dropped
  BY <1>5 DEF Dropped, servoVars
<1>6. CASE VisionSees
  <2>1. ASSUME NEW placed \in BOOLEAN, HandFrame(placed) PROVE Facing'
    <3>1. mode' # "TRACK_TOOL"
      BY <2>1 DEF HandFrame
    <3>2. wire' \in HandTrack
      <4>1. (Sees /\ placed) \in BOOLEAN /\ (Sees /\ hand.fist /\ fists' = FistFrames) \in BOOLEAN
        BY DEF Sees
      <4>. QED
        BY <2>1, <4>1 DEF HandFrame, HandTrack
    <3>. QED
      BY <3>1, <3>2
  <2>2. ASSUME NEW seen \in {"mid", "end", "box"}, NEW depth \in {"valid", "thin", "hole"},
               NEW otherEnd \in BOOLEAN, NEW yaw \in BOOLEAN, ToolFrame(seen, depth, otherEnd, yaw)
        PROVE Facing'
    BY <1>6, <2>2 DEF VisionSees, ToolFrame, servoVars
  <2>3. CASE HandAges \/ \E detected, fist \in BOOLEAN : HandDetected(detected, fist)
    BY <1>6, <2>3 DEF VisionSees, HandAges, HandDetected, servoVars
  <2>. QED
    BY <1>6, <2>1, <2>2, <2>3 DEF VisionSees, VisionStep, Frame
<1>7. CASE (LoopStep \/ Closes \/ Leaves \/ GoalGone) /\ UNCHANGED visionVars
  <2>1. CASE PickTick \/ HandTick \/ Leaves
    BY <1>7, <2>1 DEF PickTick, HandTick, Leaves, Keep, visionVars
  <2>2. CASE Step
    BY <1>7, <2>2 DEF Step, StepSkipped, PickStep, visionVars
  <2>3. CASE Closes \/ GoalGone
    BY <1>7, <2>3 DEF Closes, GoalGone, visionVars
  <2>. QED
    BY <1>7, <2>1, <2>2, <2>3 DEF LoopStep
<1>8. CASE TimesOut \/ \E quiet, handless \in BOOLEAN :
             Elapse(quiet, handless, FALSE) /\ UNCHANGED visionVars
  BY <1>8 DEF TimesOut, Elapse, visionVars
<1>9. CASE UNCHANGED vars
  BY <1>9 DEF vars, visionVars, servoVars
<1>. QED
  BY <1>1, <1>2, <1>3, <1>4, <1>5, <1>6, <1>7, <1>8, <1>9 DEF Next

\* vision_node's memory and the loops' counters keep their types.
THEOREM VisualServoTypeCorrect == Spec => []TypeOK
<1>1. Seeing /\ Servoing /\ Facing /\ [Next]_vars => Seeing' /\ Servoing' /\ Facing'
  BY StepSeesAndServes, StepFaces
<1>2. Seeing /\ Servoing => TypeOK
  BY DEF Seeing, Servoing, TypeOK
<1>. QED
  BY SeeingInit, <1>1, <1>2, PTL DEF Spec

\* A published z is a mean of heights of the tool it is published for; once one of the grasp
\* point is known no other kind is mixed in, and a valid z has one in it.
THEOREM HeightsAreOfTheGrasp == Spec => []HeightOfTheGrasp
<1>1. Seeing /\ Servoing /\ Facing /\ [Next]_vars => Seeing' /\ Servoing' /\ Facing'
  BY StepSeesAndServes, StepFaces
<1>2. Seeing => HeightOfTheGrasp
  BY DEF Seeing
<1>. QED
  BY SeeingInit, <1>1, <1>2, PTL DEF Spec

\* A pick that reached its height does not descend again.
THEOREM ReachedStaysReached == Spec => []NoDescentOnceReached
<1>1. Seeing /\ Servoing /\ Facing /\ [Next]_vars => Seeing' /\ Servoing' /\ Facing'
  BY StepSeesAndServes, StepFaces
<1>2. Servoing => NoDescentOnceReached
  BY DEF Servoing, Locked, NoDescentOnceReached
<1>. QED
  BY SeeingInit, <1>1, <1>2, PTL DEF Spec

(***************************************************************************)
(* The fist: while an approach runs nobody sets TRACK_HAND, so a fist that *)
(* is on its way or was delivered was confirmed since it was last set.     *)
(***************************************************************************)
FistsShown ==
  /\ fists <= shown
  /\ Running /\ goal = "approach" =>
       /\ lastHand.fist => shown = FistFrames
       /\ wire # NoTrack /\ wire.fist => shown = FistFrames

LEMMA FistsKept ==
  ASSUME VisionTypeOK, Facing, FistsShown, [Next]_vars
  PROVE  FistsShown'
<1> USE VisionAssumption DEF FistsShown, Running, VisionTypeOK
<1>1. CASE SetsMode
  <2>1. UNCHANGED <<goal, at, lastHand, wire>>
    BY <1>1 DEF SetsMode, servoVars, SetMode
  <2>2. CASE UNCHANGED <<fists, shown>>
    BY <2>1, <2>2
  <2>3. CASE ~Running /\ fists' = 0 /\ shown' = 0
    BY <2>1, <2>3
  <2>. QED
    BY <1>1, <2>2, <2>3 DEF SetsMode, SetMode
<1>2. CASE StartsPick
  BY <1>2 DEF StartsPick, Start, visionVars
<1>3. CASE StartsApproach
  <2>1. lastHand' = [detected |-> FALSE, fist |-> FALSE] /\ wire' = NoTrack
    BY <1>3 DEF StartsApproach, Start, Reset
  <2>. QED
    BY <1>3, <2>1 DEF StartsApproach
<1>4. CASE Delivered
  <2>1. CASE goal = "pick"
    BY <1>4, <2>1 DEF Delivered, OnToolTrack, visionVars
  <2>2. CASE goal = "approach"
    <3>1. /\ wire # NoTrack /\ wire' = NoTrack /\ lastHand' = wire
          /\ UNCHANGED <<fists, shown, goal, at>>
      BY <1>4, <2>2 DEF Delivered, OnHandTrack
    <3>. QED
      BY <1>4, <3>1 DEF Delivered
  <2>. QED
    BY <1>4, <2>1, <2>2 DEF Delivered
<1>5. CASE Dropped
  BY <1>5 DEF Dropped, servoVars
<1>6. CASE VisionSees
  <2>1. UNCHANGED <<goal, at, lastHand>>
    BY <1>6 DEF VisionSees, servoVars
  <2>2. ASSUME NEW placed \in BOOLEAN, HandFrame(placed) PROVE FistsShown'
    <3> DEFINE fist == Sees /\ hand.fist
    <3>1. /\ fists' = IF fist THEN (IF fists < FistFrames THEN fists + 1 ELSE fists) ELSE 0
          /\ shown' = IF fist THEN (IF shown < FistFrames THEN shown + 1 ELSE shown) ELSE shown
          /\ wire'.fist => fists' = FistFrames
      BY <2>2 DEF HandFrame
    <3> HIDE DEF fist
    <3>2. fists' \in 0..FistFrames /\ shown' \in 0..FistFrames /\ fists' <= shown'
      <4>1. /\ fists \in Nat /\ shown \in Nat /\ fists <= shown
            /\ fists <= FistFrames /\ shown <= FistFrames
        OBVIOUS
      <4>. QED
        BY <3>1, <4>1
    <3>3. shown = FistFrames => shown' = FistFrames
      BY <3>1
    <3>4. wire'.fist => shown' = FistFrames
      BY <3>1, <3>2
    <3>. QED
      BY <2>1, <3>2, <3>3, <3>4
  <2>3. ASSUME NEW seen \in {"mid", "end", "box"}, NEW depth \in {"valid", "thin", "hole"},
               NEW otherEnd \in BOOLEAN, NEW yaw \in BOOLEAN, ToolFrame(seen, depth, otherEnd, yaw)
        PROVE FistsShown'
    <3>1. ~(Running /\ goal = "approach") /\ UNCHANGED <<fists, shown>>
      BY <2>3 DEF Facing, ToolFrame
    <3>. QED
      BY <2>1, <3>1
  <2>4. CASE HandAges \/ \E detected, fist \in BOOLEAN : HandDetected(detected, fist)
    BY <2>1, <2>4 DEF HandAges, HandDetected
  <2>. QED
    BY <1>6, <2>2, <2>3, <2>4 DEF VisionSees, VisionStep, Frame
<1>7. CASE (LoopStep \/ Closes \/ Leaves \/ GoalGone) /\ UNCHANGED visionVars
  <2>1. CASE PickTick \/ HandTick \/ Leaves
    BY <1>7, <2>1 DEF PickTick, HandTick, Leaves, Keep, visionVars
  <2>2. CASE Step
    BY <1>7, <2>2 DEF Step, StepSkipped, PickStep, visionVars
  <2>3. CASE Closes \/ GoalGone
    BY <1>7, <2>3 DEF Closes, GoalGone, visionVars
  <2>. QED
    BY <1>7, <2>1, <2>2, <2>3 DEF LoopStep
<1>8. CASE TimesOut \/ \E quiet, handless \in BOOLEAN :
             Elapse(quiet, handless, FALSE) /\ UNCHANGED visionVars
  BY <1>8 DEF TimesOut, Elapse, visionVars
<1>9. CASE UNCHANGED vars
  BY <1>9 DEF vars, visionVars, servoVars
<1>. QED
  BY <1>1, <1>2, <1>3, <1>4, <1>5, <1>6, <1>7, <1>8, <1>9 DEF Next

\* An approach stops for a fist only once enough frames of this handover have shown one.
THEOREM FistsAreOfThisHandover == Spec => FistOfThisHandover
<1> DEFINE Met == Seeing /\ Servoing /\ Facing /\ FistsShown
<1>1. Init => Met
  BY SeeingInit, VisionAssumption DEF Init, VisionInit, ServoInit, FistsShown, Running
<1>2. Met /\ [Next]_vars => Met'
  BY StepSeesAndServes, StepFaces, FistsKept DEF Seeing
<1>3. ASSUME Met, [Next]_vars, ending # "fist", ending' = "fist" PROVE shown = FistFrames
  <2>1. HandTick
    BY <1>3 DEF Next, vars, servoVars, SetsMode, StartsPick, StartsApproach, Start, Reset,
       Delivered, OnToolTrack, OnHandTrack, Dropped, VisionSees, TimesOut, Elapse, LoopStep,
       PickTick, Step, StepSkipped, PickStep, Goto, Ends, Closes, Leaves, GoalGone
  <2>. QED
    BY <1>3, <2>1 DEF HandTick, Ends, Goto, FistsShown, Running
<1>. QED
  BY <1>1, <1>2, <1>3, PTL DEF Spec, FistOfThisHandover

\* The gripper starts to close only after as many steps in a row as each test needs have
\* passed it, with the tool in view and the time not over.
THEOREM ClosesSteadily == Spec => ClosesOnlySteady
<1>1. Seeing /\ Servoing /\ Facing /\ [Next]_vars => Seeing' /\ Servoing' /\ Facing'
  BY StepSeesAndServes, StepFaces
<1>2. ASSUME Servoing, [Next]_vars, closing = "no", closing' = "yes"
      PROVE  /\ \A t \in Test : InARow(recent, t) \/ (t = "yaw" /\ ~aim)
             /\ ~Lost /\ ~late
  <2>1. PickTick
    BY <1>2 DEF Next, vars, servoVars, SetsMode, StartsPick, StartsApproach, Start, Reset,
       Delivered, OnToolTrack, OnHandTrack, Dropped, VisionSees, TimesOut, Elapse, LoopStep,
       HandTick, Step, StepSkipped, PickStep, Closes, Leaves, GoalGone
  <2>2. ShouldClose /\ ~Lost /\ ~late
    BY <1>2, <2>1 DEF PickTick
  <2>3. ASSUME NEW t \in Test PROVE InARow(recent, t) \/ (t = "yaw" /\ ~aim)
    BY <1>2, <2>2 DEF ShouldClose, Servoing, Counting, InARow
  <2>. QED
    BY <2>2, <2>3
<1>. QED
  BY SeeingInit, <1>1, <1>2, PTL DEF Spec, ClosesOnlySteady

=============================================================================

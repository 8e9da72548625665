----------------------------- MODULE ServoLoops -----------------------------
(***************************************************************************)
(* The decisions of ServoLoop (servo_pick) and HandServoLoop               *)
(* (handover_approach), and the turns of the loop that asks for them:      *)
(* first the decision (tick), then the next velocity (step).  Errors are   *)
(* not numbers: a step finds each of the four tests passed or not.  How    *)
(* the velocities reach the robot, cancellation and faults are the matter  *)
(* of RtTracking.                                                          *)
(***************************************************************************)
EXTENDS Naturals

CONSTANTS NStable, NStableZ, NStableV, NStableYaw   \* steps in a row that each test needs

ASSUME StableAssumption == {NStable, NStableZ, NStableV, NStableYaw} \subseteq Nat \ {0}

VARIABLES
  goal, at,   \* "pick" or "approach"; "idle", "tick", "step" or "over"
  ending,     \* how the loop ended
  silent,     \* no track within t_lost_s
  late,       \* timeout_s is over
  sight,      \* history: a hand was seen "never", "now" (within t_lost_s), or is "gone"
  tracked,    \* a track was received since the start (the filter is initialized)
  aim,        \* _yaw_target_deg is set
  count,      \* the four counters of consecutive passed tests, up to what each needs
  recent,     \* history: the tests that the last steps of this goal passed, the newest first
  reached,    \* history: the height test was passed NStableZ steps in a row
  zLocked, graspLocked,
  sinking,    \* the last command descends
  closing,    \* the thread that closes the gripper: "no", "yes", "done"
  lastHand    \* HandServoLoop's _detected and _fist

servoVars == <<goal, at, ending, silent, late, sight, tracked, aim, count, recent, reached,
               zLocked, graspLocked, sinking, closing, lastHand>>

Test == {"xy", "z", "speed", "yaw"}
Need == [xy |-> NStable, z |-> NStableZ, speed |-> NStableV, yaw |-> NStableYaw]
Up(t) == IF count[t] < Need[t] THEN count[t] + 1 ELSE count[t]

\* The steps that are looked back at: as many as the most demanding test needs.
Back == UNION {1..Need[t] : t \in Test}
\* Of a step, the history keeps the tests that still look back that far.
LookingBack(i) == {t \in Test : i <= Need[t]}
NoneYet == [i \in Back |-> {}]
InARow(steps, t) == \A i \in 1..Need[t] : t \in steps[i]

ServoTypeOK ==
  /\ goal \in {"pick", "approach"} /\ at \in {"idle", "tick", "step", "over"}
  /\ ending \in {"none", "closed", "fist", "timeout", "lost", "diverging", "left"}
  /\ silent \in BOOLEAN /\ late \in BOOLEAN /\ sight \in {"never", "now", "gone"}
  /\ tracked \in BOOLEAN /\ aim \in BOOLEAN
  /\ DOMAIN count = Test /\ (\A t \in Test : count[t] \in 0..Need[t])
  /\ recent \in [Back -> SUBSET Test]
  /\ reached \in BOOLEAN /\ zLocked \in BOOLEAN /\ graspLocked \in BOOLEAN
  /\ sinking \in BOOLEAN /\ closing \in {"no", "yes", "done"}
  /\ lastHand \in [detected : BOOLEAN, fist : BOOLEAN]

ServoInit ==
  /\ goal = "pick" /\ at = "idle"
  /\ ending = "none" /\ silent = FALSE /\ late = FALSE /\ sight = "never"
  /\ tracked = FALSE /\ aim = FALSE
  /\ count = [t \in Test |-> 0] /\ recent = NoneYet /\ reached = FALSE
  /\ zLocked = FALSE /\ graspLocked = FALSE /\ sinking = FALSE /\ closing = "no"
  /\ lastHand = [detected |-> FALSE, fist |-> FALSE]

Reset ==
  /\ ending' = "none" /\ silent' = FALSE /\ late' = FALSE /\ sight' = "never"
  /\ tracked' = FALSE /\ aim' = FALSE
  /\ count' = [t \in Test |-> 0] /\ recent' = NoneYet /\ reached' = FALSE
  /\ zLocked' = FALSE /\ graspLocked' = FALSE /\ sinking' = FALSE /\ closing' = "no"
  /\ lastHand' = [detected |-> FALSE, fist |-> FALSE]

\* start() of either loop.  Until then nobody reads what the last goal left: GoalGone forgets it.
Start(g) == at = "idle" /\ at' = "tick" /\ goal' = g /\ Reset
GoalGone == at = "over" /\ closing # "yes" /\ at' = "idle" /\ goal' = "pick" /\ Reset

(***************************************************************************)
(* Tracks.                                                                 *)
(***************************************************************************)
OnToolTrack(yawValid) ==
  /\ silent' = FALSE /\ tracked' = TRUE /\ aim' = (aim \/ yawValid)
  /\ UNCHANGED <<goal, at, ending, late, sight, count, recent, reached,
                 zLocked, graspLocked, sinking, closing, lastHand>>

OnHandTrack(track) ==
  /\ silent' = FALSE /\ tracked' = TRUE /\ lastHand' = track
  /\ sight' = IF track.detected THEN "now" ELSE sight
  /\ UNCHANGED <<goal, at, ending, late, aim, count, recent, reached,
                 zLocked, graspLocked, sinking, closing>>

(***************************************************************************)
(* Ticks.                                                                  *)
(***************************************************************************)
Goto(place) == at' = place /\ UNCHANGED ending
Ends(how) == at' = "over" /\ ending' = how
Keep == UNCHANGED <<goal, silent, late, sight, tracked, aim, count, recent, reached, zLocked,
                    sinking, lastHand>>

\* Before the first track no loss is declared, only the timeout.
Lost == silent /\ tracked

\* should_close; the covariance, the fifth condition, is left to the caller.
ShouldClose == \A t \in Test : count[t] = Need[t] \/ (t = "yaw" /\ ~aim)

\* should_abort (late, lost, or errors that grew for a whole window, in position or in yaw),
\* then should_close; neither of which is asked once the gripper closes.
PickTick ==
  /\ at = "tick" /\ goal = "pick" /\ Keep
  /\ \/ closing = "yes" /\ Goto("step") /\ UNCHANGED <<closing, graspLocked>>
     \/ closing = "done" /\ Ends("closed") /\ UNCHANGED <<closing, graspLocked>>
     \/ closing = "no" /\ late /\ Ends("timeout") /\ UNCHANGED <<closing, graspLocked>>
     \/ closing = "no" /\ ~late /\ Lost /\ Ends("lost") /\ UNCHANGED <<closing, graspLocked>>
     \/ /\ closing = "no" /\ ~late /\ ~Lost
        /\ \/ tracked /\ Ends("diverging") /\ UNCHANGED <<closing, graspLocked>>
           \/ ShouldClose /\ Goto("step") /\ closing' = "yes" /\ graspLocked' = TRUE
           \/ ShouldClose /\ Goto("step") /\ graspLocked' = TRUE /\ UNCHANGED closing  \* canceled, unsafe
           \/ Goto("step") /\ UNCHANGED <<closing, graspLocked>>

\* Faulty variant, for the mutation runs: the timeout is asked for only when tracks come in.
HandTickWaiting ==
  /\ at = "tick" /\ goal = "approach" /\ Keep /\ UNCHANGED <<closing, graspLocked>>
  /\ \/ lastHand.fist /\ Ends("fist")
     \/ ~lastHand.fist /\ Lost /\ Ends("lost")
     \/ ~lastHand.fist /\ ~Lost /\ late /\ tracked /\ Ends("timeout")
     \/ ~lastHand.fist /\ ~Lost /\ (~late \/ ~tracked) /\ Goto("step")

HandTick ==
  /\ at = "tick" /\ goal = "approach" /\ Keep /\ UNCHANGED <<closing, graspLocked>>
  /\ \/ lastHand.fist /\ Ends("fist")
     \/ ~lastHand.fist /\ Lost /\ Ends("lost")
     \/ ~lastHand.fist /\ ~Lost /\ late /\ Ends("timeout")
     \/ ~lastHand.fist /\ ~Lost /\ ~late /\ Goto("step")

(***************************************************************************)
(* Steps.                                                                  *)
(***************************************************************************)
\* No TCP position, no track yet, or an approach: nothing is counted.
StepSkipped ==
  /\ at = "step" /\ Goto("tick")
  /\ UNCHANGED <<goal, silent, late, sight, tracked, aim, count, recent, reached,
                 zLocked, graspLocked, sinking, closing, lastHand>>

\* Faulty variant, for the mutation runs: the height lock follows its counter.
PickStepUnlatched(passed, near) ==
  /\ at = "step" /\ goal = "pick" /\ tracked /\ Goto("tick")
  /\ count' = [t \in Test |-> IF t \in passed THEN Up(t) ELSE 0]
  /\ recent' = [i \in Back |-> LookingBack(i) \cap IF i = 1 THEN passed ELSE recent[i - 1]]
  /\ reached' = (reached \/ InARow(recent', "z"))
  /\ zLocked' = (count'["z"] = Need["z"])
  /\ sinking' = (~graspLocked /\ ~zLocked' /\ near)
  /\ UNCHANGED <<goal, silent, late, sight, tracked, aim, graspLocked, closing, lastHand>>

\* Faulty variant, for the mutation runs: a step that fails a test does not reset its counter.
PickStepForgiving(passed, near) ==
  /\ at = "step" /\ goal = "pick" /\ tracked /\ Goto("tick")
  /\ count' = [t \in Test |-> IF t \in passed THEN Up(t) ELSE count[t]]
  /\ recent' = [i \in Back |-> LookingBack(i) \cap IF i = 1 THEN passed ELSE recent[i - 1]]
  /\ reached' = (reached \/ InARow(recent', "z"))
  /\ zLocked' = (zLocked \/ count'["z"] = Need["z"])
  /\ sinking' = (~graspLocked /\ ~zLocked' /\ near)
  /\ UNCHANGED <<goal, silent, late, sight, tracked, aim, graspLocked, closing, lastHand>>

\* ServoLoop.step: "near" is the weaker test in the plane that lets it descend.
PickStep(passed, near) ==
  /\ at = "step" /\ goal = "pick" /\ tracked /\ Goto("tick")
  /\ count' = [t \in Test |-> IF t \in passed THEN Up(t) ELSE 0]
  /\ recent' = [i \in Back |-> LookingBack(i) \cap IF i = 1 THEN passed ELSE recent[i - 1]]
  /\ reached' = (reached \/ InARow(recent', "z"))
  /\ zLocked' = (zLocked \/ count'["z"] = Need["z"])
  /\ sinking' = (~graspLocked /\ ~zLocked' /\ near)
  /\ UNCHANGED <<goal, silent, late, sight, tracked, aim, graspLocked, closing, lastHand>>

\* The yaw test needs a target, and passing in the plane implies being near.
Step ==
  \/ StepSkipped
  \/ \E passed \in SUBSET Test, near \in BOOLEAN :
       /\ "yaw" \in passed => aim
       /\ "xy" \in passed => near
       /\ PickStep(passed, near)

LoopStep == PickTick \/ HandTick \/ Step

(***************************************************************************)
(* Time, the close thread, and the end of the loop for other reasons.      *)
(***************************************************************************)
Elapse(quiet, handless, timeout) ==
  /\ at \in {"tick", "step"}
  /\ silent' = (silent \/ quiet) /\ late' = (late \/ timeout)
  /\ sight' = IF handless /\ sight = "now" THEN "gone" ELSE sight
  /\ quiet => handless
  /\ handless => quiet \/ silent \/ ~lastHand.detected
  /\ UNCHANGED <<goal, at, ending, tracked, aim, count, recent, reached,
                 zLocked, graspLocked, sinking, closing, lastHand>>

Closes ==
  /\ closing = "yes" /\ closing' = "done"
  /\ UNCHANGED <<goal, at, ending, silent, late, sight, tracked, aim, count, recent, reached,
                 zLocked, graspLocked, sinking, lastHand>>

Leaves ==
  /\ at \in {"tick", "step"} /\ Ends("left")
  /\ Keep /\ UNCHANGED <<closing, graspLocked>>

=============================================================================

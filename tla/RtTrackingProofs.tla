-------------------------- MODULE RtTrackingProofs --------------------------
(***************************************************************************)
(* Whatever the servo loops decide and the other threads do in between: a  *)
(* goal that streams velocities leaves the arm at rest, and its closing of *)
(* the gripper settled.                                                    *)
(***************************************************************************)
EXTENDS RtTracking, TLAPS

USE DEF Status, Loop, Lift, Done, Declarers, Close!CommandTypeOK

\* The types in two parts: what is named or counted, and what is on or off.
Names ==
  /\ goal \in {"pick", "approach"}
  /\ at \in Done \cup Loop \cup Lift \cup {"leave", "finish", "settle", "liftleave"}
  /\ exit \in {"none", "canceled", "fault", "abort", "closed", "invalid", "shutdown", "raised"}
  /\ outcome \in {"ABORT", "CANCELED", "ARRIVED", "FAULT"}
  /\ command \in {"none", "move", "rest", "invalid"}
  /\ arm \in {"still", "moving"} /\ cache \in {"fresh", "stale"}
  /\ gripper \in {"rest", "moving"} /\ call \in Status \cup {"idle", "running"}
  /\ watchdog \in {"off", "on", "firing"}

Switches ==
  /\ closer \in BOOLEAN /\ hung \in BOOLEAN /\ stopFailed \in BOOLEAN
  /\ cancel \in BOOLEAN /\ normal \in BOOLEAN
  /\ emergency \in BOOLEAN /\ declaring \subseteq Declarers
  /\ starved \in BOOLEAN /\ caching \in BOOLEAN

\* A goal closes at most once, and it is the existence of its thread that says so.
Closing ==
  /\ closer \in BOOLEAN
  /\ closes = IF closer THEN 1 ELSE 0

LEMMA Typed == Names /\ Switches /\ Closing => TypeOK
  BY DEF TypeOK, Names, Switches, Closing

\* While the gripper closes the pick is in its loop, or waits for the thread behind it.
Joining ==
  /\ call = "running" => closer /\ goal = "pick" /\ at \in Loop \cup {"leave", "finish"}
  /\ call = "SUCCESS" => gripper = "rest"

Gripped == goal = "pick" /\ closer /\ call = "SUCCESS"

\* The lift, and a success, come after a close that ended well.
Lifting ==
  /\ at \in {"leave", "finish"} /\ goal = "pick" /\ outcome = "ARRIVED" => closer
  /\ at \in Lift \cup {"settle", "liftleave"} => Gripped
  /\ at \in Lift \cup {"settle"} => outcome = "ARRIVED"
  /\ at = "over" /\ goal = "pick" /\ outcome = "ARRIVED" => Gripped

Stopped == ~stopFailed => arm = "still"

\* Some other thread that declares a fault has its stop still to send, or the arm has stopped.
Resting == declaring = {} => Stopped

\* A goal that is not going to succeed has sent its MoveStop when it leaves its loop or the
\* lift; one that succeeds sends it on its way out.  Where a FAULT of its own may be dropped,
\* the EMERGENCY_STOP that drops it came after its last velocity, and the stop follows.
Stopping ==
  /\ normal => ~emergency
  /\ at \in {"leave", "finish"} /\ outcome # "ARRIVED" /\ exit \notin {"fault", "invalid"}
       => Resting
  /\ emergency /\ at = "tick" => Resting
  /\ emergency /\ at \in {"leave", "finish"} /\ outcome = "ARRIVED" => Resting
  /\ at = "lift" => Resting
  /\ at = "liftleave" /\ outcome # "ARRIVED" => Resting
  /\ at = "over" /\ exit \notin {"fault", "invalid"} => Resting

Settling == Names /\ Switches /\ Closing /\ Joining /\ Lifting /\ Stopping

LEMMA SettlingInit == Init => Settling
  BY DEF Init, Settling, Names, Switches, Closing, Joining, Lifting, Stopping, Close!CommandInit

(***************************************************************************)
(* What a stop does, whether its answer is read or not.                    *)
(***************************************************************************)
LEMMA StopsArm ==
  ASSUME Names, Switches, NEW place, NEW how, NEW answer,
         StopOrFault(place, how, answer) \/ StopAnyway(place, how, answer)
  PROVE  /\ at' = place /\ exit' = how /\ outcome' \in {answer, "FAULT"} /\ command' = "none"
         /\ Stopped' /\ arm' \in {"still", arm} /\ stopFailed' \in BOOLEAN
         /\ normal' \in BOOLEAN /\ (normal' => normal)
         /\ UNCHANGED <<goal, closer, closes, hung, cancel, emergency, declaring>>
         /\ StopAnyway(place, how, answer) => outcome' = answer
<1> USE DEF Names, Switches, MoveStop, Answer, Stopped, safetyVars
<1>1. CASE StopAnyway(place, how, answer)
  BY <1>1 DEF StopAnyway
<1>2. ASSUME StopOrFault(place, how, answer), ~StopAnyway(place, how, answer)
      PROVE  /\ at' = place /\ exit' = how /\ outcome' \in {answer, "FAULT"} /\ command' = "none"
             /\ Stopped' /\ arm' \in {"still", arm} /\ stopFailed' \in BOOLEAN
             /\ normal' \in BOOLEAN /\ (normal' => normal)
             /\ UNCHANGED <<goal, closer, closes, hung, cancel, emergency, declaring>>
  <2>1. CASE MoveStop(TRUE) /\ Answer(place, how, answer) /\ UNCHANGED safetyVars
    BY <2>1
  <2>2. CASE ~emergency /\ DeclareFault /\ Answer(place, how, "FAULT")
    BY <2>2 DEF DeclareFault
  <2>3. CASE emergency /\ MoveStop(FALSE) /\ Answer(place, how, "FAULT") /\ UNCHANGED safetyVars
    BY <2>3
  <2>. QED
    BY <1>2, <2>1, <2>2, <2>3 DEF StopOrFault
<1>. QED
  BY <1>1, <1>2

LEMMA FaultStopsArm ==
  ASSUME Names, Switches, DeclareFault
  PROVE  /\ \/ Stopped'
            \/ emergency /\ UNCHANGED <<arm, stopFailed>>
         /\ arm' \in {"still", arm} /\ stopFailed' \in BOOLEAN
         /\ normal' = FALSE /\ UNCHANGED <<cancel, emergency, declaring>>
  BY DEF Names, Switches, DeclareFault, MoveStop, Stopped, armVars

LEMMA StopThenFaultStopsArm ==
  ASSUME Names, Switches, NEW place, NEW how, StopAndFault(place, how)
  PROVE  /\ at' = place /\ exit' = how /\ outcome' = "FAULT" /\ command' = "none"
         /\ Stopped' /\ arm' \in {"still", arm} /\ stopFailed' \in BOOLEAN
         /\ normal' = FALSE
         /\ UNCHANGED <<goal, closer, closes, hung, cancel, emergency, declaring>>
  BY DEF Names, Switches, StopAndFault, Answer, Stopped

(***************************************************************************)
(* Every step keeps the invariant.                                         *)
(***************************************************************************)
LEMMA StepSettles == ASSUME Settling, [Next]_vars PROVE Settling'
<1> USE DEF Settling, Names, Switches, Closing, Joining, Gripped, Lifting, Stopping, Resting, Stopped,
      threadVars, armVars, safetyVars, gripperVars, dogVars, cacheVars
<1>1. ASSUME NEW g \in {"pick", "approach"}, StartGoal(g) PROVE Settling'
  <2>1. Names'
    BY <1>1 DEF StartGoal, Started
  <2>2. Switches'
    BY <1>1 DEF StartGoal, Started
  <2>3. Closing'
    BY <1>1 DEF StartGoal, Started
  <2>4. Joining' /\ Lifting'
    BY <1>1 DEF StartGoal, Started
  <2>5. Stopping'
    BY <1>1 DEF StartGoal, Started
  <2>. QED
    BY <2>1, <2>2, <2>3, <2>4, <2>5
<1>2. CASE LoopTop
  <2>1. Names'
    BY <1>2, StopsArm DEF LoopTop, Answer, Goto, Calm, Rest
  <2>2. Switches'
    BY <1>2, StopsArm DEF LoopTop, Answer, Goto, Calm, Rest
  <2>3. Closing'
    BY <1>2, StopsArm DEF LoopTop, Answer, Goto, Calm, Rest
  <2>4. Joining' /\ Lifting'
    BY <1>2, StopsArm DEF LoopTop, Answer, Goto, Calm, Rest
  <2>5. Stopping'
    BY <1>2, StopsArm DEF LoopTop, Answer, Goto, Calm, Rest
  <2>. QED
    BY <2>1, <2>2, <2>3, <2>4, <2>5
<1>3. ASSUME NEW decision \in {"CONTINUE", "ABORT", "STOP"}, Decides(decision) PROVE Settling'
  <2>1. CASE decision = "CONTINUE"
    <3>1. Names'
      BY <1>3, <2>1 DEF Decides, Goto, Calm, Rest
    <3>2. Switches' /\ Closing'
      BY <1>3, <2>1 DEF Decides, Goto, Calm, Rest
    <3>3. Joining' /\ Lifting'
      BY <1>3, <2>1 DEF Decides, Goto, Calm, Rest
    <3>4. Stopping'
      BY <1>3, <2>1 DEF Decides, Goto, Calm, Rest
    <3>. QED
      BY <3>1, <3>2, <3>3, <3>4
  <2>2. CASE decision = "ABORT"
    <3>1. Names'
      BY <1>3, <2>2, StopsArm DEF Decides, Rest
    <3>2. Switches' /\ Closing'
      BY <1>3, <2>2, StopsArm DEF Decides, Rest
    <3>3. Joining' /\ Lifting'
      BY <1>3, <2>2, StopsArm DEF Decides, Rest
    <3>4. Stopping'
      BY <1>3, <2>2, StopsArm DEF Decides, Rest
    <3>. QED
      BY <3>1, <3>2, <3>3, <3>4
  <2>3. CASE decision = "STOP"
    <3>1. Names'
      BY <1>3, <2>3 DEF Decides, Answer, Calm, Rest
    <3>2. Switches' /\ Closing'
      BY <1>3, <2>3 DEF Decides, Answer, Calm, Rest
    <3>3. Joining' /\ Lifting'
      BY <1>3, <2>3 DEF Decides, Answer, Calm, Rest
    <3>4. Stopping'
      BY <1>3, <2>3 DEF Decides, Answer, Calm, Rest
    <3>. QED
      BY <3>1, <3>2, <3>3, <3>4
  <2>. QED
    BY <2>1, <2>2, <2>3
<1>4. CASE StartsClosing
  <2>1. Names'
    BY <1>4 DEF StartsClosing, Close!Begin
  <2>2. Switches'
    BY <1>4 DEF StartsClosing, Close!Begin
  <2>3. Closing'
    BY <1>4 DEF StartsClosing, Close!Begin
  <2>4. Joining' /\ Lifting'
    BY <1>4 DEF StartsClosing, Close!Begin
  <2>5. Stopping'
    BY <1>4 DEF StartsClosing, Close!Begin
  <2>. QED
    BY <2>1, <2>2, <2>3, <2>4, <2>5
<1>5. CASE WhileClosing
  <2>1. CASE call = "running"
    <3>1. Names'
      BY <1>5, <2>1 DEF WhileClosing, Goto, Calm, Rest
    <3>2. Switches' /\ Closing'
      BY <1>5, <2>1 DEF WhileClosing, Goto, Calm, Rest
    <3>3. Joining' /\ Lifting'
      BY <1>5, <2>1 DEF WhileClosing, Goto, Calm, Rest
    <3>4. Stopping'
      BY <1>5, <2>1 DEF WhileClosing, Goto, Calm, Rest
    <3>. QED
      BY <3>1, <3>2, <3>3, <3>4
  <2>2. CASE call # "running"
    <3>1. Names'
      BY <1>5, <2>2 DEF WhileClosing, Answer, Calm, Rest
    <3>2. Switches' /\ Closing'
      BY <1>5, <2>2 DEF WhileClosing, Answer, Calm, Rest
    <3>3. Joining' /\ Lifting'
      BY <1>5, <2>2 DEF WhileClosing, Answer, Calm, Rest
    <3>4. Stopping'
      BY <1>5, <2>2 DEF WhileClosing, Answer, Calm, Rest
    <3>. QED
      BY <3>1, <3>2, <3>3, <3>4
  <2>. QED
    BY <2>1, <2>2
<1>6. CASE ComputesVelocity \/ PublishesVelocity
  <2>1. Names'
    BY <1>6 DEF ComputesVelocity, PublishesVelocity, Published, Goto, Calm, Rest
  <2>2. Switches'
    BY <1>6 DEF ComputesVelocity, PublishesVelocity, Published, Goto, Calm, Rest
  <2>3. Closing'
    BY <1>6 DEF ComputesVelocity, PublishesVelocity, Published, Goto, Calm, Rest
  <2>4. Joining' /\ Lifting'
    BY <1>6 DEF ComputesVelocity, PublishesVelocity, Published, Goto, Calm, Rest
  <2>5. Stopping'
    BY <1>6 DEF ComputesVelocity, PublishesVelocity, Published, Goto, Calm, Rest
  <2>. QED
    BY <2>1, <2>2, <2>3, <2>4, <2>5
<1>7. CASE RejectsVelocity
  <2>1. Names'
    BY <1>7 DEF RejectsVelocity, Answer, Calm, Rest
  <2>2. Switches'
    BY <1>7 DEF RejectsVelocity, Answer, Calm, Rest
  <2>3. Closing'
    BY <1>7 DEF RejectsVelocity, Answer, Calm, Rest
  <2>4. Joining' /\ Lifting'
    BY <1>7 DEF RejectsVelocity, Answer, Calm, Rest
  <2>5. Stopping'
    BY <1>7 DEF RejectsVelocity, Answer, Calm, Rest
  <2>. QED
    BY <2>1, <2>2, <2>3, <2>4, <2>5
<1>8. CASE Raises(Loop, "leave")
  <2>1. Names'
    BY <1>8, StopsArm DEF Raises, Answer, Rest
  <2>2. Switches'
    BY <1>8, StopsArm DEF Raises, Answer, Rest
  <2>3. Closing'
    BY <1>8, StopsArm DEF Raises, Answer, Rest
  <2>4. Joining' /\ Lifting'
    BY <1>8, StopsArm DEF Raises, Answer, Rest
  <2>5. Stopping'
    BY <1>8, StopsArm DEF Raises, Answer, Rest
  <2>. QED
    BY <2>1, <2>2, <2>3, <2>4, <2>5
<1>9. CASE LeavesLoop
  <2>1. /\ at = "leave" /\ at' = "finish" /\ watchdog' = "off" /\ starved' = FALSE /\ caching' = FALSE
        /\ UNCHANGED <<goal, exit, closer, closes, hung, gripper, call, cache>>
    BY <1>9 DEF LeavesLoop, Answer, Goto
  <2>2. CASE Goto("finish") /\ Calm
    <3>1. Names' /\ Closing'
      BY <2>1, <2>2 DEF Goto, Calm
    <3>2. Switches'
      BY <2>1, <2>2 DEF Goto, Calm
    <3>3. Joining' /\ Lifting'
      BY <2>1, <2>2 DEF Goto, Calm
    <3>4. Stopping'
      BY <2>1, <2>2 DEF Goto, Calm
    <3>. QED
      BY <3>1, <3>2, <3>3, <3>4
  <2>3. CASE DeclareFault /\ Answer("finish", exit, "FAULT")
    <3>1. outcome' = "FAULT" /\ command' = "none"
      BY <2>3 DEF Answer
    <3>2. Names'
      BY <2>1, <3>1, <2>3, FaultStopsArm
    <3>3. Closing'
      BY <2>1
    <3>4. Switches'
      BY <2>1, <2>3, FaultStopsArm
    <3>5. Joining' /\ Lifting'
      BY <2>1, <3>1
    <3>6. Stopping'
      BY <2>1, <2>3, <3>1, FaultStopsArm
    <3>. QED
      BY <3>2, <3>3, <3>4, <3>5, <3>6
  <2>. QED
    BY <1>9, <2>2, <2>3 DEF LeavesLoop
<1>10. CASE FinishesLost
  <2>1. Names'
    BY <1>10 DEF FinishesLost, Joined, Goto, Calm, Rest
  <2>2. Switches'
    BY <1>10 DEF FinishesLost, Joined, Goto, Calm, Rest
  <2>3. Closing'
    BY <1>10 DEF FinishesLost, Joined, Goto, Calm, Rest
  <2>4. Joining' /\ Lifting'
    BY <1>10 DEF FinishesLost, Joined, Goto, Calm, Rest
  <2>5. Stopping'
    BY <1>10 DEF FinishesLost, Joined, Goto, Calm, Rest
  <2>. QED
    BY <2>1, <2>2, <2>3, <2>4, <2>5
<1>11. CASE ApproachArrives
  <2>1. Names'
    BY <1>11, StopsArm DEF ApproachArrives, Answer, Rest
  <2>2. Switches'
    BY <1>11, StopsArm DEF ApproachArrives, Answer, Rest
  <2>3. Closing'
    BY <1>11, StopsArm DEF ApproachArrives, Answer, Rest
  <2>4. Joining' /\ Lifting'
    BY <1>11, StopsArm DEF ApproachArrives, Answer, Rest
  <2>5. Stopping'
    BY <1>11, StopsArm DEF ApproachArrives, Answer, Rest
  <2>. QED
    BY <2>1, <2>2, <2>3, <2>4, <2>5
<1>12. CASE PickArrives
  <2>1. CASE call = "SUCCESS"
    <3>1. Names'
      BY <1>12, <2>1 DEF PickArrives, Joined, Goto, Calm, Rest
    <3>2. Switches' /\ Closing'
      BY <1>12, <2>1 DEF PickArrives, Joined, Goto, Calm, Rest
    <3>3. Joining' /\ Lifting'
      BY <1>12, <2>1 DEF PickArrives, Joined, Goto, Calm, Rest
    <3>4. Stopping'
      BY <1>12, <2>1 DEF PickArrives, Joined, Goto, Calm, Rest
    <3>. QED
      BY <3>1, <3>2, <3>3, <3>4
  <2>2. CASE call = "CANCELED"
    <3>1. StopAnyway("over", exit, "CANCELED") /\ Rest
      BY <1>12, <2>2 DEF PickArrives
    <3>2. Names'
      BY <3>1, StopsArm DEF Rest
    <3>3. Switches'
      BY <3>1, StopsArm DEF Rest
    <3>4. Closing'
      BY <3>1, StopsArm DEF Rest
    <3>5. Joining' /\ Lifting'
      BY <2>2, <3>1, StopsArm DEF Rest
    <3>6. Stopping'
      BY <3>1, StopsArm DEF Rest
    <3>. QED
      BY <3>2, <3>3, <3>4, <3>5, <3>6
  <2>3. CASE call \notin {"SUCCESS", "CANCELED"}
    <3>1. DeclareFault /\ Answer("over", exit, "FAULT") /\ Rest
      BY <1>12, <2>3 DEF PickArrives
    <3>2. Names'
      BY <1>12, <3>1, FaultStopsArm DEF PickArrives, Joined, Answer, Rest
    <3>3. Switches' /\ Closing'
      BY <1>12, <3>1, FaultStopsArm DEF PickArrives, Joined, Answer, Rest
    <3>4. Joining' /\ Lifting'
      BY <1>12, <3>1, FaultStopsArm DEF PickArrives, Joined, Answer, Rest
    <3>5. Stopping'
      BY <1>12, <3>1, FaultStopsArm DEF PickArrives, Joined, Answer, Rest
    <3>. QED
      BY <3>2, <3>3, <3>4, <3>5
  <2>. QED
    BY <2>1, <2>2, <2>3
<1>13. CASE StopsForLift
  <2>1. Names'
    BY <1>13, StopsArm DEF StopsForLift, Answer, Rest
  <2>2. Switches'
    BY <1>13, StopsArm DEF StopsForLift, Answer, Rest
  <2>3. Closing'
    BY <1>13, StopsArm DEF StopsForLift, Answer, Rest
  <2>4. Joining' /\ Lifting'
    BY <1>13, StopsArm DEF StopsForLift, Answer, Rest
  <2>5. Stopping'
    BY <1>13, StopsArm DEF StopsForLift, Answer, Rest
  <2>. QED
    BY <2>1, <2>2, <2>3, <2>4, <2>5
<1>14. CASE StartsLift
  <2>1. Names'
    BY <1>14, FaultStopsArm DEF StartsLift, Answer, Goto, Calm
  <2>2. Switches'
    BY <1>14, FaultStopsArm DEF StartsLift, Answer, Goto, Calm
  <2>3. Closing'
    BY <1>14, FaultStopsArm DEF StartsLift, Answer, Goto, Calm
  <2>4. Joining' /\ Lifting'
    BY <1>14, FaultStopsArm DEF StartsLift, Answer, Goto, Calm
  <2>5. Stopping'
    BY <1>14, FaultStopsArm DEF StartsLift, Answer, Goto, Calm
  <2>. QED
    BY <2>1, <2>2, <2>3, <2>4, <2>5
<1>15. CASE LiftTop
  <2>1. Names'
    BY <1>15, StopsArm, StopThenFaultStopsArm DEF LiftTop, Answer, Goto, Calm, Rest
  <2>2. Switches'
    BY <1>15, StopsArm, StopThenFaultStopsArm DEF LiftTop, Answer, Goto, Calm, Rest
  <2>3. Closing'
    BY <1>15, StopsArm, StopThenFaultStopsArm DEF LiftTop, Answer, Goto, Calm, Rest
  <2>4. Joining' /\ Lifting'
    <3>1. UNCHANGED <<goal, closer, call, gripper>>
      BY <1>15, StopsArm, StopThenFaultStopsArm DEF LiftTop, Answer, Goto, Rest
    <3>2. at' = "liftleave" \/ (at' = "liftpublish" /\ outcome' = outcome)
      BY <1>15, StopsArm, StopThenFaultStopsArm DEF LiftTop, Answer, Goto
    <3>3. at = "lifttop"
      BY <1>15 DEF LiftTop
    <3>. QED
      BY <3>1, <3>2, <3>3
  <2>5. Stopping'
    <3>1. CASE /\ UNCHANGED <<outcome, exit, arm, stopFailed, normal, emergency, declaring>>
              /\ at' \in {"liftleave", "liftpublish"}
      BY <1>15, <3>1 DEF LiftTop
    <3>2. CASE at' = "liftleave" /\ Stopped' /\ (normal' => normal) /\ UNCHANGED emergency
      BY <3>2
    <3>. QED
      BY <1>15, <3>1, <3>2, StopsArm, StopThenFaultStopsArm DEF LiftTop, Answer, Goto, Calm
  <2>. QED
    BY <2>1, <2>2, <2>3, <2>4, <2>5
<1>16. CASE LiftPublishes
  <2>1. Names'
    BY <1>16 DEF LiftPublishes, Goto
  <2>2. Switches'
    BY <1>16 DEF LiftPublishes, Goto
  <2>3. Closing'
    BY <1>16 DEF LiftPublishes, Goto
  <2>4. Joining' /\ Lifting'
    BY <1>16 DEF LiftPublishes, Goto
  <2>5. Stopping'
    BY <1>16 DEF LiftPublishes, Goto
  <2>. QED
    BY <2>1, <2>2, <2>3, <2>4, <2>5
<1>17. CASE Raises(Lift \ {"lift"}, "liftleave")
  <2>1. Names'
    BY <1>17, StopsArm DEF Raises, Answer, Rest
  <2>2. Switches'
    BY <1>17, StopsArm DEF Raises, Answer, Rest
  <2>3. Closing'
    BY <1>17, StopsArm DEF Raises, Answer, Rest
  <2>4. Joining' /\ Lifting'
    BY <1>17, StopsArm DEF Raises, Answer, Rest
  <2>5. Stopping'
    BY <1>17, StopsArm DEF Raises, Answer, Rest
  <2>. QED
    BY <2>1, <2>2, <2>3, <2>4, <2>5
<1>18. CASE LeavesLift
  <2>1. Names'
    BY <1>18, StopsArm DEF LeavesLift, Answer, Goto, Calm
  <2>2. Switches'
    BY <1>18, StopsArm DEF LeavesLift, Answer, Goto, Calm
  <2>3. Closing'
    BY <1>18, StopsArm DEF LeavesLift, Answer, Goto, Calm
  <2>4. Joining' /\ Lifting'
    BY <1>18, StopsArm DEF LeavesLift, Answer, Goto, Calm
  <2>5. Stopping'
    BY <1>18, StopsArm DEF LeavesLift, Answer, Goto, Calm
  <2>. QED
    BY <2>1, <2>2, <2>3, <2>4, <2>5
<1>19. CASE CloseStep
  <2>1. Names'
    BY <1>19 DEF CloseStep, Close!Drive, Close!Settle, Close!End, Close!Honest
  <2>2. Switches'
    BY <1>19 DEF CloseStep, Close!Drive, Close!Settle, Close!End, Close!Honest
  <2>3. Closing'
    BY <1>19 DEF CloseStep, Close!Drive, Close!Settle, Close!End, Close!Honest
  <2>4. Joining' /\ Lifting'
    BY <1>19 DEF CloseStep, Close!Drive, Close!Settle, Close!End, Close!Honest
  <2>5. Stopping'
    BY <1>19 DEF CloseStep, Close!Drive, Close!Settle, Close!End, Close!Honest
  <2>. QED
    BY <2>1, <2>2, <2>3, <2>4, <2>5
<1>20. CASE WatchdogLooks \/ WatchdogFires \/ PetAges
  <2>1. Names'
    BY <1>20 DEF WatchdogLooks, WatchdogFires, PetAges
  <2>2. Switches'
    BY <1>20 DEF WatchdogLooks, WatchdogFires, PetAges
  <2>3. Closing'
    BY <1>20 DEF WatchdogLooks, WatchdogFires, PetAges
  <2>4. Joining' /\ Lifting'
    BY <1>20 DEF WatchdogLooks, WatchdogFires, PetAges
  <2>5. Stopping'
    BY <1>20 DEF WatchdogLooks, WatchdogFires, PetAges
  <2>. QED
    BY <2>1, <2>2, <2>3, <2>4, <2>5
<1>21. CASE CacheFilled \/ CacheAges
  <2>1. Names'
    BY <1>21 DEF CacheFilled, CacheAges
  <2>2. Switches'
    BY <1>21 DEF CacheFilled, CacheAges
  <2>3. Closing'
    BY <1>21 DEF CacheFilled, CacheAges
  <2>4. Joining' /\ Lifting'
    BY <1>21 DEF CacheFilled, CacheAges
  <2>5. Stopping'
    BY <1>21 DEF CacheFilled, CacheAges
  <2>. QED
    BY <2>1, <2>2, <2>3, <2>4, <2>5
<1>22. CASE CancelRequested \/ Recovered
  <2>1. Names'
    BY <1>22 DEF CancelRequested, Recovered
  <2>2. Switches'
    BY <1>22 DEF CancelRequested, Recovered
  <2>3. Closing'
    BY <1>22 DEF CancelRequested, Recovered
  <2>4. Joining' /\ Lifting'
    BY <1>22 DEF CancelRequested, Recovered
  <2>5. Stopping'
    BY <1>22 DEF CancelRequested, Recovered
  <2>. QED
    BY <2>1, <2>2, <2>3, <2>4, <2>5
<1>23. ASSUME NEW thread \in Declarers, FaultAssigned(thread) PROVE Settling'
  <2>1. Names'
    BY <1>23 DEF FaultAssigned
  <2>2. Switches'
    BY <1>23 DEF FaultAssigned
  <2>3. Closing'
    BY <1>23 DEF FaultAssigned
  <2>4. Joining' /\ Lifting'
    BY <1>23 DEF FaultAssigned
  <2>5. Stopping'
    BY <1>23 DEF FaultAssigned
  <2>. QED
    BY <2>1, <2>2, <2>3, <2>4, <2>5
<1>24. ASSUME NEW thread \in Declarers, FaultStops(thread) PROVE Settling'
  <2>1. Names'
    BY <1>24 DEF FaultStops, MoveStop
  <2>2. Switches'
    BY <1>24 DEF FaultStops, MoveStop
  <2>3. Closing'
    BY <1>24 DEF FaultStops, MoveStop
  <2>4. Joining' /\ Lifting'
    BY <1>24 DEF FaultStops, MoveStop
  <2>5. Stopping'
    BY <1>24 DEF FaultStops, MoveStop
  <2>. QED
    BY <2>1, <2>2, <2>3, <2>4, <2>5
<1>25. CASE Hangs
  <2>1. Names'
    BY <1>25 DEF Hangs
  <2>2. Switches'
    BY <1>25 DEF Hangs
  <2>3. Closing'
    BY <1>25 DEF Hangs
  <2>4. Joining' /\ Lifting'
    BY <1>25 DEF Hangs
  <2>5. Stopping'
    BY <1>25 DEF Hangs
  <2>. QED
    BY <2>1, <2>2, <2>3, <2>4, <2>5
<1>26. CASE UNCHANGED vars
  <2>1. Names'
    BY <1>26 DEF vars
  <2>2. Switches'
    BY <1>26 DEF vars
  <2>3. Closing'
    BY <1>26 DEF vars
  <2>4. Joining' /\ Lifting'
    BY <1>26 DEF vars
  <2>5. Stopping'
    BY <1>26 DEF vars
  <2>. QED
    BY <2>1, <2>2, <2>3, <2>4, <2>5
<1>. QED
  BY <1>1, <1>2, <1>3, <1>4, <1>5, <1>6, <1>7, <1>8, <1>9,
     <1>10, <1>11, <1>12, <1>13, <1>14, <1>15, <1>16, <1>17,
     <1>18, <1>19, <1>20, <1>21, <1>22, <1>23, <1>24, <1>25, <1>26 DEF Next, GoalStep

\* The variables of a tracking goal, of its threads and of the watchdog keep their types.
THEOREM TrackingTypeCorrect == Spec => []TypeOK
<1>1. Settling /\ [Next]_vars => Settling'
  BY StepSettles
<1>2. Settling => TypeOK
  BY Typed DEF Settling
<1>. QED
  BY SettlingInit, <1>1, <1>2, PTL DEF Spec

\* The arm rests when a goal is over, unless its MoveStop failed or it took one of the two
\* exits that send none, once the other threads that declare a fault have sent theirs: also
\* when the goal's own FAULT was dropped below an EMERGENCY_STOP.
THEOREM GoalsLeaveArmStill == Spec => []GoalLeavesArmStill
<1>1. Settling /\ [Next]_vars => Settling'
  BY StepSettles
<1>2. Settling => GoalLeavesArmStill
  BY DEF Settling, Stopping, Resting, Stopped, GoalLeavesArmStill
<1>. QED
  BY SettlingInit, <1>1, <1>2, PTL DEF Spec

\* A goal that is over has no closing thread left, and a pick that succeeds closed once.
THEOREM GraspsSettle == Spec => []GraspSettled
<1>1. Settling /\ [Next]_vars => Settling'
  BY StepSettles
<1>2. Settling => GraspSettled
  BY DEF Settling, Closing, Joining, Gripped, Lifting, GraspSettled
<1>. QED
  BY SettlingInit, <1>1, <1>2, PTL DEF Spec

=============================================================================

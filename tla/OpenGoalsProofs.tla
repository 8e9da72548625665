-------------------------- MODULE OpenGoalsProofs ---------------------------
(***************************************************************************)
(* For any number of pull samples: the gripper opens only when it may, and *)
(* a goal that is over has left the arm at rest and stiff.                 *)
(***************************************************************************)
EXTENDS OpenGoals, TLAPS

USE DEF Status, Places, Open!CommandTypeOK

\* The types in three parts: what is counted, what is named, and what is on or off.
Numbers == count \in 0..PullSamples /\ pulls \in 0..PullSamples /\ below \in 0..ResetBelow-1

Names ==
  /\ goal \in {"home", "pose", "release", "hold"} /\ at \in Places
  /\ outcome \in {"ABORT", "CANCELED", "ARRIVED", "FAULT"}
  /\ gripper \in {"rest", "moving"} /\ call \in Status \cup {"idle", "running"}
  /\ arm \in {"still", "moving"}

Switches ==
  /\ cancel \in BOOLEAN /\ normal \in BOOLEAN /\ declaring \in BOOLEAN
  /\ quiet \in BOOLEAN /\ compliance \in BOOLEAN /\ owed \in BOOLEAN
  /\ sample \in [new : BOOLEAN, fresh : BOOLEAN, pull : BOOLEAN]
  /\ suspended \in BOOLEAN /\ triggered \in BOOLEAN /\ contact \in BOOLEAN

LEMMA Typed == TypeOK <=> Numbers /\ Names /\ Switches
  BY DEF TypeOK, Numbers, Names, Switches

\* Which goal can be where; only an "opening" waits for the gripper.
Placed ==
  /\ at \in {"enable", "suspend", "waiting", "pulled", "cleanup"} => goal = "hold"
  /\ at \in {"open", "move", "moving", "moved"} => goal # "hold"
  /\ call = "running" => at = "opening"
  /\ suspended => goal = "hold" /\ at \in {"waiting", "pulled", "opening", "cleanup"}

\* A sample counts at most once: one not yet counted is already among the pulls.
Counting ==
  /\ at = "waiting" => /\ count <= pulls /\ count < PullSamples
                       /\ sample.new /\ sample.pull => count < pulls
  /\ at = "pulled" => pulls = PullSamples
  /\ goal = "hold" /\ at = "opening" => pulls = PullSamples /\ ~compliance

\* A hold has no answer before its cleanup, and each answer its reason.
Answering ==
  /\ goal = "hold" /\ at \notin {"cleanup", "over"} => outcome = "ABORT"
  /\ at \in {"move", "moving"} /\ goal = "release" => call = "SUCCESS"
  /\ at \in {"cleanup", "over"} /\ goal = "hold" /\ outcome = "ARRIVED" => call = "SUCCESS"

\* As long as every stop and release worked, only the move moves the arm, and compliance
\* is owed a release.
Quiet ==
  quiet => /\ at # "moving" => arm = "still"
           /\ compliance => owed

Owing == owed => goal = "hold" /\ at \in {"suspend", "waiting", "pulled", "cleanup"}

Keeping == Numbers /\ Names /\ Switches /\ Placed /\ Counting /\ Answering /\ Quiet /\ Owing

LEMMA KeepingInit == Init => Keeping
<1> SUFFICES ASSUME Init PROVE Keeping
  OBVIOUS
<1>1. count \in 0..PullSamples /\ pulls \in 0..PullSamples /\ below \in 0..ResetBelow-1
  BY SamplesAssumption DEF Init
<1>2. Numbers /\ Names /\ Switches
  BY <1>1 DEF Init, Numbers, Names, Switches, Open!CommandInit, NoSample
<1>3. Placed /\ Counting /\ Answering /\ Quiet /\ Owing
  BY DEF Init, Placed, Counting, Answering, Quiet, Owing, Open!CommandInit, NoSample
<1>. QED
  BY <1>2, <1>3 DEF Keeping

(***************************************************************************)
(* Every step keeps the invariant.                                         *)
(***************************************************************************)
LEMMA StepKeeps == ASSUME Keeping, [Next]_vars PROVE Keeping'
<1> USE SamplesAssumption DEF Keeping, Numbers, Names, Switches, Placed, Counting, Answering, Quiet, Owing,
      goalVars, safetyVars, gripperVars, motionVars, holdVars, sampleVars, monitorVars
<1>1. ASSUME NEW g \in {"home", "pose", "release", "hold"}, StartGoal(g) PROVE Keeping'
  <2>1. Numbers'
    BY <1>1 DEF StartGoal
  <2>2. Names'
    BY <1>1 DEF StartGoal
  <2>3. Switches'
    BY <1>1 DEF StartGoal
  <2>4. Placed' /\ Answering'
    BY <1>1 DEF StartGoal
  <2>5. Counting'
    BY <1>1 DEF StartGoal
  <2>6. Quiet' /\ Owing'
    BY <1>1 DEF StartGoal
  <2>. QED
    BY <2>1, <2>2, <2>3, <2>4, <2>5, <2>6
<1>2. CASE OpensBeforeMove
  <2>1. Numbers'
    BY <1>2 DEF OpensBeforeMove, Goto, Answer, End, Open!Begin
  <2>2. Names'
    BY <1>2 DEF OpensBeforeMove, Goto, Answer, End, Open!Begin
  <2>3. Switches'
    BY <1>2 DEF OpensBeforeMove, Goto, Answer, End, Open!Begin
  <2>4. Placed' /\ Answering'
    BY <1>2 DEF OpensBeforeMove, Goto, Answer, End, Open!Begin
  <2>5. Counting'
    BY <1>2 DEF OpensBeforeMove, Goto, Answer, End, Open!Begin
  <2>6. Quiet' /\ Owing'
    BY <1>2 DEF OpensBeforeMove, Goto, Answer, End, Open!Begin
  <2>. QED
    BY <2>1, <2>2, <2>3, <2>4, <2>5, <2>6
<1>3. CASE OpenEnds
  <2>1. Numbers'
    BY <1>3 DEF OpenEnds, Goto, Answer, End, Calm, DeclareFault, MoveStop, Noting
  <2>2. Names'
    BY <1>3 DEF OpenEnds, Goto, Answer, End, Calm, DeclareFault, MoveStop, Noting
  <2>3. Switches'
    <3>1. UNCHANGED <<cancel, declaring, compliance, owed, sample, suspended, triggered, contact>>
      BY <1>3 DEF OpenEnds, Calm, DeclareFault
    <3>2. normal' \in BOOLEAN /\ quiet' \in BOOLEAN
      BY <1>3 DEF OpenEnds, Calm, DeclareFault, Noting
    <3>. QED
      BY <3>1, <3>2
  <2>4. Placed' /\ Answering'
    BY <1>3 DEF OpenEnds, Goto, Answer, End, Calm, DeclareFault, MoveStop, Noting
  <2>5. Counting'
    BY <1>3 DEF OpenEnds, Goto, Answer, End, Calm, DeclareFault, MoveStop, Noting
  <2>6. Quiet' /\ Owing'
    BY <1>3 DEF OpenEnds, Goto, Answer, End, Calm, DeclareFault, MoveStop, Noting
  <2>. QED
    BY <2>1, <2>2, <2>3, <2>4, <2>5, <2>6
<1>4. CASE SendsMove
  <2>1. Numbers'
    BY <1>4 DEF SendsMove, Goto
  <2>2. Names'
    BY <1>4 DEF SendsMove, Goto
  <2>3. Switches'
    BY <1>4 DEF SendsMove, Goto
  <2>4. Placed' /\ Answering'
    BY <1>4 DEF SendsMove, Goto
  <2>5. Counting'
    BY <1>4 DEF SendsMove, Goto
  <2>6. Quiet' /\ Owing'
    BY <1>4 DEF SendsMove, Goto
  <2>. QED
    BY <2>1, <2>2, <2>3, <2>4, <2>5, <2>6
<1>5. CASE MoveAnswered
  <2>1. Numbers'
    BY <1>5 DEF MoveAnswered, Goto, Answer, End
  <2>2. Names'
    BY <1>5 DEF MoveAnswered, Goto, Answer, End
  <2>3. Switches'
    BY <1>5 DEF MoveAnswered, Goto, Answer, End
  <2>4. Placed' /\ Answering'
    BY <1>5 DEF MoveAnswered, Goto, Answer, End
  <2>5. Counting'
    BY <1>5 DEF MoveAnswered, Goto, Answer, End
  <2>6. Quiet' /\ Owing'
    BY <1>5 DEF MoveAnswered, Goto, Answer, End
  <2>. QED
    BY <2>1, <2>2, <2>3, <2>4, <2>5, <2>6
<1>6. CASE BreaksMove
  <2>1. Numbers'
    BY <1>6 DEF BreaksMove, Goto, MoveStop, Noting
  <2>2. Names'
    BY <1>6 DEF BreaksMove, Goto, MoveStop, Noting
  <2>3. Switches'
    BY <1>6 DEF BreaksMove, Goto, MoveStop, Noting
  <2>4. Placed' /\ Answering'
    BY <1>6 DEF BreaksMove, Goto, MoveStop, Noting
  <2>5. Counting'
    BY <1>6 DEF BreaksMove, Goto, MoveStop, Noting
  <2>6. Quiet' /\ Owing'
    BY <1>6 DEF BreaksMove, Goto, MoveStop, Noting
  <2>. QED
    BY <2>1, <2>2, <2>3, <2>4, <2>5, <2>6
<1>7. CASE MoveFailed \/ MoveRaises
  <2>1. Numbers'
    BY <1>7 DEF MoveFailed, MoveRaises, Answer, End, Calm
  <2>2. Names'
    BY <1>7 DEF MoveFailed, MoveRaises, Answer, End, Calm
  <2>3. Switches'
    BY <1>7 DEF MoveFailed, MoveRaises, Answer, End, Calm
  <2>4. Placed' /\ Answering'
    BY <1>7 DEF MoveFailed, MoveRaises, Answer, End, Calm
  <2>5. Counting'
    BY <1>7 DEF MoveFailed, MoveRaises, Answer, End, Calm
  <2>6. Quiet' /\ Owing'
    BY <1>7 DEF MoveFailed, MoveRaises, Answer, End, Calm
  <2>. QED
    BY <2>1, <2>2, <2>3, <2>4, <2>5, <2>6
<1>8. CASE EnablesCompliance
  <2>1. Numbers'
    BY <1>8 DEF EnablesCompliance, Goto, Answer, End, MoveStop
  <2>2. Names'
    BY <1>8 DEF EnablesCompliance, Goto, Answer, End, MoveStop
  <2>3. Switches'
    BY <1>8 DEF EnablesCompliance, Goto, Answer, End, MoveStop
  <2>4. Placed' /\ Answering'
    BY <1>8 DEF EnablesCompliance, Goto, Answer, End, MoveStop
  <2>5. Counting'
    BY <1>8 DEF EnablesCompliance, Goto, Answer, End, MoveStop
  <2>6. Quiet' /\ Owing'
    <3>1. CASE compliance' = TRUE /\ owed' = TRUE /\ Goto("suspend") /\ UNCHANGED motionVars
      BY <1>8, <3>1 DEF EnablesCompliance, Goto
    <3>2. CASE quiet' = FALSE /\ UNCHANGED owed
      BY <1>8, <3>2 DEF EnablesCompliance
    <3>. QED
      BY <1>8, <3>1, <3>2 DEF EnablesCompliance
  <2>. QED
    BY <2>1, <2>2, <2>3, <2>4, <2>5, <2>6
<1>9. CASE SuspendsMonitor
  <2>1. Numbers'
    BY <1>9 DEF SuspendsMonitor, Goto, Calm, NoSample
  <2>2. Names'
    BY <1>9 DEF SuspendsMonitor, Goto, Calm, NoSample
  <2>3. Switches'
    BY <1>9 DEF SuspendsMonitor, Goto, Calm, NoSample
  <2>4. Placed' /\ Answering'
    BY <1>9 DEF SuspendsMonitor, Goto, Calm, NoSample
  <2>5. Counting'
    BY <1>9 DEF SuspendsMonitor, Goto, Calm, NoSample
  <2>6. Quiet' /\ Owing'
    BY <1>9 DEF SuspendsMonitor, Goto, Calm, NoSample
  <2>. QED
    BY <2>1, <2>2, <2>3, <2>4, <2>5, <2>6
<1>10. CASE CountsSample
  <2>1. Numbers'
    BY <1>10 DEF CountsSample, Goto, Calm
  <2>2. Names'
    BY <1>10 DEF CountsSample, Goto, Calm
  <2>3. Switches'
    BY <1>10 DEF CountsSample, Goto, Calm
  <2>4. Placed' /\ Answering'
    BY <1>10 DEF CountsSample, Goto, Calm
  <2>5. Counting'
    BY <1>10 DEF CountsSample, Goto, Calm
  <2>6. Quiet' /\ Owing'
    BY <1>10 DEF CountsSample, Goto, Calm
  <2>. QED
    BY <2>1, <2>2, <2>3, <2>4, <2>5, <2>6
<1>11. CASE WaitInterrupted
  <2>1. Numbers'
    BY <1>11 DEF WaitInterrupted, Answer, End, MoveStop, Release, Noting
  <2>2. Names'
    BY <1>11 DEF WaitInterrupted, Answer, End, MoveStop, Release, Noting
  <2>3. Switches'
    <3>1. normal' \in BOOLEAN /\ quiet' \in BOOLEAN /\ owed' \in BOOLEAN
      BY <1>11 DEF WaitInterrupted, Noting
    <3>2. compliance' \in BOOLEAN
      BY <1>11 DEF WaitInterrupted, Release
    <3>. QED
      BY <1>11, <3>1, <3>2 DEF WaitInterrupted
  <2>4. Placed' /\ Answering'
    BY <1>11 DEF WaitInterrupted, Answer, End, MoveStop, Release, Noting
  <2>5. Counting'
    BY <1>11 DEF WaitInterrupted, Answer, End, MoveStop, Release, Noting
  <2>6. Quiet' /\ Owing'
    <3>1. Owing'
      BY <1>11 DEF WaitInterrupted, Answer, End
    <3>2. at' # "moving" /\ (quiet' => quiet) /\ (quiet' => arm' = "still")
      BY <1>11 DEF WaitInterrupted, Answer, End, MoveStop, Release, Noting
    <3>3. quiet' => (compliance' => owed')
      BY <1>11, <3>2 DEF WaitInterrupted, Release
    <3>. QED
      BY <3>1, <3>2, <3>3
  <2>. QED
    BY <2>1, <2>2, <2>3, <2>4, <2>5, <2>6
<1>12. CASE Pulled
  <2>1. Numbers'
    BY <1>12 DEF Pulled, Release, MoveStop, Noting, Answer, End, Calm, Goto, Open!Begin
  <2>2. Names'
    BY <1>12 DEF Pulled, Release, MoveStop, Noting, Answer, End, Calm, Goto, Open!Begin
  <2>3. Switches'
    BY <1>12 DEF Pulled, Release, MoveStop, Noting, Answer, End, Calm, Goto, Open!Begin
  <2>4. Placed' /\ Answering'
    BY <1>12 DEF Pulled, Release, MoveStop, Noting, Answer, End, Calm, Goto, Open!Begin
  <2>5. Counting'
    BY <1>12 DEF Pulled, Release, MoveStop, Noting, Answer, End, Calm, Goto, Open!Begin
  <2>6. Quiet' /\ Owing'
    <3>1. Owing'
      BY <1>12 DEF Pulled
    <3>2. at' # "moving" /\ (quiet' => arm' = "still")
      BY <1>12 DEF Pulled, Release, MoveStop, Noting, Answer, End, Calm, Goto, Open!Begin
    <3>3. quiet' => ~compliance'
      BY <1>12 DEF Pulled, Release
    <3>. QED
      BY <3>1, <3>2, <3>3
  <2>. QED
    BY <2>1, <2>2, <2>3, <2>4, <2>5, <2>6
<1>13. CASE CleansUp
  <2>1. Numbers'
    BY <1>13 DEF CleansUp, Release, Noting, NoSample
  <2>2. Names'
    BY <1>13 DEF CleansUp, Release, Noting, NoSample
  <2>3. Switches'
    BY <1>13 DEF CleansUp, Release, Noting, NoSample
  <2>4. Placed' /\ Answering'
    BY <1>13 DEF CleansUp, Release, Noting, NoSample
  <2>5. Counting'
    BY <1>13 DEF CleansUp, Release, Noting, NoSample
  <2>6. Quiet' /\ Owing'
    BY <1>13 DEF CleansUp, Release, Noting, NoSample
  <2>. QED
    BY <2>1, <2>2, <2>3, <2>4, <2>5, <2>6
<1>14. CASE OpenStep
  <2>1. Numbers'
    BY <1>14 DEF OpenStep, Open!Drive, Open!Settle, Open!End
  <2>2. Names'
    BY <1>14 DEF OpenStep, Open!Drive, Open!Settle, Open!End
  <2>3. Switches'
    BY <1>14 DEF OpenStep, Open!Drive, Open!Settle, Open!End
  <2>4. Placed' /\ Answering'
    BY <1>14 DEF OpenStep, Open!Drive, Open!Settle, Open!End
  <2>5. Counting'
    BY <1>14 DEF OpenStep, Open!Drive, Open!Settle, Open!End
  <2>6. Quiet' /\ Owing'
    BY <1>14 DEF OpenStep, Open!Drive, Open!Settle, Open!End
  <2>. QED
    BY <2>1, <2>2, <2>3, <2>4, <2>5, <2>6
<1>15. CASE SampleTaken \/ SampleAges
  <2>1. Numbers'
    BY <1>15 DEF SampleTaken, SampleAges
  <2>2. Names'
    BY <1>15 DEF SampleTaken, SampleAges
  <2>3. Switches'
    <3>1. CASE SampleTaken
      BY <3>1 DEF SampleTaken
    <3>2. CASE SampleAges
      BY <3>2 DEF SampleAges
    <3>. QED
      BY <1>15, <3>1, <3>2
  <2>4. Placed' /\ Answering'
    BY <1>15 DEF SampleTaken, SampleAges
  <2>5. Counting'
    BY <1>15 DEF SampleTaken, SampleAges
  <2>6. Quiet' /\ Owing'
    BY <1>15 DEF SampleTaken, SampleAges
  <2>. QED
    BY <2>1, <2>2, <2>3, <2>4, <2>5, <2>6
<1>16. CASE MonitorReads
  <2>1. Numbers'
    BY <1>16 DEF MonitorReads
  <2>2. Names'
    BY <1>16 DEF MonitorReads
  <2>3. Switches'
    BY <1>16 DEF MonitorReads
  <2>4. Placed' /\ Answering'
    BY <1>16 DEF MonitorReads
  <2>5. Counting'
    BY <1>16 DEF MonitorReads
  <2>6. Quiet' /\ Owing'
    BY <1>16 DEF MonitorReads
  <2>. QED
    BY <2>1, <2>2, <2>3, <2>4, <2>5, <2>6
<1>17. CASE FaultStops
  <2>1. Numbers'
    BY <1>17 DEF FaultStops, MoveStop, Noting
  <2>2. Names'
    BY <1>17 DEF FaultStops, MoveStop, Noting
  <2>3. Switches'
    BY <1>17 DEF FaultStops, MoveStop, Noting
  <2>4. Placed' /\ Answering'
    BY <1>17 DEF FaultStops, MoveStop, Noting
  <2>5. Counting'
    BY <1>17 DEF FaultStops, MoveStop, Noting
  <2>6. Quiet' /\ Owing'
    BY <1>17 DEF FaultStops, MoveStop, Noting
  <2>. QED
    BY <2>1, <2>2, <2>3, <2>4, <2>5, <2>6
<1>18. CASE ContactChanges \/ CancelRequested \/ Recovered
  <2>1. Numbers'
    BY <1>18 DEF ContactChanges, CancelRequested, Recovered
  <2>2. Names'
    BY <1>18 DEF ContactChanges, CancelRequested, Recovered
  <2>3. Switches'
    BY <1>18 DEF ContactChanges, CancelRequested, Recovered
  <2>4. Placed' /\ Answering'
    BY <1>18 DEF ContactChanges, CancelRequested, Recovered
  <2>5. Counting'
    BY <1>18 DEF ContactChanges, CancelRequested, Recovered
  <2>6. Quiet' /\ Owing'
    BY <1>18 DEF ContactChanges, CancelRequested, Recovered
  <2>. QED
    BY <2>1, <2>2, <2>3, <2>4, <2>5, <2>6
<1>19. CASE UNCHANGED vars
  <2>1. Numbers'
    BY <1>19 DEF vars
  <2>2. Names'
    BY <1>19 DEF vars
  <2>3. Switches'
    BY <1>19 DEF vars
  <2>4. Placed' /\ Answering'
    BY <1>19 DEF vars
  <2>5. Counting'
    BY <1>19 DEF vars
  <2>6. Quiet' /\ Owing'
    BY <1>19 DEF vars
  <2>. QED
    BY <2>1, <2>2, <2>3, <2>4, <2>5, <2>6
<1>. QED
  BY <1>1, <1>2, <1>3, <1>4, <1>5, <1>6, <1>7, <1>8, <1>9, <1>10,
     <1>11, <1>12, <1>13, <1>14, <1>15, <1>16, <1>17, <1>18, <1>19 DEF Next, GoalStep

\* The variables of the opening goals and of the force monitor keep their types.
THEOREM OpenGoalsTypeCorrect == Spec => []TypeOK
<1>1. Keeping /\ [Next]_vars => Keeping'
  BY StepKeeps
<1>2. Keeping => TypeOK
  BY Typed DEF Keeping
<1>. QED
  BY KeepingInit, <1>1, <1>2, PTL DEF Spec

\* The gripper opens only for enough pulls of this hold, on a stiff arm, and a release moves
\* only with an open gripper.
THEOREM OpensOnlyAsPromised == Spec => []OpensAsPromised
<1>1. Keeping /\ [Next]_vars => Keeping'
  BY StepKeeps
<1>2. Keeping => OpensAsPromised
  BY DEF Keeping, Placed, Counting, Answering, OpensAsPromised
<1>. QED
  BY KeepingInit, <1>1, <1>2, PTL DEF Spec

\* When a goal is over the arm is still and stiff, if every stop and release worked, and the
\* force monitor watches.
THEOREM GoalsLeaveArmSafe == Spec => []GoalLeavesArmSafe
<1>1. Keeping /\ [Next]_vars => Keeping'
  BY StepKeeps
<1>2. Keeping => GoalLeavesArmSafe
  BY DEF Keeping, Placed, Quiet, Owing, GoalLeavesArmSafe
<1>. QED
  BY KeepingInit, <1>1, <1>2, PTL DEF Spec

=============================================================================

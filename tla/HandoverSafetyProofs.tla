------------------------ MODULE HandoverSafetyProofs ------------------------
(***************************************************************************)
(* For any number of poll threads, recover calls and goals, task_manager   *)
(* learns of every fault of robot_control, and no recovery hides one.      *)
(***************************************************************************)
EXTENDS HandoverSafety, TLAPS

USE DEF Manager!Fault, Manager!Level, None, SafetyState, FaultState

\* Word of robot_control's fault is on its way, or there is nothing to tell.
Announced == safety = "NORMAL" \/ ToPublish # {} \/ faults # <<>>

\* task_manager's own bookkeeping: a call is counted while the recovery is "calling".
Bookkeeping ==
  /\ Manager!RecoversOnlyAtRest
  /\ Manager!StoppedMeansCancelling
  /\ called # None => recovery = "calling"

\* A "yes" that still counts was given when nothing was left to tell, and every fault
\* declared since is announced.
AnswerCounts == called # None /\ recover[called] = "yes" => Announced

Knowing == TypeOK /\ Bookkeeping /\ AnswerCounts /\ ManagerKnows

(***************************************************************************)
(* robot_control's steps keep the types.                                   *)
(***************************************************************************)
LEMMA RobotTyped == RobotTypeOK /\ RobotNext => RobotTypeOK'
<1> SUFFICES ASSUME RobotTypeOK, RobotNext PROVE RobotTypeOK'
  OBVIOUS
<1> USE DEF RobotTypeOK
<1>1. ASSUME NEW t \in Thread, AssignFault(t) PROVE RobotTypeOK'
  BY <1>1 DEF AssignFault, Declaring
<1>2. ASSUME NEW t \in Thread, PublishFault(t) PROVE RobotTypeOK'
  BY <1>2 DEF PublishFault, Declaring, Idle, Reason
<1>3. ASSUME NEW p \in Pollers, PollReads(p) PROVE RobotTypeOK'
  BY <1>3 DEF PollReads
<1>4. ASSUME NEW p \in Pollers, PollJudges(p) PROVE RobotTypeOK'
  <2>1. /\ polled[p] \in RobotState
        /\ polled' = [polled EXCEPT ![p] = None]
        /\ UNCHANGED <<robot, safety, lastReason, recover, reserved, goal, faults>>
    BY <1>4 DEF PollJudges
  <2>2. declaring' \in [Thread -> Declaring]
    <3>1. ASSUME NEW lvl \in FaultOf(polled[p]), Declare(p, lvl, polled[p])
          PROVE declaring' \in [Thread -> Declaring]
      <4>1. lvl \in FaultState /\ polled[p] \in Reason /\ p \in Thread
        BY <2>1, <3>1 DEF FaultOf, Reason, Thread, RobotState, SafeStops
      <4>. QED
        BY <3>1, <4>1 DEF Declare, Declaring
    <3>. QED
      BY <1>4, <3>1 DEF PollJudges
  <2>. QED
    BY <2>1, <2>2
<1>5. CASE DrflTriggers
  BY <1>5 DEF DrflTriggers, Declare, Declaring, Reason, Thread
<1>6. ASSUME NEW g \in Goals, GoalSteps(g) PROVE RobotTypeOK'
  <2>1. CASE AdmitGoal(g)
    BY <2>1 DEF AdmitGoal, GoalStep
  <2>2. CASE ReserveGoal(g)
    BY <2>2 DEF ReserveGoal, GoalStep
  <2>3. CASE GoalFails(g)
    BY <2>3 DEF GoalFails, Declare, Declaring, Reason, Thread
  <2>4. CASE FinishGoal(g)
    BY <2>4 DEF FinishGoal, GoalStep
  <2>. QED
    BY <1>6, <2>1, <2>2, <2>3, <2>4 DEF GoalSteps
<1>7. ASSUME NEW r \in Recoverers, RecoverSteps(r) PROVE RobotTypeOK'
  <2>1. CASE RecoverBegins(r)
    BY <2>1 DEF RecoverBegins, RecoverMoves, RecoverStep
  <2>2. CASE RecoverReads(r)
    BY <2>2 DEF RecoverReads, RecoverMoves, RecoverStep
  <2>3. CASE RecoverControls(r)
    BY <2>3 DEF RecoverControls, RecoverMoves, RecoverStep, RobotState
  <2>4. CASE RecoverGrants(r)
    BY <2>4 DEF RecoverGrants, RecoverMoves, RecoverStep
  <2>. QED
    BY <1>7, <2>1, <2>2, <2>3, <2>4 DEF RecoverSteps
<1>8. CASE RobotChanges
  BY <1>8, ThreadsAssumption DEF RobotChanges
<1>. QED
  BY <1>1, <1>2, <1>3, <1>4, <1>5, <1>6, <1>7, <1>8 DEF RobotNext, DeclareStep

(***************************************************************************)
(* task_manager's steps: each is a step of the supervisor, and keeps what  *)
(* it shares with robot_control in its ranges.                             *)
(***************************************************************************)
LEMMA SupervisorStep ==
  ASSUME Manager!TypeOK, Manager!RecoversOnlyAtRest, Manager!StoppedMeansCancelling,
         Manager!Next
  PROVE  Manager!TypeOK' /\ Manager!RecoversOnlyAtRest' /\ Manager!StoppedMeansCancelling'
<1> USE DEF Manager!TypeOK, Manager!RecoversOnlyAtRest, Manager!StoppedMeansCancelling
<1>1. CASE Manager!Start \/ Manager!Accept \/ Manager!Finish
  BY <1>1 DEF Manager!Start, Manager!Accept, Manager!Finish
<1>2. CASE Manager!Cancel \/ Manager!CancelConfirmed \/ Manager!CancelTimeout
  BY <1>2 DEF Manager!Cancel, Manager!CancelConfirmed, Manager!CancelTimeout
<1>3. CASE Manager!RaiseFault \/ Manager!LoseGoal
  BY <1>3 DEF Manager!RaiseFault, Manager!LoseGoal
<1>4. CASE Manager!Reset \/ Manager!RecoveryEnds
  BY <1>4 DEF Manager!Reset, Manager!RecoveryEnds
<1>. QED
  BY <1>1, <1>2, <1>3, <1>4 DEF Manager!Next

\* What a step of task_manager does to the calls of /robot/recover: the one it counts is
\* the one it asked for last, and a new one has no answer yet.
LEMMA CallsTyped ==
  ASSUME TypeOK, Bookkeeping, CallsRecover
  PROVE  /\ recover' \in [Recoverers -> RecoverStep]
         /\ called' \in Recoverers \cup {None}
         /\ called' # None => recovery' = "calling"
         /\ called' # None /\ recover'[called'] = "yes"
              => called' = called /\ recover[called] = "yes"
<1> USE ThreadsAssumption DEF TypeOK, RobotTypeOK, Bookkeeping
<1>1. CASE recovery' # "calling"
  BY <1>1 DEF CallsRecover
<1>2. CASE recovery' = "calling" /\ recovery = "calling"
  BY <1>2 DEF CallsRecover
<1>3. CASE recovery' = "calling" /\ recovery # "calling"
  BY <1>3 DEF CallsRecover, RecoverStep
<1>. QED
  BY <1>1, <1>2, <1>3

\* A step of task_manager that does not take anything from the topic.
Quiet ==
  /\ Manager!Next \/ UNCHANGED managerVars
  /\ recover' \in [Recoverers -> RecoverStep]
  /\ called' \in Recoverers \cup {None}
  /\ mine' \in Goals \cup {None}
  /\ goal' \in [Goals -> GoalStep]
  /\ UNCHANGED <<robotOnly, faults>>
  /\ called' # None => recovery' = "calling"
  /\ called' # None /\ recover'[called'] = "yes"
       => called' = called /\ recover[called] = "yes"
  /\ level' = "NORMAL" => level = "NORMAL" \/ Announced

LEMMA GoalStepsQuiet ==
  ASSUME TypeOK, Bookkeeping, NEW g \in Goals,
         SendGoal(g) \/ DropReply(g) \/ GoalRefused(g) \/ GoalAccepted(g) \/ GoalEnds(g)
  PROVE  Quiet
<1> USE DEF TypeOK, RobotTypeOK, GoalStep
<1>1. CASE SendGoal(g)
  BY <1>1 DEF SendGoal, Quiet, robotOnly, Manager!Next, Manager!Start, Bookkeeping
<1>2. CASE DropReply(g)
  BY <1>2 DEF DropReply, Quiet, robotOnly, managerVars, Bookkeeping
<1>3. CASE GoalRefused(g)
  <2>1. CallsRecover /\ (Manager!Finish \/ Manager!CancelConfirmed)
    BY <1>3 DEF GoalRefused
  <2>2. level' = "NORMAL" => level = "NORMAL"
    BY <2>1 DEF Manager!Finish, Manager!CancelConfirmed
  <2>. QED
    BY <1>3, <2>1, <2>2, CallsTyped DEF GoalRefused, Quiet, robotOnly, Manager!Next
<1>4. CASE GoalAccepted(g)
  <2>1. CallsRecover /\ Manager!Accept
    BY <1>4 DEF GoalAccepted, ManagerAlone
  <2>2. level' = level
    BY <2>1 DEF Manager!Accept
  <2>. QED
    BY <1>4, <2>1, <2>2, CallsTyped DEF GoalAccepted, ManagerAlone, Quiet, robotOnly, Manager!Next
<1>5. CASE GoalEnds(g)
  <2>1. CallsRecover /\ (Manager!Finish \/ Manager!CancelConfirmed)
    BY <1>5 DEF GoalEnds
  <2>2. level' = "NORMAL" => level = "NORMAL"
    BY <2>1 DEF Manager!Finish, Manager!CancelConfirmed
  <2>3. mine' \in Goals \cup {None} /\ goal' \in [Goals -> GoalStep]
    BY <1>5 DEF GoalEnds
  <2>. QED
    BY <1>5, <2>1, <2>2, <2>3, CallsTyped DEF GoalEnds, Quiet, robotOnly, Manager!Next
<1>. QED
  BY <1>1, <1>2, <1>3, <1>4, <1>5

LEMMA DecisionsQuiet ==
  ASSUME TypeOK, Bookkeeping, ManagerDecides \/ RecoveryTimesOut
  PROVE  Quiet
<1> DEFINE Decision == \/ Manager!Cancel \/ Manager!CancelTimeout \/ Manager!Reset
                       \/ Manager!RaiseFault \/ Manager!LoseGoal \/ Manager!RecoveryEnds
<1>1. CallsRecover /\ Decision
  BY DEF ManagerDecides, RecoveryTimesOut, ManagerAlone
<1>2. level' = "NORMAL" => level = "NORMAL"
  BY <1>1 DEF ManagerDecides, RecoveryTimesOut, ManagerAlone, Manager!Cancel,
    Manager!CancelTimeout, Manager!Reset, Manager!RaiseFault, Manager!LoseGoal
<1>3. Manager!Next
  BY <1>1 DEF Manager!Next
<1>. QED
  BY <1>1, <1>2, <1>3, CallsTyped DEF ManagerDecides, RecoveryTimesOut, ManagerAlone,
    Quiet, robotOnly, TypeOK, RobotTypeOK

LEMMA AnswerQuiet ==
  ASSUME TypeOK, Bookkeeping, AnswerCounts, NEW r \in Recoverers, ReadRecoverAnswer(r)
  PROVE  Quiet
<1> USE DEF TypeOK, RobotTypeOK, RecoverStep, ReadRecoverAnswer, Quiet, robotOnly, managerVars
<1>1. CASE r = called
  BY <1>1, ThreadsAssumption DEF AnswerCounts, Manager!Next, Manager!RecoveryEnds
<1>2. CASE r # called
  BY <1>2, ThreadsAssumption DEF Bookkeeping
<1>. QED
  BY <1>1, <1>2

\* Such a step keeps everything: what was announced still is.
LEMMA QuietStep == Knowing /\ Quiet => Knowing'
<1> SUFFICES ASSUME Knowing, Quiet PROVE Knowing'
  OBVIOUS
<1>1. Announced' <=> Announced
  BY DEF Quiet, robotOnly, Announced, ToPublish
<1>2. Manager!TypeOK' /\ Manager!RecoversOnlyAtRest' /\ Manager!StoppedMeansCancelling'
  <2>1. CASE UNCHANGED managerVars
    BY <2>1 DEF managerVars, Knowing, TypeOK, Bookkeeping, Manager!TypeOK,
      Manager!RecoversOnlyAtRest, Manager!StoppedMeansCancelling
  <2>. QED
    BY <2>1, SupervisorStep DEF Quiet, Knowing, TypeOK, Bookkeeping
<1>3. TypeOK'
  BY <1>2 DEF Quiet, robotOnly, Knowing, TypeOK, RobotTypeOK
<1>4. Bookkeeping' /\ AnswerCounts'
  BY <1>1, <1>2 DEF Quiet, Knowing, Bookkeeping, AnswerCounts
<1>5. ManagerKnows'
  BY <1>1 DEF Quiet, robotOnly, Knowing, ManagerKnows, Announced
<1>. QED
  BY <1>3, <1>4, <1>5 DEF Knowing

\* A message is taken from the topic only by a task_manager that is, or then is, away from
\* NORMAL, and in neither case does it count an answer.
LEMMA FaultRead == Knowing /\ ReadFault => Knowing'
<1> SUFFICES ASSUME Knowing, ReadFault PROVE Knowing'
  OBVIOUS
<1>0. faults # <<>> /\ faults' = Tail(faults) /\ faults' \in Seq(FaultState)
  BY DEF ReadFault, Knowing, TypeOK, RobotTypeOK
<1>1. ASSUME Ignorable(Head(faults)),
             UNCHANGED <<robotOnly, managerVars, recover, goal, mine, called>>
      PROVE  Knowing'
  <2>1. level \in FaultState /\ called = None
    BY <1>1 DEF Ignorable, Knowing, Bookkeeping, Manager!RecoversOnlyAtRest
  <2>. QED
    BY <1>0, <1>1, <2>1 DEF robotOnly, managerVars, Knowing, TypeOK, RobotTypeOK, Bookkeeping,
      AnswerCounts, ManagerKnows, Manager!TypeOK, Manager!RecoversOnlyAtRest,
      Manager!StoppedMeansCancelling
<1>2. ASSUME ManagerAlone(Manager!RaiseFault /\ level' = Head(faults)) PROVE Knowing'
  <2>1. Manager!RaiseFault /\ CallsRecover
    BY <1>2 DEF ManagerAlone
  <2>2. level' # "NORMAL" /\ called' = None /\ recover' = recover
    BY <2>1 DEF Manager!RaiseFault, CallsRecover
  <2>3. Manager!TypeOK' /\ Manager!RecoversOnlyAtRest' /\ Manager!StoppedMeansCancelling'
    BY <2>1, SupervisorStep DEF Knowing, TypeOK, Bookkeeping, Manager!Next
  <2>. QED
    BY <1>0, <1>2, <2>2, <2>3 DEF ManagerAlone, robotOnly, Knowing, TypeOK, RobotTypeOK,
      Bookkeeping, AnswerCounts, ManagerKnows
<1>. QED
  BY <1>1, <1>2 DEF ReadFault

(***************************************************************************)
(* robot_control's steps: what it has to tell is announced, and an answer  *)
(* turns to "yes" only at NORMAL.                                          *)
(***************************************************************************)
LEMMA RobotAnnounces ==
  ASSUME RobotTypeOK, RobotNext
  PROVE  /\ Announced => Announced'
         /\ safety' # "NORMAL" => Announced' \/ safety # "NORMAL"
         /\ \A r \in Recoverers : recover'[r] = "yes" => recover[r] = "yes" \/ Announced'
<1> USE DEF RobotTypeOK
<1>1. ASSUME NEW t \in Thread, AssignFault(t) PROVE Announced' /\ recover' = recover
  <2>1. t \in ToPublish'
    BY <1>1 DEF AssignFault, ToPublish, Declaring
  <2>. QED
    BY <1>1, <2>1 DEF AssignFault, Announced
<1>2. ASSUME NEW t \in Thread, PublishFault(t) PROVE Announced' /\ recover' = recover
  <2>1. faults' # <<>>
    BY <1>2 DEF PublishFault, Declaring
  <2>. QED
    BY <1>2, <2>1 DEF PublishFault, Announced
<1> DEFINE Untold == (Announced => Announced') /\ safety' = safety
<1>3. ASSUME NEW t \in Thread, NEW lvl, NEW why, Free(t), Declare(t, lvl, why),
             UNCHANGED <<safety, faults, recover>>
      PROVE  Untold /\ recover' = recover
  <2>1. ToPublish \subseteq ToPublish'
    BY <1>3 DEF ToPublish, Free, Declare
  <2>. QED
    BY <1>3, <2>1 DEF Announced
<1>4. ASSUME NEW p \in Pollers, PollReads(p) \/ PollJudges(p)
      PROVE  Untold /\ recover' = recover
  <2>1. CASE UNCHANGED <<declaring, safety, faults, recover>>
    BY <2>1 DEF Announced, ToPublish
  <2>2. ASSUME PollJudges(p), NEW lvl \in FaultOf(polled[p]), Declare(p, lvl, polled[p])
        PROVE  Untold /\ recover' = recover
    BY <1>3, <2>2 DEF PollJudges, Thread
  <2>. QED
    BY <1>4, <2>1, <2>2 DEF PollReads, PollJudges
<1>5. CASE DrflTriggers
  BY <1>3, <1>5 DEF DrflTriggers, Thread
<1>6. ASSUME NEW g \in Goals, GoalSteps(g) PROVE Untold /\ recover' = recover
  <2>1. CASE GoalFails(g)
    BY <1>3, <2>1 DEF GoalFails, Thread
  <2>2. CASE AdmitGoal(g) \/ ReserveGoal(g) \/ FinishGoal(g)
    BY <2>2 DEF AdmitGoal, ReserveGoal, FinishGoal, Announced, ToPublish
  <2>. QED
    BY <1>6, <2>1, <2>2 DEF GoalSteps
<1>7. ASSUME NEW r \in Recoverers, RecoverSteps(r)
      PROVE  /\ Announced => Announced'
             /\ safety' # "NORMAL" => safety # "NORMAL"
             /\ \A s \in Recoverers : recover'[s] = "yes" => recover[s] = "yes" \/ Announced'
  <2>1. CASE RecoverBegins(r)
    BY <2>1 DEF RecoverBegins, RecoverMoves, Announced, ToPublish, RecoverStep
  <2>2. CASE RecoverReads(r)
    BY <2>2 DEF RecoverReads, RecoverMoves, Announced, ToPublish, RecoverStep
  <2>3. CASE RecoverControls(r)
    BY <2>3 DEF RecoverControls, RecoverMoves, Announced, ToPublish, RecoverStep
  <2>4. CASE RecoverGrants(r)
    BY <2>4 DEF RecoverGrants, RecoverMoves, Announced, ToPublish, RecoverStep
  <2>. QED
    BY <1>7, <2>1, <2>2, <2>3, <2>4 DEF RecoverSteps
<1>8. CASE RobotChanges
  BY <1>8 DEF RobotChanges, Announced, ToPublish
<1>. QED
  BY <1>1, <1>2, <1>4, <1>5, <1>6, <1>7, <1>8 DEF RobotNext, DeclareStep

LEMMA RobotStep ==
  Knowing /\ RobotNext /\ UNCHANGED <<managerVars, mine, called>> => Knowing'
<1> SUFFICES ASSUME Knowing, RobotNext, UNCHANGED <<managerVars, mine, called>>
             PROVE  Knowing'
  OBVIOUS
<1>1. TypeOK'
  BY RobotTyped DEF Knowing, TypeOK, Manager!TypeOK, managerVars
<1>2. Bookkeeping'
  BY DEF Knowing, Bookkeeping, Manager!RecoversOnlyAtRest, Manager!StoppedMeansCancelling,
    managerVars
<1>3. /\ Announced => Announced'
      /\ safety' # "NORMAL" => Announced' \/ safety # "NORMAL"
      /\ \A r \in Recoverers : recover'[r] = "yes" => recover[r] = "yes" \/ Announced'
  BY RobotAnnounces DEF Knowing, TypeOK
<1>4. AnswerCounts'
  BY <1>3 DEF Knowing, TypeOK, AnswerCounts
<1>5. ManagerKnows'
  BY <1>3 DEF Knowing, ManagerKnows, Announced, managerVars
<1>. QED
  BY <1>1, <1>2, <1>4, <1>5 DEF Knowing

(***************************************************************************)
(* task_manager learns of every fault of robot_control.                    *)
(***************************************************************************)
THEOREM FaultsAreKnown == Spec => [](TypeOK /\ ManagerKnows)
<1>1. Init => Knowing
  <2> SUFFICES ASSUME Init PROVE Knowing
    OBVIOUS
  <2>1. RobotTypeOK
    <3>1. Idle \in Declaring
      BY DEF Idle, Declaring, Reason
    <3>2. /\ polled \in [Pollers -> RobotState \cup {None}]
          /\ recover \in [Recoverers -> RecoverStep]
          /\ goal \in [Goals -> GoalStep]
      BY DEF Init, RobotInit, RecoverStep, GoalStep
    <3>3. declaring \in [Thread -> Declaring]
      BY <3>1 DEF Init, RobotInit
    <3>4. faults \in Seq(FaultState)
      BY DEF Init, RobotInit
    <3>5. robot \in RobotState /\ safety \in SafetyState /\ lastReason \in Reason \cup {None}
      BY DEF Init, RobotInit, RobotState
    <3>. QED
      BY <3>2, <3>3, <3>4, <3>5 DEF Init, RobotInit, RobotTypeOK
  <2>. QED
    BY <2>1 DEF Init, RobotInit, Manager!Init, Knowing, TypeOK, Manager!TypeOK, Bookkeeping,
      Manager!RecoversOnlyAtRest, Manager!StoppedMeansCancelling, AnswerCounts, ManagerKnows
<1>2. Knowing /\ [Next]_vars => Knowing'
  <2> SUFFICES ASSUME Knowing, [Next]_vars PROVE Knowing'
    OBVIOUS
  <2>1. CASE RobotNext /\ UNCHANGED <<managerVars, mine, called>>
    BY <2>1, RobotStep
  <2>2. ASSUME NEW g \in Goals,
               \/ SendGoal(g) \/ DropReply(g) \/ GoalRefused(g)
               \/ GoalAccepted(g) \/ GoalEnds(g)
        PROVE  Knowing'
    BY <2>2, GoalStepsQuiet, QuietStep DEF Knowing
  <2>3. CASE ManagerDecides \/ RecoveryTimesOut
    BY <2>3, DecisionsQuiet, QuietStep DEF Knowing
  <2>4. CASE ReadFault
    BY <2>4, FaultRead
  <2>5. ASSUME NEW r \in Recoverers, ReadRecoverAnswer(r) PROVE Knowing'
    BY <2>5, AnswerQuiet, QuietStep DEF Knowing
  <2>6. CASE UNCHANGED vars
    BY <2>6 DEF vars, safetyVars, managerVars, Knowing, TypeOK, RobotTypeOK, Manager!TypeOK,
      Bookkeeping, Manager!RecoversOnlyAtRest, Manager!StoppedMeansCancelling, AnswerCounts,
      ManagerKnows, Announced, ToPublish
  <2>. QED
    BY <2>1, <2>2, <2>3, <2>4, <2>5, <2>6 DEF Next
<1>3. Knowing => TypeOK /\ ManagerKnows
  BY DEF Knowing
<1>. QED
  BY <1>1, <1>2, <1>3, PTL DEF Spec

(***************************************************************************)
(* The robot executes one goal at a time, and turns task_manager's goal    *)
(* away only while it executes one.                                        *)
(***************************************************************************)
\* The reservation is there exactly while a goal executes.
ReservedForOne == OneGoalExecutes /\ (reserved <=> Executing # {})

\* Nothing task_manager does makes a goal execute, or stops one.
LEMMA ManagerExecutesNothing ==
  ASSUME TypeOK, Next, ~RobotNext
  PROVE  Executing' = Executing /\ reserved' = reserved
<1> USE DEF TypeOK, RobotTypeOK, Executing, robotOnly, ManagerAlone
<1>1. ASSUME NEW g \in Goals, SendGoal(g) \/ DropReply(g) \/ GoalRefused(g) \/ GoalAccepted(g)
      PROVE  Executing' = Executing /\ reserved' = reserved
  BY <1>1 DEF SendGoal, DropReply, GoalRefused, GoalAccepted
<1>2. ASSUME NEW g \in Goals, GoalEnds(g)
      PROVE  Executing' = Executing /\ reserved' = reserved
  BY <1>2 DEF GoalEnds
<1>3. CASE ManagerDecides \/ RecoveryTimesOut
  BY <1>3 DEF ManagerDecides, RecoveryTimesOut
<1>4. CASE ReadFault
  BY <1>4 DEF ReadFault
<1>5. ASSUME NEW r \in Recoverers, ReadRecoverAnswer(r)
      PROVE  Executing' = Executing /\ reserved' = reserved
  BY <1>5 DEF ReadRecoverAnswer
<1>. QED
  BY <1>1, <1>2, <1>3, <1>4, <1>5 DEF Next

LEMMA ReservationStep ==
  ASSUME TypeOK, ReservedForOne, RobotNext
  PROVE  ReservedForOne'
<1> USE DEF TypeOK, RobotTypeOK, ReservedForOne, OneGoalExecutes, Executing
<1>1. ASSUME UNCHANGED <<goal, reserved>> PROVE ReservedForOne'
  BY <1>1
<1>2. ASSUME NEW g \in Goals, GoalSteps(g) PROVE ReservedForOne'
  <2>1. CASE AdmitGoal(g)
    BY <2>1 DEF AdmitGoal
  <2>2. CASE ReserveGoal(g)
    <3>1. CASE reserved
      BY <2>2, <3>1 DEF ReserveGoal
    <3>2. CASE ~reserved
      <4>1. goal' = [goal EXCEPT ![g] = "running"] /\ reserved' = TRUE /\ Executing = {}
        BY <2>2, <3>2 DEF ReserveGoal
      <4>2. Executing' = {g}
        BY <4>1
      <4>. QED
        BY <4>1, <4>2
    <3>. QED
      BY <3>1, <3>2
  <2>3. CASE GoalFails(g)
    BY <2>3, <1>1 DEF GoalFails
  <2>4. CASE FinishGoal(g)
    <3>1. g \in Executing /\ goal' = [goal EXCEPT ![g] = "done"] /\ reserved' = FALSE
      BY <2>4 DEF FinishGoal
    <3>2. Executing' = {}
      BY <3>1
    <3>. QED
      BY <3>1, <3>2
  <2>. QED
    BY <1>2, <2>1, <2>2, <2>3, <2>4 DEF GoalSteps
<1>3. ASSUME NEW r \in Recoverers, RecoverSteps(r) PROVE UNCHANGED <<goal, reserved>>
  BY <1>3 DEF RecoverSteps, RecoverBegins, RecoverReads, RecoverControls, RecoverGrants
<1>4. ASSUME NEW t \in Thread, DeclareStep(t) PROVE UNCHANGED <<goal, reserved>>
  BY <1>4 DEF DeclareStep, AssignFault, PublishFault
<1>5. ASSUME NEW p \in Pollers, PollReads(p) \/ PollJudges(p) PROVE UNCHANGED <<goal, reserved>>
  BY <1>5 DEF PollReads, PollJudges
<1>6. ASSUME DrflTriggers \/ RobotChanges PROVE UNCHANGED <<goal, reserved>>
  BY <1>6 DEF DrflTriggers, RobotChanges
<1>. QED
  BY <1>1, <1>2, <1>3, <1>4, <1>5, <1>6 DEF RobotNext

LEMMA ReservationKept ==
  /\ Init => ReservedForOne
  /\ TypeOK /\ ReservedForOne /\ [Next]_vars => ReservedForOne'
<1>1. Init => ReservedForOne
  BY DEF Init, RobotInit, ReservedForOne, OneGoalExecutes, Executing
<1>2. TypeOK /\ ReservedForOne /\ [Next]_vars => ReservedForOne'
  <2> SUFFICES ASSUME TypeOK, ReservedForOne, [Next]_vars PROVE ReservedForOne'
    OBVIOUS
  <2>1. CASE RobotNext
    BY <2>1, ReservationStep
  <2>2. CASE Next /\ ~RobotNext
    BY <2>2, ManagerExecutesNothing DEF ReservedForOne, OneGoalExecutes
  <2>3. CASE UNCHANGED vars
    BY <2>3 DEF vars, safetyVars, ReservedForOne, OneGoalExecutes, Executing
  <2>. QED
    BY <2>1, <2>2, <2>3
<1>. QED
  BY <1>1, <1>2

\* The robot executes one goal at a time.
THEOREM GoalsExecuteOneByOne == Spec => []OneGoalExecutes
<1>1. ReservedForOne => OneGoalExecutes
  BY DEF ReservedForOne
<1>. QED
  BY <1>1, ReservationKept, FaultsAreKnown, PTL DEF Spec

\* A goal is turned away as busy only because another one executes.
THEOREM BusyOnlyWhileExecuting == Spec => []BusyOnlyWithLostGoals
<1>1. ReservedForOne => BusyOnlyWithLostGoals
  BY DEF ReservedForOne, BusyOnlyWithLostGoals
<1>. QED
  BY <1>1, ReservationKept, FaultsAreKnown, PTL DEF Spec

=============================================================================

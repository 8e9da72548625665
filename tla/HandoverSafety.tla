--------------------------- MODULE HandoverSafety ---------------------------
(***************************************************************************)
(* task_manager and robot_control agree about safety: the goals, the       *)
(* /robot/fault topic and the /robot/recover service between them.         *)
(*                                                                         *)
(* task_manager is its abstract specification GoalSupervisor, which the    *)
(* node implements (Supervised of TaskManager); robot_control is           *)
(* RobotSafety.  Here each step of the supervisor is tied to the message   *)
(* that causes it or that it sends.                                        *)
(***************************************************************************)
EXTENDS RobotSafety

CONSTANT ClientBreaks   \* may the action client of task_manager raise?

ASSUME ClientAssumption == ClientBreaks \in BOOLEAN

VARIABLES
  own,        \* task_manager: its goal, "none", "sent" or "running"
  cancelling, \* task_manager: a cancellation is pending
  level,      \* task_manager: safety_state
  recovery,   \* task_manager: "no", "waiting" or "calling"
  mine,       \* the goal task_manager counts as its own
  called      \* the recover call whose answer it still counts

managerVars == <<own, cancelling, level, recovery>>
vars == <<safetyVars, managerVars, mine, called>>

Manager == INSTANCE GoalSupervisor WITH goal <- own

TypeOK ==
  /\ RobotTypeOK
  /\ Manager!TypeOK
  /\ mine \in Goals \cup {None}
  /\ called \in Recoverers \cup {None}

Init ==
  /\ RobotInit
  /\ Manager!Init
  /\ mine = None
  /\ called = None

(***************************************************************************)
(* What a step of task_manager sends.                                      *)
(***************************************************************************)
\* recovery turns to "calling": a request.  It leaves it: the answer is stale from now on.
CallsRecover ==
  IF recovery' # "calling" THEN called' = None /\ UNCHANGED recover
  ELSE IF recovery = "calling" THEN UNCHANGED <<called, recover>>
  ELSE \E r \in Recoverers :
         /\ recover[r] = "idle"
         /\ recover' = [recover EXCEPT ![r] = "asked"]
         /\ called' = r

robotOnly == <<robot, safety, lastReason, declaring, polled, reserved>>

\* A step of task_manager that neither reads a goal's reply nor sends a goal.
ManagerAlone(step) ==
  /\ step
  /\ CallsRecover
  /\ mine' = IF own' = "none" THEN None ELSE mine
  /\ UNCHANGED <<robotOnly, goal>>

SendGoal(g) ==
  /\ goal[g] = "free"
  /\ Manager!Start
  /\ goal' = [goal EXCEPT ![g] = "sent"]
  /\ mine' = g
  /\ UNCHANGED <<robotOnly, recover, faults, called>>

\* The reply to a goal that task_manager has given up is not looked at.
DropReply(g) ==
  /\ g # mine
  /\ goal[g] \in {"refused", "done"}
  /\ goal' = [goal EXCEPT ![g] = "free"]
  /\ UNCHANGED <<robotOnly, managerVars, recover, faults, mine, called>>

GoalRefused(g) ==
  /\ g = mine /\ goal[g] = "refused"
  /\ \/ Manager!Finish /\ level' = "FAULT"
     \/ Manager!CancelConfirmed
  /\ CallsRecover
  /\ goal' = [goal EXCEPT ![g] = "free"]
  /\ mine' = None
  /\ UNCHANGED <<robotOnly, faults>>

GoalAccepted(g) ==
  /\ g = mine /\ goal[g] \in {"running", "done"}
  /\ ManagerAlone(Manager!Accept)
  /\ UNCHANGED faults

GoalEnds(g) ==
  /\ g = mine /\ own = "running" /\ goal[g] = "done"
  /\ Manager!Finish \/ Manager!CancelConfirmed
  /\ CallsRecover
  /\ IF own' = "none" THEN mine' = None /\ goal' = [goal EXCEPT ![g] = "free"]
     ELSE \E h \in Goals \ {g} :
            /\ goal[h] = "free"
            /\ mine' = h
            /\ goal' = [goal EXCEPT ![g] = "free", ![h] = "sent"]
  /\ UNCHANGED <<robotOnly, faults>>

ManagerDecides ==
  /\ ManagerAlone(\/ Manager!Cancel \/ Manager!CancelTimeout \/ Manager!Reset
                  \/ Manager!RaiseFault /\ level' = "FAULT"
                  \/ ClientBreaks /\ Manager!LoseGoal)
  /\ UNCHANGED faults

(***************************************************************************)
(* What task_manager reads.                                                *)
(***************************************************************************)
\* _on_fault: never lowered, and a repetition of the present level may be one it knows.
Ignorable(fault) ==
  /\ level \in FaultState
  /\ SafetyStatePriority[fault] <= SafetyStatePriority[level]

Heeded(fault) ==
  level \in FaultState => SafetyStatePriority[fault] >= SafetyStatePriority[level]

ReadFault ==
  /\ faults # <<>>
  /\ faults' = Tail(faults)
  /\ \/ Ignorable(Head(faults)) /\ UNCHANGED <<robotOnly, managerVars, recover, goal, mine, called>>
     \/ /\ Heeded(Head(faults))
        /\ ManagerAlone(Manager!RaiseFault /\ level' = Head(faults))

\* Faulty variant, for the mutation runs: any success is taken for the one asked for.
ReadRecoverAnswerOfAnyCall(r) ==
  /\ recover[r] \in {"yes", "no"}
  /\ recover' = [recover EXCEPT ![r] = "idle"]
  /\ IF recovery # "calling" THEN UNCHANGED <<managerVars, called>>
     ELSE /\ Manager!RecoveryEnds
          /\ level' = IF recover[r] = "yes" THEN "NORMAL" ELSE level
          /\ called' = None
  /\ UNCHANGED <<robotOnly, goal, faults, mine>>

ReadRecoverAnswer(r) ==
  /\ recover[r] \in {"yes", "no"}
  /\ recover' = [recover EXCEPT ![r] = "idle"]
  /\ IF r # called THEN UNCHANGED <<managerVars, called>>
     ELSE /\ Manager!RecoveryEnds
          /\ level' = IF recover[r] = "yes" THEN "NORMAL" ELSE level
          /\ called' = None
  /\ UNCHANGED <<robotOnly, goal, faults, mine>>

RecoveryTimesOut == ManagerAlone(Manager!RecoveryEnds /\ level' = level) /\ UNCHANGED faults

Next ==
  \/ RobotNext /\ UNCHANGED <<managerVars, mine, called>>
  \/ \E g \in Goals :
       SendGoal(g) \/ DropReply(g) \/ GoalRefused(g) \/ GoalAccepted(g) \/ GoalEnds(g)
  \/ ManagerDecides
  \/ ReadFault
  \/ \E r \in Recoverers : ReadRecoverAnswer(r)
  \/ RecoveryTimesOut

Spec == Init /\ [][Next]_vars

(***************************************************************************)
(* When robot_control is away from NORMAL, task_manager is too, or word of *)
(* it is on its way: the thread that assigned the state has yet to publish *)
(* it, or the message is in the topic.  No answer of /robot/recover, late  *)
(* or not, can make task_manager forget a fault declared after it was      *)
(* given.                                                                  *)
(***************************************************************************)
ToPublish == {t \in Thread : declaring[t].step = "publish"}

ManagerKnows ==
  safety # "NORMAL" => level # "NORMAL" \/ ToPublish # {} \/ faults # <<>>

(***************************************************************************)
(* The robot never executes two goals, although task_manager forgets a     *)
(* goal when its action client breaks and may send another.                *)
(***************************************************************************)
Executing == {g \in Goals : goal[g] = "running"}

OneGoalExecutes == \A g, h \in Executing : g = h

(***************************************************************************)
(* The goal task_manager waits for is turned away as "busy" only because   *)
(* of one it has lost, never because of the one whose result it has just   *)
(* received.                                                               *)
(***************************************************************************)
BusyOnlyWithLostGoals ==
  \A g \in Goals : g = mine /\ goal[g] = "checked" /\ reserved => Executing # {}

=============================================================================

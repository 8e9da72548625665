-------------------------- MODULE MCHandoverSafety --------------------------
(***************************************************************************)
(* The fairness of the two nodes' threads, and what they must get done.    *)
(***************************************************************************)
EXTENDS HandoverSafety, TLC

\* Goals and recover calls differ in nothing but their names.
Symmetric == Permutations(Goals) \cup Permutations(Recoverers)

\* Threads run on, the poll timer keeps firing, and task_manager spins.
ThreadsRun ==
  /\ \A t \in Thread : WF_vars(DeclareStep(t) /\ UNCHANGED <<managerVars, mine, called>>)
  /\ \A p \in Pollers :
       WF_vars((PollReads(p) \/ PollJudges(p)) /\ UNCHANGED <<managerVars, mine, called>>)
  /\ WF_vars(ReadFault)

LiveSpec == Spec /\ ThreadsRun

(***************************************************************************)
(* A fault that is declared makes task_manager leave NORMAL, however slow  *)
(* or futile the stop of the arm before the message, and also when a       *)
(* recovery under way has set robot_control back to NORMAL in between.     *)
(***************************************************************************)
FaultsArrive == ToPublish # {} ~> level # "NORMAL"

(***************************************************************************)
(* A pressed emergency stop is noticed: robot_control leaves NORMAL unless *)
(* the stop is released first.  tests: the poll "must be able to keep      *)
(* detecting" the emergency stop.                                          *)
(***************************************************************************)
EmergencyNoticed ==
  robot = "EMERGENCY_STOP" ~> (safety # "NORMAL" \/ robot # "EMERGENCY_STOP")

(***************************************************************************)
(* An emergency stop is not lowered by software; only the recover          *)
(* procedure ends it.  tests: "software must not lower it by itself".      *)
(***************************************************************************)
EmergencyKept ==
  [][safety = "EMERGENCY_STOP" => safety' \in {"EMERGENCY_STOP", "NORMAL"}]_safety

=============================================================================

--------------------------- MODULE GripperCommand ---------------------------
(***************************************************************************)
(* What RG2Client promises the goals that open or close the gripper: one   *)
(* blocking call at a time, a status when it ends, and what each status    *)
(* says about the gripper and about the goal.                              *)
(***************************************************************************)
CONSTANT Status   \* RG2Status

VARIABLES
  cancel,   \* goal_handle.is_cancel_requested
  normal,   \* the node's safety_state is NORMAL
  gripper,  \* "rest" or "moving" (its busy bit)
  call      \* no call made yet, one under way, or the status of the last

commandVars == <<cancel, normal, gripper, call>>

CommandTypeOK ==
  /\ cancel \in BOOLEAN
  /\ normal \in BOOLEAN
  /\ gripper \in {"rest", "moving"}
  /\ call \in Status \cup {"idle", "running"}

CommandInit ==
  /\ cancel = FALSE
  /\ normal = TRUE
  /\ gripper = "rest"
  /\ call = "idle"

\* What a status lets the caller conclude.
Honest(status) ==
  /\ status = "SUCCESS" => gripper = "rest"
  /\ status = "CANCELED" => cancel
  /\ status = "FAULT" => ~normal

\* A goal that is admitted calls: nobody has canceled it yet, and the state is NORMAL.
Begin ==
  /\ call # "running"
  /\ call' = "running"
  /\ cancel' = FALSE
  /\ normal' = TRUE
  /\ UNCHANGED gripper

Drive ==
  /\ call = "running"
  /\ gripper' = "moving"
  /\ UNCHANGED <<cancel, normal, call>>

Settle ==
  /\ gripper = "moving"
  /\ gripper' = "rest"
  /\ UNCHANGED <<cancel, normal, call>>

End ==
  /\ call = "running"
  /\ \E status \in Status : Honest(status) /\ call' = status
  /\ UNCHANGED <<cancel, normal, gripper>>

CancelOrFault ==
  /\ \/ cancel' = TRUE /\ UNCHANGED normal
     \/ normal' = FALSE /\ UNCHANGED cancel
  /\ UNCHANGED <<gripper, call>>

CommandNext == Begin \/ Drive \/ Settle \/ End \/ CancelOrFault

CommandSpec == CommandInit /\ [][CommandNext]_commandVars

=============================================================================

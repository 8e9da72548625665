----------------------------- MODULE RG2Client ------------------------------
(***************************************************************************)
(* RG2Client on the real gripper: open() and close() of the goal's thread, *)
(* with their retries, and the gripper timer, whose get_state shares the   *)
(* Modbus connection.  Nothing locks _client: a thread fetches it and uses *)
(* it, and the other thread may close it in between.                       *)
(*                                                                         *)
(* A command is read as three phases: wait until the gripper is not busy,  *)
(* write, wait again.  Every Modbus call is two steps, _ensure_connected   *)
(* and the call itself.  Width and force are not kept: a retry writes the  *)
(* same values.                                                            *)
(***************************************************************************)
EXTENDS Naturals

CONSTANTS
  Retries,    \* rg2.communication_retry_count
  MaxDrops    \* bound: network failures while one command is carried out

ASSUME RetriesAssumption == Retries \in Nat /\ MaxDrops \in Nat

Status == {"SUCCESS", "CANCELED", "FAULT", "TIMEOUT", "COMMUNICATION_ERROR", "INVALID_INPUT"}

VARIABLES
  cancel,   \* goal_handle.is_cancel_requested
  normal,   \* the node's safety_state is NORMAL
  gripper,  \* the gripper itself: "rest" or "moving"
  call,     \* the call's status, "running" while it is under way
  at,       \* where the call is
  attempt,  \* retries used
  drove,    \* this call has written its command, and the gripper may have obeyed
  late,     \* the deadline of the present wait has passed
  ending,   \* status a stop was sent for
  client,   \* _client: "none", "live", or "dead" (the peer is gone, nobody noticed)
  held,     \* per thread: the client it fetched, "gone" once another thread closed it
  drops     \* network failures since the call began

callVars == <<call, at, attempt, drove, late, ending>>
netVars == <<client, held, drops>>
vars == <<cancel, normal, gripper, callVars, netVars>>

Thread == {"command", "timer"}
Waits == {"prewait", "wait", "stopwait"}
Calls == Waits \cup {"write", "stop", "final"}

TypeOK ==
  /\ cancel \in BOOLEAN /\ normal \in BOOLEAN
  /\ gripper \in {"rest", "moving"}
  /\ call \in Status \cup {"idle", "running"}
  /\ at \in Calls \cup {"idle", "check", "retry"}
  /\ attempt \in 0..Retries
  /\ drove \in BOOLEAN /\ late \in BOOLEAN
  /\ ending \in {"CANCELED", "FAULT"}
  /\ client \in {"none", "live", "dead"}
  /\ held \in [Thread -> {"no", "it", "gone"}]
  /\ drops \in 0..MaxDrops

Init ==
  /\ cancel = FALSE /\ normal = TRUE
  /\ gripper = "rest"
  /\ call = "idle" /\ at = "idle"
  /\ attempt = 0 /\ drove = FALSE /\ late = FALSE /\ ending = "CANCELED"
  /\ client = "none" /\ held = [t \in Thread |-> "no"] /\ drops = 0

(***************************************************************************)
(* The connection.                                                         *)
(***************************************************************************)
\* _ensure_connected: a client that exists is taken for connected, dead or not.
Fetch(t) ==
  /\ held[t] = "no"
  /\ held' = [held EXCEPT ![t] = "it"]
  /\ client' = IF client = "none" THEN "live" ELSE client
  /\ UNCHANGED drops

Reaches(t) == held[t] = "it" /\ client = "live"

Answered(t) ==
  /\ Reaches(t)
  /\ held' = [held EXCEPT ![t] = "no"]
  /\ UNCHANGED <<client, drops>>

\* Faulty variant, for the mutation runs: the socket that failed is kept.
KeepConnection(t) ==
  /\ held' = [held EXCEPT ![t] = "no"]
  /\ UNCHANGED client

\* _reset_connection closes whatever _client is by now, not the one that failed.
ResetConnection(t) ==
  /\ client' = "none"
  /\ held' = [s \in Thread |->
       IF s = t THEN "no" ELSE IF held[s] = "it" THEN "gone" ELSE held[s]]

\* No answer: the client is dead or closed, or the network fails right now.
Failed(t) ==
  /\ held[t] # "no"
  /\ IF Reaches(t) THEN drops < MaxDrops /\ drops' = drops + 1 ELSE UNCHANGED drops
  /\ ResetConnection(t)

(***************************************************************************)
(* open() and close().                                                     *)
(***************************************************************************)
Goto(place) == at' = place /\ late' = FALSE

\* A status ends the attempt, and the call unless it is retried.
Return(status) ==
  /\ IF status = "COMMUNICATION_ERROR"
       THEN Goto("retry") /\ UNCHANGED call
       ELSE Goto("idle") /\ call' = status
  /\ UNCHANGED <<attempt, drove, ending>>

BeginCommand ==
  /\ call # "running"
  /\ cancel' = FALSE /\ normal' = TRUE
  /\ attempt' = 0 /\ drove' = FALSE /\ drops' = 0
  /\ call' = "running" /\ Goto("check")
  /\ UNCHANGED <<gripper, ending, client, held>>

\* A width or force out of range (a close), an unknown gripper name.
RejectInput ==
  /\ at = "check" /\ attempt = 0
  /\ Return("INVALID_INPUT")
  /\ UNCHANGED <<cancel, normal, gripper, netVars>>

\* Faulty variant, for the mutation runs: a fault is reported as a cancellation.
InterruptedAsCancel(status) == (cancel \/ ~normal) /\ status = "CANCELED"

\* What _check_before_command and _wait_until_not_busy look at before they read.
Interrupted(status) ==
  \/ cancel /\ status = "CANCELED"
  \/ ~cancel /\ ~normal /\ status = "FAULT"

CheckBeforeCommand ==
  /\ at = "check"
  /\ \/ \E status \in Status : Interrupted(status) /\ Return(status)
     \/ /\ ~cancel /\ normal
        /\ Goto("prewait") /\ UNCHANGED <<call, attempt, drove, ending>>
  /\ UNCHANGED <<cancel, normal, gripper, netVars>>

\* Faulty variant, for the mutation runs: the gripper is left to finish.
LeaveInterrupted ==
  /\ at \in {"prewait", "wait"} /\ held["command"] = "no"
  /\ \E status \in Status : Interrupted(status) /\ Return(status)
  /\ UNCHANGED <<cancel, normal, gripper, netVars>>

\* A wait is interrupted: after the write the gripper is stopped first.
WaitInterrupted ==
  /\ at \in {"prewait", "wait"} /\ held["command"] = "no"
  /\ \E status \in Status :
       /\ Interrupted(status)
       /\ IF at = "prewait" THEN Return(status)
          ELSE Goto("stop") /\ ending' = status /\ UNCHANGED <<call, attempt, drove>>
  /\ UNCHANGED <<cancel, normal, gripper, netVars>>

CommandFetches ==
  /\ at \in Calls
  /\ at \in {"prewait", "wait"} => ~cancel /\ normal
  /\ Fetch("command")
  /\ UNCHANGED <<cancel, normal, gripper, callVars>>

\* The busy bit is read: not busy.
ReadsNotBusy ==
  /\ at \in Waits /\ Answered("command")
  /\ gripper = "rest"
  /\ CASE at = "prewait" -> Goto("write") /\ UNCHANGED <<call, attempt, drove, ending>>
       [] at = "wait" -> Goto("final") /\ UNCHANGED <<call, attempt, drove, ending>>
       [] at = "stopwait" -> Return(ending)
  /\ UNCHANGED <<cancel, normal, gripper>>

\* Faulty variant, for the mutation runs: no deadline.
ReadsBusyForever ==
  /\ at \in Waits /\ Answered("command")
  /\ gripper = "moving"
  /\ UNCHANGED <<cancel, normal, gripper, callVars>>

\* Busy: poll again, or give up after the deadline; a stop that is not confirmed is an error.
ReadsBusy ==
  /\ at \in Waits /\ Answered("command")
  /\ gripper = "moving"
  /\ CASE ~late -> UNCHANGED callVars
       [] late /\ at = "stopwait" -> Return("COMMUNICATION_ERROR")
       [] late /\ at # "stopwait" -> Return("TIMEOUT")
  /\ UNCHANGED <<cancel, normal, gripper>>

\* The motion command, which may find the gripper where it should be already.
WriteCommand ==
  /\ at = "write" /\ Answered("command")
  /\ gripper' \in {gripper, "moving"}
  /\ Goto("wait") /\ drove' = TRUE
  /\ UNCHANGED <<cancel, normal, call, attempt, ending>>

WriteStop ==
  /\ at = "stop" /\ Answered("command")
  /\ Goto("stopwait")
  /\ UNCHANGED <<cancel, normal, gripper, call, attempt, drove, ending>>

\* The final width, which a bad calibration may put out of range.
ReadFinalState ==
  /\ at = "final" /\ Answered("command")
  /\ Return("SUCCESS") \/ Return("COMMUNICATION_ERROR")
  /\ UNCHANGED <<cancel, normal, gripper>>

\* A command whose answer is lost has still reached the gripper.
CommandFails ==
  /\ at \in Calls /\ Failed("command")
  /\ Goto("retry")
  /\ IF at = "write" /\ Reaches("command")
       THEN drove' = TRUE /\ gripper' \in {gripper, "moving"}
       ELSE UNCHANGED <<drove, gripper>>
  /\ UNCHANGED <<cancel, normal, call, attempt, ending>>

\* Connecting fails, so there is nothing to call.
ConnectFails(t) ==
  /\ held[t] = "no" /\ client = "none"
  /\ drops < MaxDrops /\ drops' = drops + 1
  /\ UNCHANGED <<client, held>>

CommandConnectFails ==
  /\ at \in Calls
  /\ at \in {"prewait", "wait"} => ~cancel /\ normal
  /\ ConnectFails("command")
  /\ Return("COMMUNICATION_ERROR")
  /\ UNCHANGED <<cancel, normal, gripper>>

\* _run_command_with_retry
RetryOrGiveUp ==
  /\ at = "retry"
  /\ \/ /\ attempt >= Retries \/ cancel \/ ~normal
        /\ Goto("idle") /\ call' = "COMMUNICATION_ERROR" /\ UNCHANGED attempt
     \/ /\ attempt < Retries /\ ~cancel /\ normal
        /\ Goto("check") /\ attempt' = attempt + 1 /\ UNCHANGED call
  /\ UNCHANGED <<cancel, normal, gripper, drove, ending, netVars>>

CommandStep ==
  \/ RejectInput \/ CheckBeforeCommand \/ WaitInterrupted \/ CommandFetches
  \/ ReadsNotBusy \/ ReadsBusy \/ WriteCommand \/ WriteStop \/ ReadFinalState
  \/ CommandFails \/ CommandConnectFails \/ RetryOrGiveUp

(***************************************************************************)
(* The gripper timer, and the world.                                       *)
(***************************************************************************)
\* get_state() answers (0.0, no grip) when it fails.
TimerStep ==
  /\ Fetch("timer") \/ Answered("timer") \/ Failed("timer") \/ ConnectFails("timer")
  /\ UNCHANGED <<cancel, normal, gripper, callVars>>

DeadlinePasses ==
  /\ at \in Waits /\ ~late
  /\ late' = TRUE
  /\ UNCHANGED <<cancel, normal, gripper, call, at, attempt, drove, ending, netVars>>

Settle ==
  /\ gripper = "moving"
  /\ gripper' = "rest"
  /\ UNCHANGED <<cancel, normal, callVars, netVars>>

\* The peer drops the connection without a word.
PeerDrops ==
  /\ client = "live" /\ drops < MaxDrops
  /\ client' = "dead" /\ drops' = drops + 1
  /\ UNCHANGED <<cancel, normal, gripper, callVars, held>>

CancelRequested ==
  /\ call = "running" /\ ~cancel
  /\ cancel' = TRUE
  /\ UNCHANGED <<normal, gripper, callVars, netVars>>

FaultDeclared ==
  /\ call = "running" /\ normal
  /\ normal' = FALSE
  /\ UNCHANGED <<cancel, gripper, callVars, netVars>>

Next ==
  \/ BeginCommand \/ CommandStep \/ TimerStep
  \/ DeadlinePasses \/ Settle \/ PeerDrops \/ CancelRequested \/ FaultDeclared

(***************************************************************************)
(* The goal's thread and the timer run on, and time passes.                *)
(***************************************************************************)
Fairness == WF_vars(CommandStep) /\ WF_vars(TimerStep) /\ WF_vars(DeadlinePasses)

Spec == Init /\ [][Next]_vars /\ Fairness

-----------------------------------------------------------------------------
(***************************************************************************)
(* What a call leaves behind is what it answers.  Ended CANCELED or FAULT  *)
(* before any retry, it has stopped the gripper it set in motion: the stop *)
(* was written and the gripper seen at rest.  SUCCESS means that this      *)
(* call's own command reached the gripper, which rests.  Both hold however *)
(* the calls of the timer came in between.                                 *)
(***************************************************************************)
AnswerMatchesGripper ==
  /\ call \in {"CANCELED", "FAULT"} /\ drove /\ attempt = 0 => gripper = "rest"
  /\ call = "SUCCESS" => drove /\ gripper = "rest"

(***************************************************************************)
(* A call ends whatever the network and the gripper do: every wait has its *)
(* deadline, every error its last retry (the pick's thread joins on it).   *)
(***************************************************************************)
CallEnds == call = "running" ~> call # "running"

(***************************************************************************)
(* A socket the peer dropped does not stay: some call fails on it and      *)
(* makes room for a new connection.                                        *)
(***************************************************************************)
DeadSocketReplaced == client = "dead" ~> client # "dead"

(***************************************************************************)
(* CANCELED is what its callers take it for, a confirmed stop.             *)
(* task_executor: "the cancellation was confirmed and command=8 (stop)     *)
(* stopped it".                                                            *)
(***************************************************************************)
CanceledMeansStopped == call = "CANCELED" /\ drove => gripper = "rest"

(***************************************************************************)
(* RG2Client implements the calls GripperCommand promises.                 *)
(***************************************************************************)
Abstract == INSTANCE GripperCommand
Promised == Abstract!CommandSpec

=============================================================================

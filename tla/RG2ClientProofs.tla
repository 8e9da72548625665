-------------------------- MODULE RG2ClientProofs ---------------------------
(***************************************************************************)
(* For any number of retries and of network failures: what a call of the   *)
(* gripper answers is what it leaves behind, and the client implements the *)
(* promises of GripperCommand.                                             *)
(***************************************************************************)
EXTENDS RG2Client, TLAPS

USE DEF Thread, Waits, Calls, Status

\* A call is under way exactly while its thread is somewhere.
Underway == call = "running" <=> at # "idle"

\* What the place of a call says of its command and of the gripper: the first attempt has
\* not written before its wait, and a call reads its final state with the gripper at rest.
Driving ==
  /\ at \in {"wait", "final", "stop", "stopwait"} => drove
  /\ at \in {"check", "prewait", "write"} /\ attempt = 0 => ~drove
  /\ at = "final" => gripper = "rest"

\* A stop is sent for a cancellation or a fault, which no call takes back.
Stopping ==
  at \in {"stop", "stopwait"} =>
    /\ ending = "CANCELED" => cancel
    /\ ending = "FAULT" => ~normal

Answering == TypeOK /\ Underway /\ Driving /\ Stopping /\ AnswerMatchesGripper

LEMMA AnsweringInit == Init => Answering
<1> SUFFICES ASSUME Init PROVE Answering
  OBVIOUS
<1>1. TypeOK
  <2>1. attempt \in 0..Retries /\ drops \in 0..MaxDrops
    BY RetriesAssumption DEF Init
  <2>2. held \in [Thread -> {"no", "it", "gone"}]
    BY DEF Init
  <2>. QED
    BY <2>1, <2>2 DEF Init, TypeOK
<1>2. Underway /\ Driving /\ Stopping /\ AnswerMatchesGripper
  BY DEF Init, Underway, Driving, Stopping, AnswerMatchesGripper
<1>. QED
  BY <1>1, <1>2 DEF Answering

(***************************************************************************)
(* The connection keeps its type, whichever thread uses it.                *)
(***************************************************************************)
NetTyped ==
  /\ client \in {"none", "live", "dead"}
  /\ held \in [Thread -> {"no", "it", "gone"}]
  /\ drops \in 0..MaxDrops

LEMMA ConnectionTyped ==
  ASSUME NetTyped, NEW t \in Thread,
         Fetch(t) \/ Answered(t) \/ Failed(t) \/ ConnectFails(t)
  PROVE  NetTyped'
<1> USE DEF NetTyped
<1>1. CASE Fetch(t)
  BY <1>1 DEF Fetch
<1>2. CASE Answered(t)
  BY <1>2 DEF Answered
<1>3. CASE Failed(t)
  <2>1. drops' \in 0..MaxDrops
    BY <1>3, RetriesAssumption DEF Failed, Reaches
  <2>2. client' = "none" /\ held' \in [Thread -> {"no", "it", "gone"}]
    BY <1>3 DEF Failed, ResetConnection
  <2>. QED
    BY <2>1, <2>2
<1>4. CASE ConnectFails(t)
  BY <1>4, RetriesAssumption DEF ConnectFails
<1>. QED
  BY <1>1, <1>2, <1>3, <1>4

(***************************************************************************)
(* Every step keeps the invariant, and is a step of GripperCommand or none *)
(* that it sees.                                                           *)
(***************************************************************************)
Implements == [Abstract!CommandNext]_(Abstract!commandVars)

LEMMA StepImplements ==
  ASSUME Answering, [Next]_vars PROVE Answering' /\ Implements
<1> USE RetriesAssumption DEF Answering, TypeOK, Underway, Driving, Stopping, AnswerMatchesGripper
<1> USE DEF Implements, Abstract!CommandNext, Abstract!commandVars
<1>1. CASE BeginCommand
  <2>1. TypeOK'
    <3>1. attempt' \in 0..Retries /\ drops' \in 0..MaxDrops
      BY <1>1 DEF BeginCommand, Goto
    <3>. QED
      BY <1>1, <3>1 DEF BeginCommand, Goto
  <2>2. Underway' /\ Driving' /\ Stopping' /\ AnswerMatchesGripper'
    BY <1>1 DEF BeginCommand, Goto
  <2>3. Implements
    BY <1>1 DEF BeginCommand, Goto, Abstract!Begin
  <2>. QED
    BY <2>1, <2>2, <2>3
<1>2. CASE RejectInput
  BY <1>2 DEF RejectInput, Return, Goto, netVars, Abstract!End, Abstract!Honest
<1>3. CASE CheckBeforeCommand
  <2>1. TypeOK'
    BY <1>3 DEF CheckBeforeCommand, Interrupted, Return, Goto, netVars
  <2>2. Underway' /\ Driving' /\ Stopping' /\ AnswerMatchesGripper'
    BY <1>3 DEF CheckBeforeCommand, Interrupted, Return, Goto, netVars
  <2>3. Implements
    BY <1>3 DEF CheckBeforeCommand, Interrupted, Return, Goto, netVars, Abstract!End, Abstract!Honest
  <2>. QED
    BY <2>1, <2>2, <2>3
<1>4. CASE WaitInterrupted
  BY <1>4 DEF WaitInterrupted, Interrupted, Return, Goto, netVars, Abstract!End, Abstract!Honest
<1>5. CASE CommandFetches
  <2>1. NetTyped'
    BY <1>5, ConnectionTyped DEF CommandFetches, NetTyped
  <2>. QED
    BY <1>5, <2>1 DEF CommandFetches, NetTyped, callVars
<1>6. CASE ReadsNotBusy
  <2>1. NetTyped'
    BY <1>6, ConnectionTyped DEF ReadsNotBusy, NetTyped
  <2>. QED
    BY <1>6, <2>1 DEF ReadsNotBusy, NetTyped, Return, Goto, Abstract!End, Abstract!Honest
<1>7. CASE ReadsBusy
  <2>1. NetTyped'
    BY <1>7, ConnectionTyped DEF ReadsBusy, NetTyped
  <2>. QED
    BY <1>7, <2>1 DEF ReadsBusy, NetTyped, Return, Goto, callVars, Abstract!End, Abstract!Honest
<1>8. CASE WriteCommand
  <2>1. NetTyped'
    BY <1>8, ConnectionTyped DEF WriteCommand, NetTyped
  <2>. QED
    BY <1>8, <2>1 DEF WriteCommand, NetTyped, Goto, Abstract!Drive
<1>9. CASE WriteStop
  <2>1. NetTyped'
    BY <1>9, ConnectionTyped DEF WriteStop, NetTyped
  <2>. QED
    BY <1>9, <2>1 DEF WriteStop, NetTyped, Goto
<1>10. CASE ReadFinalState
  <2>1. NetTyped'
    BY <1>10, ConnectionTyped DEF ReadFinalState, NetTyped
  <2>2. TypeOK'
    <3>1. call' \in Status \cup {"running"} /\ at' \in {"idle", "retry"}
      BY <1>10 DEF ReadFinalState, Return, Goto
    <3>. QED
      BY <1>10, <2>1, <3>1 DEF ReadFinalState, Return, Goto, NetTyped
  <2>3. Underway' /\ Driving' /\ Stopping' /\ AnswerMatchesGripper'
    <3>1. drove /\ gripper = "rest" /\ drove' = drove /\ gripper' = gripper
      BY <1>10 DEF ReadFinalState, Return
    <3>2. CASE Return("SUCCESS")
      BY <1>10, <3>1, <3>2 DEF ReadFinalState, Return, Goto
    <3>3. CASE Return("COMMUNICATION_ERROR")
      BY <1>10, <3>1, <3>3 DEF ReadFinalState, Return, Goto
    <3>. QED
      BY <1>10, <3>2, <3>3 DEF ReadFinalState
  <2>4. Implements
    BY <1>10 DEF ReadFinalState, Return, Goto, Abstract!End, Abstract!Honest
  <2>. QED
    BY <2>2, <2>3, <2>4
<1>11. CASE CommandFails
  <2>1. NetTyped'
    BY <1>11, ConnectionTyped DEF CommandFails, NetTyped
  <2>. QED
    BY <1>11, <2>1 DEF CommandFails, NetTyped, Goto, Abstract!Drive
<1>12. CASE CommandConnectFails
  <2>1. NetTyped'
    BY <1>12, ConnectionTyped DEF CommandConnectFails, NetTyped
  <2>. QED
    BY <1>12, <2>1 DEF CommandConnectFails, NetTyped, Return, Goto
<1>13. CASE RetryOrGiveUp
  <2>1. TypeOK'
    <3>1. attempt' \in 0..Retries
      BY <1>13 DEF RetryOrGiveUp, Goto, netVars
    <3>2. call' \in Status \cup {"running"} /\ at' \in {"idle", "check"}
      BY <1>13 DEF RetryOrGiveUp, Goto, netVars
    <3>. QED
      BY <1>13, <3>1, <3>2 DEF RetryOrGiveUp, Goto, netVars
  <2>2. Underway' /\ Driving' /\ Stopping' /\ AnswerMatchesGripper'
    BY <1>13 DEF RetryOrGiveUp, Goto, netVars
  <2>3. Implements
    BY <1>13 DEF RetryOrGiveUp, Goto, netVars, Abstract!End, Abstract!Honest
  <2>. QED
    BY <2>1, <2>2, <2>3
<1>14. CASE TimerStep
  <2>1. NetTyped'
    BY <1>14, ConnectionTyped DEF TimerStep, NetTyped
  <2>. QED
    BY <1>14, <2>1 DEF TimerStep, NetTyped, callVars
<1>15. CASE DeadlinePasses \/ PeerDrops
  <2>1. TypeOK'
    <3>1. drops' \in 0..MaxDrops
      BY <1>15 DEF DeadlinePasses, PeerDrops, netVars, callVars
    <3>. QED
      BY <1>15, <3>1 DEF DeadlinePasses, PeerDrops, netVars, callVars
  <2>2. Underway' /\ Driving' /\ Stopping' /\ AnswerMatchesGripper'
    BY <1>15 DEF DeadlinePasses, PeerDrops, netVars, callVars
  <2>3. Implements
    BY <1>15 DEF DeadlinePasses, PeerDrops, netVars, callVars, Abstract!CommandNext
  <2>. QED
    BY <2>1, <2>2, <2>3
<1>16. CASE Settle
  BY <1>16 DEF Settle, netVars, callVars, Abstract!Settle
<1>17. CASE CancelRequested \/ FaultDeclared
  <2>1. TypeOK'
    BY <1>17 DEF CancelRequested, FaultDeclared, netVars, callVars
  <2>2. Underway' /\ Driving' /\ Stopping' /\ AnswerMatchesGripper'
    BY <1>17 DEF CancelRequested, FaultDeclared, netVars, callVars
  <2>3. Implements
    BY <1>17 DEF CancelRequested, FaultDeclared, netVars, callVars, Abstract!CancelOrFault
  <2>. QED
    BY <2>1, <2>2, <2>3
<1>18. CASE UNCHANGED vars
  BY <1>18 DEF vars, netVars, callVars
<1>. QED
  BY <1>1, <1>2, <1>3, <1>4, <1>5, <1>6, <1>7, <1>8, <1>9, <1>10, <1>11, <1>12, <1>13,
     <1>14, <1>15, <1>16, <1>17, <1>18 DEF Next, CommandStep

\* The client's variables keep their types, also the connection that two threads reset.
THEOREM ClientTypeCorrect == Spec => []TypeOK
<1>1. Answering /\ [Next]_vars => Answering'
  BY StepImplements
<1>2. Answering => TypeOK
  BY DEF Answering
<1>. QED
  BY AnsweringInit, <1>1, <1>2, PTL DEF Spec

\* Ended CANCELED or FAULT before a retry, a call has stopped the gripper; SUCCESS means
\* that its own command reached the gripper, which rests.
THEOREM AnswersAreTrue == Spec => []AnswerMatchesGripper
<1>1. Answering /\ [Next]_vars => Answering'
  BY StepImplements
<1>2. Answering => AnswerMatchesGripper
  BY DEF Answering
<1>. QED
  BY AnsweringInit, <1>1, <1>2, PTL DEF Spec

\* Whatever the retries and the network do, a caller sees one call of GripperCommand.
THEOREM ClientKeepsPromises == Spec => Promised
<1>1. Answering /\ [Next]_vars => Answering' /\ [Abstract!CommandNext]_(Abstract!commandVars)
  BY StepImplements DEF Implements
<1>2. Init => Abstract!CommandInit
  BY DEF Init, Abstract!CommandInit
<1>. QED
  BY AnsweringInit, <1>1, <1>2, PTL DEF Spec, Promised, Abstract!CommandSpec

=============================================================================

---------------------------- MODULE OperatorGui ----------------------------
(***************************************************************************)
(* The operator's window.  A thread of its own (RosSpinThread) reads the   *)
(* topics and hands each message over to the main thread, which handles    *)
(* them in the order they were read; a fault and the status that confirms  *)
(* it come on two topics, in either order and either late.  task_manager   *)
(* and the robot are reduced to what they publish.                         *)
(*                                                                         *)
(* A safety level is NORMAL or not: which of the others it is decides the  *)
(* colours only.  The pose buttons follow the mode buttons and MANUAL, and *)
(* the resume button shows what the last status says of it.                *)
(* rclpy is up: its shutdown ends the process.                             *)
(***************************************************************************)
EXTENDS Naturals, Sequences

CONSTANTS
  Depth,     \* of the subscription to /task/status (10 in the code)
  MaxInbox,  \* bounds the messages waiting for the main thread
  MaxFaults, \* bounds the faults the robot declares
  MaxDeaths  \* bounds how often the spin thread dies

ASSUME GuiAssumption ==
  Depth \in Nat \ {0} /\ MaxInbox \in Nat /\ MaxFaults \in Nat /\ MaxDeaths \in Nat

\* /task/status: IDLE or with a task at NORMAL; away from NORMAL the state does not matter.
Idle == [safety |-> "NORMAL", idle |-> TRUE]
Busy == [safety |-> "NORMAL", idle |-> FALSE]
Stopped == [safety |-> "abnormal", idle |-> FALSE]
Status == {Idle, Busy, Stopped}

Fault == [fault : 1..MaxFaults]

VARIABLES
  manager,      \* what task_manager's next status will say
  raised,       \* the faults the robot has declared so far
  heard,        \* how many of them task_manager has received
  asked,        \* somebody asked for a reset
  statusTopic,  \* /task/status: published and not read, the last Depth of them
  read,         \* /robot/fault: how many of them the spin thread has read
  inbox,        \* read by the spin thread, not yet handled by the main thread
  banner,       \* the fault banner is shown
  confirmed,    \* _fault_confirmed_abnormal
  moveButtons,  \* the AUTO, MANUAL and pose buttons are enabled
  shower,       \* history: the fault whose message brought the banner up, if it was Alone, or 0
  spin,         \* the spin thread: QThread's isRunning is starting or looping
  running,      \* RosSpinThread._running
  deaths,
  window        \* shown, closing (waits for the thread) or gone

sourceVars == <<manager, raised, heard, asked>>
topicVars == <<statusTopic, read>>
viewVars == <<banner, confirmed, moveButtons>>
spinVars == <<spin, running, deaths>>
guiVars == <<sourceVars, topicVars, inbox, viewVars, shower, spinVars, window>>

GuiTypeOK ==
  /\ manager \in Status
  /\ raised \in 0..MaxFaults /\ heard \in 0..raised /\ read \in 0..raised
  /\ asked \in BOOLEAN
  /\ statusTopic \in Seq(Status) /\ Len(statusTopic) <= Depth
  /\ inbox \in Seq(Status \cup Fault) /\ Len(inbox) <= MaxInbox
  /\ banner \in BOOLEAN /\ confirmed \in BOOLEAN
  /\ moveButtons \in BOOLEAN
  /\ shower \in 0..raised
  /\ spin \in {"new", "starting", "looping", "ended"}
  /\ running \in BOOLEAN
  /\ deaths \in 0..MaxDeaths
  /\ window \in {"shown", "closing", "gone"}

GuiInit ==
  /\ manager = Idle /\ asked = FALSE /\ statusTopic = <<Idle>>
  /\ raised = 0 /\ heard = 0 /\ read = 0
  /\ inbox = <<>>
  /\ banner = FALSE /\ confirmed = FALSE
  /\ moveButtons = FALSE
  /\ shower = 0
  /\ spin = "new" /\ running = FALSE /\ deaths = 0
  /\ window = "shown"

-----------------------------------------------------------------------------
(***************************************************************************)
(* What is published.  Every change of task_manager is (also by a timer).  *)
(* Once the window closes nobody looks any more.                           *)
(***************************************************************************)
Publishes(status) ==
  /\ manager' = status
  /\ statusTopic' = Append(IF Len(statusTopic) = Depth THEN Tail(statusTopic) ELSE statusTopic,
                           status)

RobotFaults ==
  /\ window = "shown" /\ raised < MaxFaults
  /\ raised' = raised + 1
  /\ UNCHANGED <<manager, heard, asked, topicVars, inbox, viewVars, shower, spinVars, window>>

ManagerHears ==
  /\ window = "shown" /\ heard < raised /\ heard' = heard + 1
  /\ Publishes(Stopped)
  /\ asked' = FALSE
  /\ UNCHANGED <<raised, read, inbox, viewVars, shower, spinVars, window>>

\* A task starts or ends, a reset is carried out.
ManagerChanges ==
  /\ window = "shown"
  /\ \E status \in Status :
       /\ status # manager /\ status # Stopped
       /\ manager = Stopped => asked
       /\ Publishes(status)
  /\ asked' = FALSE
  /\ UNCHANGED <<raised, heard, read, inbox, viewVars, shower, spinVars, window>>

-----------------------------------------------------------------------------
(***************************************************************************)
(* The main thread handles a message.                                      *)
(***************************************************************************)

\* _apply_button_policy, after a status.
AppliesPolicy(status) == moveButtons' = (status = Idle)

\* Faulty variant, for the mutation runs: any NORMAL hides it.
AppliesAnyNormal(status) ==
  /\ banner' = (status.safety # "NORMAL")
  /\ confirmed' = (status.safety # "NORMAL")

\* _apply_safety_state: only a NORMAL after an abnormal status hides the banner.
AppliesSafety(status) ==
  IF status.safety # "NORMAL"
    THEN banner' = TRUE /\ confirmed' = TRUE
    ELSE banner' = (banner /\ ~confirmed) /\ confirmed' = FALSE

\* Faulty variant, for the mutation runs: an abnormal status does not show the banner.
UpdateTaskStatusQuiet(status) ==
  /\ banner' = (banner /\ (status.safety # "NORMAL" \/ ~confirmed))
  /\ confirmed' = (status.safety # "NORMAL")
  /\ AppliesPolicy(status)
  /\ shower' = IF banner' THEN shower ELSE 0

\* _update_task_status
UpdateTaskStatus(status) ==
  /\ AppliesSafety(status) /\ AppliesPolicy(status)
  /\ shower' = IF banner' THEN shower ELSE 0

\* task_manager has heard of every earlier fault and no status of one is under way.
Alone(n) ==
  /\ n = heard + 1
  /\ \A i \in 1..Len(statusTopic) : statusTopic[i] # Stopped
  /\ \A i \in 1..Len(inbox) : inbox[i] # Stopped

\* _update_fault: at once, before any status.
UpdateFault(n) ==
  /\ banner' = TRUE /\ moveButtons' = FALSE
  /\ shower' = IF banner THEN shower ELSE IF Alone(n) THEN n ELSE 0
  /\ UNCHANGED confirmed

Handles ==
  /\ window = "shown" /\ inbox # <<>>
  /\ inbox' = Tail(inbox)
  /\ IF Head(inbox) \in Fault THEN UpdateFault(Head(inbox).fault)
                            ELSE UpdateTaskStatus(Head(inbox))
  /\ UNCHANGED <<sourceVars, topicVars, spinVars, window>>

\* The reset button is always enabled; publishing does not need the spin thread.
PressesReset ==
  /\ window = "shown" /\ ~asked /\ manager.safety = "abnormal"
  /\ asked' = TRUE
  /\ UNCHANGED <<manager, raised, heard, topicVars, inbox, viewVars, shower, spinVars, window>>

-----------------------------------------------------------------------------
(***************************************************************************)
(* RosSpinThread and RosClient.                                            *)
(***************************************************************************)
IsRunning == spin \in {"starting", "looping"}

\* Faulty variant, for the mutation runs: only the first connection is made.
ConnectsOnce ==
  /\ window = "shown" /\ spin = "new"
  /\ spin' = "starting" /\ running' = TRUE
  /\ UNCHANGED <<sourceVars, topicVars, inbox, viewVars, shower, deaths, window>>

\* connect, and ensure_connected on its timer once the thread is gone.
Connects ==
  /\ window = "shown" /\ ~IsRunning
  /\ spin' = "starting" /\ running' = TRUE
  /\ UNCHANGED <<sourceVars, topicVars, inbox, viewVars, shower, deaths, window>>

\* Faulty variant, for the mutation runs: run sets the flag itself.
SpinEntersSetting ==
  /\ spin = "starting"
  /\ spin' = "looping" /\ running' = TRUE
  /\ UNCHANGED <<sourceVars, topicVars, inbox, viewVars, shower, deaths, window>>

\* run: the flag was set by start, in the main thread.
SpinEnters ==
  /\ spin = "starting"
  /\ spin' = "looping"
  /\ UNCHANGED <<sourceVars, topicVars, inbox, viewVars, shower, running, deaths, window>>

SpinLeaves ==
  /\ spin = "looping" /\ ~running
  /\ spin' = "ended"
  /\ UNCHANGED <<sourceVars, topicVars, inbox, viewVars, shower, running, deaths, window>>

\* spin_once: the callback of a topic emits a signal that Qt queues.
SpinReads ==
  /\ spin = "looping" /\ running /\ Len(inbox) < MaxInbox
  /\ \/ /\ statusTopic # <<>> /\ statusTopic' = Tail(statusTopic)
        /\ inbox' = Append(inbox, Head(statusTopic)) /\ UNCHANGED read
     \/ /\ read < raised /\ read' = read + 1
        /\ inbox' = Append(inbox, [fault |-> read']) /\ UNCHANGED statusTopic
  /\ UNCHANGED <<sourceVars, viewVars, shower, spinVars, window>>

SpinDies ==
  /\ spin = "looping" /\ deaths < MaxDeaths
  /\ spin' = "ended" /\ deaths' = deaths + 1
  /\ UNCHANGED <<sourceVars, topicVars, inbox, viewVars, shower, running, window>>

\* closeEvent: the timers stop, then stop() waits for the thread and the node is destroyed.
Closes ==
  \/ /\ window = "shown" /\ window' = "closing" /\ running' = FALSE
     /\ UNCHANGED <<sourceVars, topicVars, inbox, viewVars, shower, spin, deaths>>
  \/ /\ window = "closing" /\ ~IsRunning /\ window' = "gone"
     /\ UNCHANGED <<sourceVars, topicVars, inbox, viewVars, shower, spinVars>>

SpinSteps == SpinEnters \/ SpinLeaves \/ SpinReads

GuiNext ==
  \/ RobotFaults \/ ManagerHears \/ ManagerChanges
  \/ Handles \/ PressesReset \/ Connects
  \/ SpinSteps \/ SpinDies \/ Closes

(***************************************************************************)
(* The threads run on, the reconnect timer fires, and closing goes on once *)
(* it began.  Neither topic starves the other in the executor.             *)
(***************************************************************************)
GuiFairness ==
  /\ WF_guiVars(Handles) /\ WF_guiVars(Connects) /\ WF_guiVars(Closes /\ window = "closing")
  /\ WF_guiVars(SpinEnters) /\ WF_guiVars(SpinLeaves)
  /\ SF_guiVars(SpinReads /\ statusTopic' # statusTopic)
  /\ SF_guiVars(SpinReads /\ read' # read)

=============================================================================

--------------------------- MODULE OperatorInput ---------------------------
(***************************************************************************)
(* The operator's two ways in: the window and the microphone.  Both        *)
(* publish on /user_command/text, so a reset may be pressed or spoken.     *)
(***************************************************************************)
EXTENDS OperatorGui, SttNode

vars == <<guiVars, sttVars>>

Init == GuiInit /\ SttInit

\* An utterance asks for a reset, or for something else.
Speaks ==
  /\ PublishesUtterance
  /\ asked' \in {asked} \cup (IF ~stop /\ manager.safety = "abnormal" THEN {TRUE} ELSE {})
  /\ UNCHANGED <<manager, raised, heard, topicVars, inbox, viewVars, shower, spinVars, window>>

Next ==
  \/ GuiNext /\ UNCHANGED sttVars
  \/ (Captures \/ Stops) /\ UNCHANGED guiVars
  \/ Speaks

(***************************************************************************)
(* Audio and network calls return or raise, and opening the microphone     *)
(* does not raise for ever.                                                *)
(***************************************************************************)
Fairness ==
  /\ GuiFairness
  /\ WF_sttVars(Captures) /\ WF_sttVars(PublishesUtterance)
  /\ SF_sttVars(OpensMic /\ at' = "listen")

Spec == Init /\ [][Next]_vars /\ Fairness

-----------------------------------------------------------------------------
TypeOK == GuiTypeOK /\ SttTypeOK

(***************************************************************************)
(* The operator who has been shown everything is shown the fault: with no  *)
(* message left to read and task_manager away from NORMAL, the banner is   *)
(* up and the buttons for moves and modes are disabled, in whatever        *)
(* order faults, their statuses and recoveries came.                       *)
(***************************************************************************)
FaultInView ==
  /\ statusTopic = <<>> /\ read = raised /\ inbox = <<>>
  /\ manager.safety = "abnormal"
  => banner /\ ~moveButtons

(***************************************************************************)
(* A NORMAL that task_manager sent before it heard of the fault that       *)
(* raised the banner does not take the banner down, if no status of an     *)
(* earlier fault was under way by then.                                    *)
(***************************************************************************)
StaleNormalKeepsBanner == [][shower > heard => banner']_vars

(***************************************************************************)
(* main_window.py, at _fault_confirmed_abnormal: only when /task/status    *)
(* has confirmed the abnormal level after a fault may a NORMAL hide the    *)
(* banner, so that a past one that follows the fault does not.             *)
(***************************************************************************)
HandledFaults == read - Len(SelectSeq(inbox, LAMBDA message : message \in Fault))
PastNormalIgnored == [][HandledFaults > heard => banner']_vars

(***************************************************************************)
(* A fault that lasts comes into view, also when the spin thread dies      *)
(* with the message unread: the reconnect timer starts the thread again.   *)
(***************************************************************************)
FaultComesIntoView ==
  manager.safety = "abnormal"
    ~> banner \/ manager.safety = "NORMAL" \/ window # "shown"

(***************************************************************************)
(* Closing the window ends, whenever the thread was started or died: its   *)
(* loop sees the stop (the comment in RosSpinThread.start).                *)
(***************************************************************************)
ClosingEnds == window = "closing" ~> window = "gone"

(***************************************************************************)
(* sounddevice records with the PyAudio stream closed (the docstring of    *)
(* _record_command_audio), also after a stream that would not close.       *)
(***************************************************************************)
MicFreeForRecording == at = "record" => stream = "none"

(***************************************************************************)
(* No error of the microphone, of the recording or of the transcription    *)
(* ends the listening.                                                     *)
(***************************************************************************)
ListensAgain == []<>(at = "listen" \/ stop)

=============================================================================

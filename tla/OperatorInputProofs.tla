------------------------ MODULE OperatorInputProofs -------------------------
(***************************************************************************)
(* For topics of any depth, any number of messages between the threads and *)
(* any number of faults: the operator who has been shown everything is     *)
(* shown the fault, a past NORMAL hides no fault that came alone, and the  *)
(* recorder finds the microphone free.                                     *)
(***************************************************************************)
EXTENDS OperatorInput, TLAPS

(***************************************************************************)
(* Types.  A message of the inbox is a fault that was read or a status.    *)
(***************************************************************************)
Arrived == \A i \in 1..Len(inbox) : inbox[i] \in Fault => inbox[i].fault <= read

Typed == GuiTypeOK /\ Arrived

LEMMA FaultsAreNoStatuses == Fault \cap Status = {}
<1> SUFFICES ASSUME NEW f \in 1..MaxFaults, [fault |-> f] \in Status PROVE FALSE
  BY DEF Fault
<1>1. "fault" \in DOMAIN [fault |-> f]
  OBVIOUS
<1>2. \A status \in Status : "fault" \notin DOMAIN status
  BY DEF Status, Idle, Busy, Stopped
<1>. QED
  BY <1>1, <1>2

LEMMA PublishesTyped ==
  ASSUME GuiTypeOK, NEW status \in Status, Publishes(status)
  PROVE  /\ manager' \in Status /\ statusTopic' \in Seq(Status)
         /\ Len(statusTopic') <= Depth
         /\ statusTopic' # <<>> /\ statusTopic'[Len(statusTopic')] = status
         /\ \A i \in 1..Len(statusTopic') :
              \/ statusTopic'[i] = status
              \/ \E j \in 1..Len(statusTopic) : statusTopic'[i] = statusTopic[j]
<1> DEFINE kept == IF Len(statusTopic) = Depth THEN Tail(statusTopic) ELSE statusTopic
<1>1. statusTopic \in Seq(Status) /\ Len(statusTopic) \in Nat /\ Len(statusTopic) <= Depth
  BY DEF GuiTypeOK
<1>2. kept \in Seq(Status) /\ Len(kept) \in Nat /\ Len(kept) < Depth
  BY <1>1, GuiAssumption
<1>3. \A i \in 1..Len(kept) : \E j \in 1..Len(statusTopic) : kept[i] = statusTopic[j]
  <2>1. CASE Len(statusTopic) = Depth
    <3>1. \A i \in 1..Len(kept) : i + 1 \in 1..Len(statusTopic) /\ kept[i] = statusTopic[i + 1]
      BY <1>1, <2>1, GuiAssumption
    <3>. QED
      BY <3>1
  <2>2. CASE Len(statusTopic) # Depth
    BY <2>2
  <2>. QED
    BY <2>1, <2>2
<1>4. statusTopic' = Append(kept, status) /\ manager' = status
  BY DEF Publishes
<1> HIDE DEF kept
<1>5. /\ statusTopic' \in Seq(Status) /\ Len(statusTopic') = Len(kept) + 1
      /\ statusTopic'[Len(kept) + 1] = status
      /\ \A i \in 1..Len(kept) : statusTopic'[i] = kept[i]
  BY <1>2, <1>4
<1>6. Len(statusTopic') <= Depth /\ statusTopic' # <<>> /\ statusTopic'[Len(statusTopic')] = status
  BY <1>2, <1>5, GuiAssumption
<1>7. ASSUME NEW i \in 1..Len(statusTopic')
      PROVE  \/ statusTopic'[i] = status
             \/ \E j \in 1..Len(statusTopic) : statusTopic'[i] = statusTopic[j]
  <2>1. i \in 1..Len(kept) \/ i = Len(kept) + 1
    BY <1>2, <1>5
  <2>. QED
    BY <1>3, <1>5, <2>1
<1>. QED
  BY <1>4, <1>5, <1>6, <1>7

\* The head of a queue and what is behind it.
LEMMA Shifted ==
  ASSUME NEW S, NEW queue \in Seq(S), queue # <<>>
  PROVE  /\ Head(queue) = queue[1] /\ 1 \in 1..Len(queue) /\ Head(queue) \in S
         /\ Tail(queue) \in Seq(S) /\ Len(Tail(queue)) = Len(queue) - 1
         /\ \A i \in 1..Len(Tail(queue)) :
              i + 1 \in 1..Len(queue) /\ Tail(queue)[i] = queue[i + 1]
OBVIOUS

LEMMA Extended ==
  ASSUME NEW S, NEW queue \in Seq(S), NEW e \in S
  PROVE  /\ Append(queue, e) \in Seq(S) /\ Len(Append(queue, e)) = Len(queue) + 1
         /\ Append(queue, e)[Len(queue) + 1] = e
         /\ \A i \in 1..Len(queue) : Append(queue, e)[i] = queue[i]
OBVIOUS

Message == Status \cup Fault

(***************************************************************************)
(* The messages under way keep their types.                                *)
(***************************************************************************)
LEMMA HandlesTyped ==
  ASSUME Typed, Handles
  PROVE  /\ inbox' \in Seq(Message) /\ Len(inbox') <= MaxInbox /\ Arrived'
         /\ shower' \in 0..raised
         /\ banner' \in BOOLEAN /\ confirmed' \in BOOLEAN /\ moveButtons' \in BOOLEAN
<1>1. /\ inbox \in Seq(Message) /\ inbox # <<>> /\ inbox' = Tail(inbox) /\ read' = read
      /\ Len(inbox) <= MaxInbox /\ read \in 0..raised /\ raised \in 0..MaxFaults
      /\ shower \in 0..raised
      /\ banner \in BOOLEAN /\ confirmed \in BOOLEAN /\ moveButtons \in BOOLEAN
  BY DEF Typed, GuiTypeOK, Handles, Message, topicVars
<1>2. /\ Head(inbox) = inbox[1] /\ 1 \in 1..Len(inbox) /\ Head(inbox) \in Message
      /\ inbox' \in Seq(Message) /\ Len(inbox') = Len(inbox) - 1
      /\ \A i \in 1..Len(inbox') : i + 1 \in 1..Len(inbox) /\ inbox'[i] = inbox[i + 1]
  BY <1>1, Shifted
<1>3. Arrived'
  BY <1>1, <1>2 DEF Typed, Arrived, Fault
<1>4. Len(inbox') <= MaxInbox
  BY <1>1, <1>2, GuiAssumption
<1>5. CASE Head(inbox) \in Fault
  <2>1. UpdateFault(Head(inbox).fault)
    BY <1>5 DEF Handles
  <2>2. Head(inbox).fault \in 1..MaxFaults /\ Head(inbox).fault <= read
    BY <1>2, <1>5 DEF Fault, Typed, Arrived
  <2>3. Head(inbox).fault \in 0..raised /\ 0 \in 0..raised
    BY <1>1, <2>2, GuiAssumption
  <2>4. shower' \in {shower, Head(inbox).fault, 0}
    BY <2>1 DEF UpdateFault
  <2>5. banner' = TRUE /\ moveButtons' = FALSE /\ confirmed' = confirmed
    BY <2>1 DEF UpdateFault
  <2>. QED
    BY <1>1, <1>2, <1>3, <1>4, <2>3, <2>4, <2>5
<1>6. CASE Head(inbox) \notin Fault
  <2>1. UpdateTaskStatus(Head(inbox))
    BY <1>6 DEF Handles
  <2>2. shower' \in {shower, 0} /\ banner' \in BOOLEAN /\ confirmed' \in BOOLEAN
    BY <1>1, <2>1 DEF UpdateTaskStatus, AppliesSafety
  <2>3. moveButtons' \in BOOLEAN
    BY <2>1 DEF UpdateTaskStatus, AppliesPolicy
  <2>. QED
    BY <1>1, <1>2, <1>3, <1>4, <2>2, <2>3
<1>. QED
  BY <1>5, <1>6

LEMMA ReadsTyped ==
  ASSUME Typed, SpinReads
  PROVE  /\ inbox' \in Seq(Message) /\ Len(inbox') <= MaxInbox /\ Arrived'
         /\ read' \in 0..raised /\ statusTopic' \in Seq(Status) /\ Len(statusTopic') <= Depth
<1>1. /\ inbox \in Seq(Message) /\ Len(inbox) < MaxInbox /\ Len(inbox) \in Nat
      /\ read \in 0..raised /\ raised \in 0..MaxFaults
      /\ statusTopic \in Seq(Status) /\ Len(statusTopic) <= Depth
  BY DEF Typed, GuiTypeOK, SpinReads, Message
<1>2. ASSUME NEW m \in Message, inbox' = Append(inbox, m), read' \in {read, read + 1},
             m \in Fault => m.fault <= read'
      PROVE  inbox' \in Seq(Message) /\ Len(inbox') <= MaxInbox /\ Arrived'
  <2>1. /\ inbox' \in Seq(Message) /\ Len(inbox') = Len(inbox) + 1
        /\ inbox'[Len(inbox) + 1] = m
        /\ \A i \in 1..Len(inbox) : inbox'[i] = inbox[i]
    BY <1>1, <1>2, Extended
  <2>2. ASSUME NEW i \in 1..Len(inbox'), inbox'[i] \in Fault PROVE inbox'[i].fault <= read'
    <3>1. CASE i = Len(inbox) + 1
      BY <1>2, <2>1, <2>2, <3>1
    <3>2. CASE i \in 1..Len(inbox)
      <4>1. inbox[i] \in Fault /\ inbox[i].fault <= read /\ inbox[i].fault \in 1..MaxFaults
        BY <2>1, <2>2, <3>2 DEF Typed, Arrived, Fault
      <4>. QED
        BY <1>1, <1>2, <2>1, <3>2, <4>1, GuiAssumption
    <3>. QED
      BY <1>1, <2>1, <3>1, <3>2
  <2>. QED
    BY <1>1, <2>1, <2>2, GuiAssumption DEF Arrived
<1>3. CASE /\ statusTopic # <<>> /\ statusTopic' = Tail(statusTopic)
           /\ inbox' = Append(inbox, Head(statusTopic)) /\ UNCHANGED read
  <2>1. /\ Head(statusTopic) \in Status /\ statusTopic' \in Seq(Status)
        /\ Len(statusTopic') <= Depth
    BY <1>1, <1>3, Shifted, GuiAssumption
  <2>. QED
    BY <1>1, <1>2, <1>3, <2>1, FaultsAreNoStatuses DEF Message
<1>4. CASE /\ read < raised /\ read' = read + 1
           /\ inbox' = Append(inbox, [fault |-> read']) /\ UNCHANGED statusTopic
  <2>1. [fault |-> read'] \in Fault /\ read' \in 0..raised
    BY <1>1, <1>4, GuiAssumption DEF Fault
  <2>. QED
    BY <1>1, <1>2, <1>4, <2>1 DEF Message
<1>. QED
  BY <1>3, <1>4 DEF SpinReads

\* One step of the window, of its source or of its thread keeps all types.
LEMMA GuiTyped ==
  ASSUME Typed, GuiNext
  PROVE  Typed'
<1> USE DEF GuiTypeOK, Arrived
<1>1. CASE RobotFaults
  <2>1. raised' \in 0..MaxFaults /\ raised' = raised + 1
    BY <1>1, GuiAssumption DEF RobotFaults, Typed
  <2>2. /\ heard' \in 0..raised' /\ read' \in 0..raised' /\ shower' \in 0..raised'
    BY <1>1, <2>1, GuiAssumption DEF RobotFaults, Typed, topicVars
  <2>. QED
    BY <1>1, <2>1, <2>2 DEF RobotFaults, Typed, topicVars, viewVars, spinVars
<1>2. CASE ManagerHears
  <2>1. Publishes(Stopped) /\ Stopped \in Status
    BY <1>2 DEF ManagerHears, Status
  <2>2. manager' \in Status /\ statusTopic' \in Seq(Status) /\ Len(statusTopic') <= Depth
    BY <2>1, PublishesTyped DEF Typed
  <2>3. heard' \in 0..raised
    BY <1>2, GuiAssumption DEF ManagerHears, Typed
  <2>. QED
    BY <1>2, <2>2, <2>3 DEF ManagerHears, Typed, viewVars, spinVars
<1>3. CASE ManagerChanges
  <2>1. PICK status \in Status : Publishes(status)
    BY <1>3 DEF ManagerChanges
  <2>2. manager' \in Status /\ statusTopic' \in Seq(Status) /\ Len(statusTopic') <= Depth
    BY <2>1, PublishesTyped DEF Typed
  <2>. QED
    BY <1>3, <2>2 DEF ManagerChanges, Typed, viewVars, spinVars
<1>4. CASE Handles
  <2>1. UNCHANGED <<sourceVars, topicVars, spinVars, window>>
    BY <1>4 DEF Handles
  <2>. QED
    BY <1>4, <2>1, HandlesTyped DEF Typed, sourceVars, topicVars, spinVars, Message
<1>5. CASE SpinReads
  <2>1. UNCHANGED <<sourceVars, viewVars, shower, spinVars, window>>
    BY <1>5 DEF SpinReads
  <2>. QED
    BY <1>5, <2>1, ReadsTyped DEF Typed, sourceVars, viewVars, spinVars, Message
<1>6. CASE PressesReset
  BY <1>6 DEF PressesReset, Typed, topicVars, viewVars, spinVars
<1>7. CASE Connects \/ SpinEnters \/ SpinLeaves
  BY <1>7 DEF Connects, SpinEnters, SpinLeaves, Typed, sourceVars, topicVars, viewVars
<1>8. CASE SpinDies
  BY <1>8, GuiAssumption DEF SpinDies, Typed, sourceVars, topicVars, viewVars
<1>9. CASE Closes
  BY <1>9 DEF Closes, Typed, sourceVars, topicVars, viewVars, spinVars
<1>. QED
  BY <1>1, <1>2, <1>3, <1>4, <1>5, <1>6, <1>7, <1>8, <1>9 DEF GuiNext, SpinSteps

LEMMA SttTyped ==
  ASSUME SttTypeOK, Captures \/ PublishesUtterance \/ Stops
  PROVE  SttTypeOK'
<1> USE DEF SttTypeOK, Places, GoTo, Fails
<1>1. CASE Captures
  BY <1>1 DEF Captures, LoopTop, OpensMic, Listens, ClosesMic, Records, Transcribes, BacksOff
<1>2. CASE PublishesUtterance \/ Stops
  BY <1>2 DEF PublishesUtterance, Stops
<1>. QED
  BY <1>1, <1>2

LEMMA TypesInit == Init => Typed /\ SttTypeOK
<1> SUFFICES ASSUME Init PROVE Typed /\ SttTypeOK
  OBVIOUS
<1>1. statusTopic \in Seq(Status) /\ Len(statusTopic) <= Depth /\ manager \in Status
  BY GuiAssumption DEF Init, GuiInit, Status
<1>2. inbox = <<>>
  BY DEF Init, GuiInit
<1>3. inbox \in Seq(Status \cup Fault) /\ Len(inbox) <= MaxInbox /\ Arrived
  BY <1>2, GuiAssumption DEF Arrived
<1>4. GuiTypeOK
  <2>1. /\ raised = 0 /\ heard = 0 /\ read = 0 /\ shower = 0 /\ deaths = 0
        /\ 0 \in 0..0 /\ 0 \in 0..MaxFaults /\ 0 \in 0..MaxDeaths
    BY GuiAssumption DEF Init, GuiInit
  <2>2. /\ asked \in BOOLEAN /\ banner \in BOOLEAN /\ confirmed \in BOOLEAN
        /\ moveButtons \in BOOLEAN /\ running \in BOOLEAN
        /\ spin = "new" /\ window = "shown"
    BY DEF Init, GuiInit
  <2>. QED
    BY <1>1, <1>3, <2>1, <2>2 DEF GuiTypeOK
<1>. QED
  BY <1>3, <1>4 DEF Typed, Init, SttInit, SttTypeOK, Places

\* A spoken command only asks.
LEMMA SpeaksAsks == ASSUME Speaks, asked \in BOOLEAN
                    PROVE  /\ asked' \in BOOLEAN
                           /\ UNCHANGED <<manager, raised, heard, statusTopic, read, inbox, banner,
                                          confirmed, moveButtons, shower, spin, running, deaths,
                                          window>>
BY DEF Speaks, topicVars, viewVars, spinVars

LEMMA TypesStep == Typed /\ SttTypeOK /\ [Next]_vars => Typed' /\ SttTypeOK'
<1> SUFFICES ASSUME Typed, SttTypeOK, [Next]_vars PROVE Typed' /\ SttTypeOK'
  OBVIOUS
<1>1. CASE GuiNext /\ UNCHANGED sttVars
  BY <1>1, GuiTyped DEF sttVars, SttTypeOK
<1>2. ASSUME UNCHANGED guiVars PROVE Typed'
  BY <1>2 DEF Typed, GuiTypeOK, Arrived, guiVars, sourceVars, topicVars, viewVars, spinVars
<1>3. CASE (Captures \/ Stops) /\ UNCHANGED guiVars
  BY <1>2, <1>3, SttTyped
<1>4. CASE Speaks
  <2>1. SttTypeOK'
    BY <1>4, SttTyped DEF Speaks
  <2>2. asked \in BOOLEAN
    BY DEF Typed, GuiTypeOK
  <2>. QED
    BY <1>4, <2>1, <2>2, SpeaksAsks DEF Typed, GuiTypeOK, Arrived
<1>5. CASE UNCHANGED vars
  BY <1>2, <1>5 DEF vars, sttVars, SttTypeOK
<1>. QED
  BY <1>1, <1>3, <1>4, <1>5 DEF Next

\* The window, the messages under way and the capture thread keep their types.
THEOREM InputTypeCorrect == Spec => []TypeOK
<1>1. Typed /\ SttTypeOK => TypeOK
  BY DEF Typed, TypeOK
<1>. QED
  BY <1>1, TypesInit, TypesStep, PTL DEF Spec

(***************************************************************************)
(* The news.  What task_manager says now is the last status on the topic,  *)
(* or, once that has been read, the last one in the inbox, or it has been  *)
(* handled: then an abnormal level is on the screen, for what was handled  *)
(* since are faults.                                                       *)
(***************************************************************************)
LastRead(i) ==
  /\ i \in 1..Len(inbox) /\ inbox[i] = manager
  /\ \A j \in 1..Len(inbox) : j > i => inbox[j] \in Fault

Told ==
  /\ \A i \in 1..Len(inbox) : inbox[i] \in Fault
  /\ manager = Stopped => banner /\ ~moveButtons

NewsUnderWay ==
  IF statusTopic # <<>> THEN statusTopic[Len(statusTopic)] = manager
                        ELSE Told \/ \E i \in 1..Len(inbox) : LastRead(i)

LEMMA NewsHandled ==
  ASSUME Typed, NewsUnderWay, Handles
  PROVE  NewsUnderWay'
<1>1. /\ inbox \in Seq(Message) /\ inbox # <<>> /\ inbox' = Tail(inbox)
      /\ UNCHANGED <<statusTopic, manager>>
  BY DEF Typed, GuiTypeOK, Handles, Message, sourceVars, topicVars
<1>2. /\ Head(inbox) = inbox[1] /\ 1 \in 1..Len(inbox) /\ Len(inbox) \in Nat
      /\ Len(inbox') = Len(inbox) - 1
      /\ \A i \in 1..Len(inbox') : i + 1 \in 1..Len(inbox) /\ inbox'[i] = inbox[i + 1]
  BY <1>1, Shifted
<1>3. CASE statusTopic # <<>>
  BY <1>1, <1>3 DEF NewsUnderWay
<1>4. CASE statusTopic = <<>> /\ Told
  <2>1. inbox[1] \in Fault
    BY <1>2, <1>4 DEF Told
  <2>2. banner' /\ ~moveButtons'
    BY <1>2, <2>1 DEF Handles, UpdateFault
  <2>3. \A i \in 1..Len(inbox') : inbox'[i] \in Fault
    BY <1>2, <1>4 DEF Told
  <2>. QED
    BY <1>1, <1>4, <2>2, <2>3 DEF NewsUnderWay, Told, Fault
<1>5. ASSUME statusTopic = <<>>, NEW i \in 1..Len(inbox), LastRead(i)
      PROVE  NewsUnderWay'
  <2>1. CASE i = 1
    <3>1. \A j \in 1..Len(inbox') : inbox'[j] \in Fault
      BY <1>2, <1>5, <2>1 DEF LastRead
    <3>2. Head(inbox) = manager /\ manager \in Status
      BY <1>2, <1>5, <2>1 DEF LastRead, Typed, GuiTypeOK
    <3>3. UpdateTaskStatus(manager)
      BY <3>2, FaultsAreNoStatuses DEF Handles
    <3>4. ASSUME manager = Stopped PROVE banner' /\ ~moveButtons'
      <4>1. manager.safety # "NORMAL" /\ manager # Idle
        BY <3>4 DEF Stopped, Idle
      <4>2. banner' = TRUE /\ moveButtons' = FALSE
        BY <3>3, <4>1 DEF UpdateTaskStatus, AppliesSafety, AppliesPolicy
      <4>. QED
        BY <4>2
    <3>. QED
      BY <1>1, <1>5, <3>1, <3>4 DEF NewsUnderWay, Told, Fault
  <2>2. CASE i # 1
    <3>1. i - 1 \in 1..Len(inbox') /\ inbox'[i - 1] = inbox[i]
      BY <1>2, <2>2
    <3>2. \A j \in 1..Len(inbox') : j > i - 1 => inbox'[j] \in Fault
      BY <1>2, <1>5 DEF LastRead
    <3>3. LastRead(i - 1)'
      BY <1>1, <1>5, <3>1, <3>2 DEF LastRead, Fault
    <3>. QED
      BY <1>1, <1>5, <3>1, <3>3 DEF NewsUnderWay
  <2>. QED
    BY <2>1, <2>2
<1>. QED
  BY <1>3, <1>4, <1>5 DEF NewsUnderWay

LEMMA NewsRead ==
  ASSUME Typed, NewsUnderWay, SpinReads
  PROVE  NewsUnderWay'
<1>1. /\ inbox \in Seq(Message) /\ Len(inbox) \in Nat /\ statusTopic \in Seq(Status)
      /\ UNCHANGED <<manager, banner, moveButtons>>
  BY DEF Typed, GuiTypeOK, SpinReads, Message, sourceVars, viewVars
<1>2. CASE /\ statusTopic # <<>> /\ statusTopic' = Tail(statusTopic)
           /\ inbox' = Append(inbox, Head(statusTopic))
  <2>1. statusTopic[Len(statusTopic)] = manager /\ Len(statusTopic) \in Nat
    BY <1>1, <1>2 DEF NewsUnderWay
  <2>2. CASE statusTopic' # <<>>
    BY <1>1, <1>2, <2>1, <2>2, Shifted DEF NewsUnderWay
  <2>3. CASE statusTopic' = <<>>
    <3>1. Head(statusTopic) = manager /\ manager \in Message
      <4>1. Head(statusTopic) = statusTopic[1] /\ Len(statusTopic') = Len(statusTopic) - 1
        BY <1>1, <1>2, Shifted
      <4>2. Len(statusTopic) = 1
        BY <2>1, <2>3, <4>1
      <4>. QED
        BY <2>1, <4>1, <4>2 DEF Typed, GuiTypeOK, Message
    <3>2. Len(inbox') = Len(inbox) + 1 /\ inbox'[Len(inbox) + 1] = manager
      BY <1>1, <1>2, <3>1, Extended
    <3>3. PICK i \in Nat : i = Len(inbox) + 1
      BY <1>1
    <3>4. LastRead(i)' /\ i \in 1..Len(inbox')
      BY <1>1, <3>2, <3>3 DEF LastRead, Fault
    <3>. QED
      BY <2>3, <3>4 DEF NewsUnderWay
  <2>. QED
    BY <2>2, <2>3
<1>3. CASE /\ read < raised /\ read' = read + 1
           /\ inbox' = Append(inbox, [fault |-> read']) /\ UNCHANGED statusTopic
  <2>1. [fault |-> read'] \in Fault
    BY <1>3, GuiAssumption DEF Typed, GuiTypeOK, Fault
  <2>2. /\ Len(inbox') = Len(inbox) + 1 /\ inbox'[Len(inbox) + 1] \in Fault
        /\ \A i \in 1..Len(inbox) : inbox'[i] = inbox[i]
    BY <1>1, <1>3, <2>1, Extended DEF Message
  <2>3. \A i \in 1..Len(inbox') : i \in 1..Len(inbox) \/ i = Len(inbox) + 1
    BY <1>1, <2>2
  <2>4. Told => Told'
    BY <1>1, <2>2, <2>3 DEF Told, Fault
  <2>5. ASSUME NEW i \in 1..Len(inbox), LastRead(i) PROVE LastRead(i)' /\ i \in 1..Len(inbox')
    <3>1. i \in 1..Len(inbox') /\ inbox'[i] = manager
      BY <1>1, <2>2, <2>5 DEF LastRead
    <3>2. \A j \in 1..Len(inbox') : j > i => inbox'[j] \in Fault
      BY <2>2, <2>3, <2>5 DEF LastRead
    <3>. QED
      BY <1>1, <3>1, <3>2 DEF LastRead, Fault
  <2>. QED
    BY <1>1, <1>3, <2>4, <2>5 DEF NewsUnderWay
<1>. QED
  BY <1>2, <1>3 DEF SpinReads

LEMMA NewsKept ==
  ASSUME Typed, NewsUnderWay, [Next]_vars
  PROVE  NewsUnderWay'
<1>1. ASSUME UNCHANGED <<manager, statusTopic, inbox, viewVars>> PROVE NewsUnderWay'
  BY <1>1 DEF NewsUnderWay, Told, LastRead, viewVars, Fault
<1>2. CASE Handles \/ SpinReads
  BY <1>2, NewsHandled, NewsRead
<1>3. CASE ManagerHears \/ ManagerChanges
  <2>1. PICK status \in Status : Publishes(status)
    BY <1>3 DEF ManagerHears, ManagerChanges, Status
  <2>2. manager' = status
    BY <2>1 DEF Publishes
  <2>. QED
    BY <2>1, <2>2, PublishesTyped DEF NewsUnderWay, Typed
<1>4. CASE RobotFaults \/ PressesReset \/ Connects \/ SpinEnters \/ SpinLeaves \/ SpinDies \/ Closes
  BY <1>1, <1>4 DEF RobotFaults, PressesReset, Connects, SpinEnters, SpinLeaves, SpinDies, Closes,
                    sourceVars, topicVars
<1>5. CASE Speaks
  BY <1>1, <1>5 DEF Speaks, topicVars
<1>6. CASE UNCHANGED guiVars
  BY <1>1, <1>6 DEF guiVars, sourceVars, topicVars
<1>. QED
  BY <1>2, <1>3, <1>4, <1>5, <1>6 DEF Next, GuiNext, SpinSteps, vars

\* With everything shown, an abnormal level is on the screen and moves are disabled.
THEOREM FaultsAreInView == Spec => []FaultInView
<1> DEFINE Met == Typed /\ SttTypeOK /\ NewsUnderWay
<1>1. Init => Met
  <2> SUFFICES ASSUME Init PROVE Met
    OBVIOUS
  <2>1. statusTopic = <<Idle>> /\ manager = Idle
    BY DEF Init, GuiInit
  <2>. QED
    BY <2>1, TypesInit DEF NewsUnderWay
<1>2. Met /\ [Next]_vars => Met'
  BY TypesStep, NewsKept
<1>3. ASSUME Met PROVE FaultInView
  <2> SUFFICES ASSUME statusTopic = <<>>, inbox = <<>>, manager.safety = "abnormal"
               PROVE  banner /\ ~moveButtons
    BY DEF FaultInView
  <2>1. manager = Stopped
    BY <1>3 DEF Typed, GuiTypeOK, Status, Idle, Busy, Stopped
  <2>2. Told
    BY <1>3 DEF NewsUnderWay
  <2>. QED
    BY <2>1, <2>2 DEF Told
<1>. QED
  BY <1>1, <1>2, <1>3, PTL DEF Spec

(***************************************************************************)
(* The fault that came alone: task_manager is about to hear of it next, so *)
(* whatever status is under way is NORMAL, and confirms nothing.           *)
(***************************************************************************)
OnlyNormal(queue) == \A i \in 1..Len(queue) : queue[i] # Stopped

Unheard ==
  /\ confirmed => banner
  /\ shower > heard =>
       /\ banner /\ ~confirmed
       /\ shower = heard + 1
       /\ OnlyNormal(statusTopic) /\ OnlyNormal(inbox)

LEMMA UnheardHandled ==
  ASSUME Typed, Unheard, Handles
  PROVE  Unheard' /\ (shower > heard => banner')
<1>1. /\ inbox \in Seq(Message) /\ inbox # <<>> /\ inbox' = Tail(inbox)
      /\ UNCHANGED <<statusTopic, heard>>
      /\ heard \in Nat /\ shower \in Nat /\ banner \in BOOLEAN /\ confirmed \in BOOLEAN
  BY GuiAssumption DEF Typed, GuiTypeOK, Handles, Message, sourceVars, topicVars
<1>2. /\ Head(inbox) = inbox[1] /\ 1 \in 1..Len(inbox) /\ Head(inbox) \in Message
      /\ \A i \in 1..Len(inbox') : i + 1 \in 1..Len(inbox) /\ inbox'[i] = inbox[i + 1]
  BY <1>1, Shifted
<1>3. OnlyNormal(inbox) => OnlyNormal(inbox') /\ Head(inbox) # Stopped
  BY <1>2 DEF OnlyNormal
<1>4. CASE Head(inbox) \in Fault
  <2>1. UpdateFault(Head(inbox).fault) /\ Head(inbox).fault \in 1..MaxFaults
    BY <1>4 DEF Handles, Fault
  <2>2. banner' = TRUE /\ confirmed' = confirmed
    BY <2>1 DEF UpdateFault
  <2>3. CASE banner
    <3>1. shower' = shower
      BY <2>1, <2>3 DEF UpdateFault
    <3>. QED
      BY <1>1, <1>3, <2>2, <3>1 DEF Unheard, OnlyNormal
  <2>4. CASE ~banner
    <3>1. shower' = 0 \/ (Alone(Head(inbox).fault) /\ shower' = Head(inbox).fault)
      BY <2>1, <2>4 DEF UpdateFault
    <3>2. ~confirmed
      BY <2>4 DEF Unheard
    <3>3. CASE shower' = 0
      BY <1>1, <2>2, <3>2, <3>3 DEF Unheard
    <3>4. CASE Alone(Head(inbox).fault) /\ shower' = Head(inbox).fault
      <4>1. shower' = heard + 1 /\ OnlyNormal(statusTopic) /\ OnlyNormal(inbox')
        BY <1>3, <3>4 DEF Alone, OnlyNormal
      <4>. QED
        BY <1>1, <2>2, <3>2, <4>1 DEF Unheard, OnlyNormal
    <3>. QED
      BY <3>1, <3>3, <3>4
  <2>. QED
    BY <2>3, <2>4
<1>5. CASE Head(inbox) \notin Fault
  <2>1. UpdateTaskStatus(Head(inbox)) /\ Head(inbox) \in Status
    BY <1>2, <1>5 DEF Handles, Message
  <2>2. shower' = IF banner' THEN shower ELSE 0
    BY <2>1 DEF UpdateTaskStatus
  <2>3. CASE Head(inbox) = Stopped
    <3>1. banner' = TRUE /\ confirmed' = TRUE
      BY <2>1, <2>3 DEF UpdateTaskStatus, AppliesSafety, Stopped
    <3>2. ~(shower > heard)
      BY <1>3, <2>3 DEF Unheard
    <3>. QED
      BY <1>1, <2>2, <3>1, <3>2 DEF Unheard
  <2>4. CASE Head(inbox) # Stopped
    <3>1. Head(inbox).safety = "NORMAL"
      BY <2>1, <2>4 DEF Status, Idle, Busy, Stopped
    <3>2. banner' = (banner /\ ~confirmed) /\ confirmed' = FALSE
      BY <2>1, <3>1 DEF UpdateTaskStatus, AppliesSafety
    <3>3. shower > heard => banner' /\ shower' = shower
      BY <2>2, <3>2 DEF Unheard
    <3>4. shower' \in {shower, 0}
      BY <2>2
    <3>. QED
      BY <1>1, <1>3, <3>2, <3>3, <3>4 DEF Unheard, OnlyNormal
  <2>. QED
    BY <2>3, <2>4
<1>. QED
  BY <1>4, <1>5

LEMMA UnheardRead ==
  ASSUME Typed, Unheard, SpinReads
  PROVE  Unheard'
<1>1. /\ inbox \in Seq(Message) /\ statusTopic \in Seq(Status)
      /\ UNCHANGED <<heard, banner, confirmed, shower>>
  BY DEF Typed, GuiTypeOK, SpinReads, Message, sourceVars, viewVars
<1>2. ASSUME NEW m \in Message, m # Stopped, inbox' = Append(inbox, m), OnlyNormal(inbox)
      PROVE  OnlyNormal(inbox')
  <2>1. /\ Len(inbox') = Len(inbox) + 1 /\ inbox'[Len(inbox) + 1] = m /\ Len(inbox) \in Nat
        /\ \A i \in 1..Len(inbox) : inbox'[i] = inbox[i]
    BY <1>1, <1>2, Extended
  <2>2. \A i \in 1..Len(inbox') : i \in 1..Len(inbox) \/ i = Len(inbox) + 1
    BY <2>1
  <2>. QED
    BY <1>2, <2>1, <2>2 DEF OnlyNormal
<1>3. CASE /\ statusTopic # <<>> /\ statusTopic' = Tail(statusTopic)
           /\ inbox' = Append(inbox, Head(statusTopic))
  <2>1. /\ Head(statusTopic) = statusTopic[1] /\ 1 \in 1..Len(statusTopic)
        /\ Head(statusTopic) \in Message
        /\ \A i \in 1..Len(statusTopic') :
             i + 1 \in 1..Len(statusTopic) /\ statusTopic'[i] = statusTopic[i + 1]
    BY <1>1, <1>3, Shifted DEF Message
  <2>2. OnlyNormal(statusTopic) => OnlyNormal(statusTopic') /\ Head(statusTopic) # Stopped
    BY <2>1 DEF OnlyNormal
  <2>3. OnlyNormal(statusTopic) /\ OnlyNormal(inbox) => OnlyNormal(inbox')
    BY <1>2, <1>3, <2>1, <2>2
  <2>. QED
    BY <1>1, <2>2, <2>3 DEF Unheard
<1>4. CASE /\ read < raised /\ read' = read + 1
           /\ inbox' = Append(inbox, [fault |-> read']) /\ UNCHANGED statusTopic
  <2>1. [fault |-> read'] \in Fault
    BY <1>4, GuiAssumption DEF Typed, GuiTypeOK, Fault
  <2>2. [fault |-> read'] # Stopped
    BY <2>1, FaultsAreNoStatuses DEF Status
  <2>3. OnlyNormal(inbox) => OnlyNormal(inbox')
    BY <1>2, <1>4, <2>1, <2>2 DEF Message
  <2>. QED
    BY <1>1, <1>4, <2>3 DEF Unheard, OnlyNormal
<1>. QED
  BY <1>3, <1>4 DEF SpinReads

LEMMA UnheardKept ==
  ASSUME Typed, Unheard, [Next]_vars
  PROVE  Unheard' /\ (shower > heard => banner')
<1>1. shower > heard => banner
  BY DEF Unheard
<1>2. ASSUME UNCHANGED <<heard, statusTopic, inbox, viewVars, shower>>
      PROVE  Unheard' /\ (shower > heard => banner')
  BY <1>1, <1>2 DEF Unheard, OnlyNormal, viewVars
<1>3. CASE Handles
  BY <1>3, UnheardHandled
<1>4. CASE SpinReads
  BY <1>1, <1>4, UnheardRead DEF SpinReads, viewVars
<1>5. CASE ManagerHears
  <2>1. /\ heard' = heard + 1 /\ UNCHANGED <<banner, confirmed, shower>>
        /\ heard \in Nat /\ shower \in Nat
    BY <1>5, GuiAssumption DEF ManagerHears, viewVars, Typed, GuiTypeOK
  <2>2. ~(shower' > heard')
    BY <2>1 DEF Unheard
  <2>. QED
    BY <1>1, <2>1, <2>2 DEF Unheard
<1>6. CASE ManagerChanges
  <2>1. PICK status \in Status : status # Stopped /\ Publishes(status)
    BY <1>6 DEF ManagerChanges
  <2>2. OnlyNormal(statusTopic) => OnlyNormal(statusTopic')
    BY <2>1, PublishesTyped DEF OnlyNormal, Typed
  <2>3. UNCHANGED <<heard, inbox, banner, confirmed, shower>>
    BY <1>6 DEF ManagerChanges, viewVars
  <2>. QED
    BY <1>1, <2>2, <2>3 DEF Unheard, OnlyNormal
<1>7. CASE RobotFaults \/ PressesReset \/ Connects \/ SpinEnters \/ SpinLeaves \/ SpinDies \/ Closes
  BY <1>2, <1>7 DEF RobotFaults, PressesReset, Connects, SpinEnters, SpinLeaves, SpinDies, Closes,
                    sourceVars, topicVars
<1>8. CASE Speaks
  BY <1>2, <1>8 DEF Speaks, topicVars
<1>9. CASE UNCHANGED guiVars
  BY <1>2, <1>9 DEF guiVars, sourceVars, topicVars
<1>. QED
  BY <1>3, <1>4, <1>5, <1>6, <1>7, <1>8, <1>9 DEF Next, GuiNext, SpinSteps, vars

\* No NORMAL of before the fault hides the banner of a fault that came alone.
THEOREM PastNormalHidesNothing == Spec => StaleNormalKeepsBanner
<1> DEFINE Met == Typed /\ SttTypeOK /\ Unheard
<1>1. Init => Met
  BY TypesInit DEF Init, GuiInit, Unheard
<1>2. Met /\ [Next]_vars => Met'
  BY TypesStep, UnheardKept
<1>3. Met /\ [Next]_vars => (shower > heard => banner')
  BY UnheardKept
<1>4. Met /\ [Next]_vars => [shower > heard => banner']_vars
  BY <1>3
<1>. QED
  BY <1>1, <1>2, <1>4, PTL DEF Spec, StaleNormalKeepsBanner

(***************************************************************************)
(* The microphone.  Only a close that took the stream leads to recording.  *)
(***************************************************************************)
LEMMA MicStep == ASSUME MicFreeForRecording, [Next]_vars PROVE MicFreeForRecording'
<1> USE DEF MicFreeForRecording, GoTo, Fails
<1>1. ASSUME UNCHANGED sttVars PROVE MicFreeForRecording'
  BY <1>1 DEF sttVars
<1>2. CASE Captures
  BY <1>2 DEF Captures, LoopTop, OpensMic, Listens, ClosesMic, Records, Transcribes, BacksOff
<1>3. CASE PublishesUtterance \/ Stops
  BY <1>3 DEF PublishesUtterance, Stops
<1>. QED
  BY <1>1, <1>2, <1>3 DEF Next, Speaks, vars

\* The command is recorded with the stream of the wake word closed, however closing failed before.
THEOREM RecordsWithFreeMic == Spec => []MicFreeForRecording
<1>1. Init => MicFreeForRecording
  BY DEF Init, SttInit, MicFreeForRecording
<1>. QED
  BY <1>1, MicStep, PTL DEF Spec

=============================================================================
